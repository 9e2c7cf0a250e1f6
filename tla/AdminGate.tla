------------------------------- MODULE AdminGate -------------------------------
(***************************************************************************)
(* The gate in front of the two pages for administrators (apps/web/src/    *)
(* app/admin and app/approver, which share its code by copy): an effect    *)
(* that runs again whenever the account's context changes asks the API     *)
(* for the account's role.  A check that an earlier account left behind    *)
(* may end at any time.                                                    *)
(***************************************************************************)
EXTENDS Naturals, FiniteSets

CONSTANTS
    Accounts,  \* accounts
    Admins     \* those the API knows as administrators

ASSUME GateAssumption == Admins \subseteq Accounts

VARIABLES
    viewer,  \* useCurrentAccount
    gate,    \* access, and the account the session token is of
    checks   \* verifyAdmin calls in progress

gateVars == <<viewer, gate, checks>>

\* What the effect makes of the account before the API is asked.
Gate(a, token) ==
    CASE a = "unconfigured" -> [access |-> "not_configured", token |-> "none"]
      [] a = "guest" -> [access |-> "signed_out", token |-> "none"]
      [] OTHER -> [access |-> "checking", token |-> token]

Viewers == Accounts \cup {"loading", "unconfigured", "guest"}

Check(a) == {[user |-> u, active |-> TRUE] : u \in {a} \cap Accounts}

GateInit ==
    /\ viewer \in Viewers
    /\ gate = Gate(viewer, "none")
    /\ checks = Check(viewer)

\* The page behind the gate is mounted.
Mounted == gate.access = "ready" /\ gate.token # "none"

\* Mutant: the checks of an earlier account go on as if they were of this one.
StillActive == checks

\* The cleanup of the effect.
Deactivated == {[c EXCEPT !.active = FALSE] : c \in checks}

\* The context changes, if only by a new user object of the same account.
AccountChanges(a) ==
    /\ viewer' = a
    /\ gate' = Gate(a, gate.token)
    /\ checks' = Deactivated \cup Check(a)

\* verifyAdmin ends: without a token or an answer, for somebody else, or well.
Verdicts(c) ==
    {[access |-> "error", token |-> "none"],
     IF c.user \in Admins THEN [access |-> "ready", token |-> c.user]
     ELSE [access |-> "forbidden", token |-> "none"]}

VerifyAdmin(c) ==
    /\ c \in checks
    /\ checks' = checks \ {c}
    /\ IF c.active THEN gate' \in Verdicts(c) ELSE gate' = gate
    /\ viewer' = viewer

Opens == ~Mounted /\ gate'.access = "ready"

\* The page behind the gate is only ever open for the account that is signed in now and
\* that the API named an administrator, whatever checks of earlier accounts come back
\* late (the active flag of verifyAdmin).
GateIsGuarded == Mounted => gate.token = viewer /\ viewer \in Admins
================================================================================
