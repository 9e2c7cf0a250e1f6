------------------------------- MODULE KeysPanel -------------------------------
(***************************************************************************)
(* The API keys of the signed-in account (apps/web/src/components/         *)
(* dashboard/ApiKeyManager.tsx).                                           *)
(*                                                                         *)
(* An effect loads the list for each account, and drops the answer when    *)
(* the account changes first.  A key is created and revoked by calls that  *)
(* answer into a copy of the list as it was when they were sent, so that   *)
(* of two answers that overlap the later one undoes what the earlier did.  *)
(* The panel is modelled by itself, in a page that keeps it: the dashboard *)
(* takes it down while an account loads and puts up a new one after that.  *)
(***************************************************************************)
EXTENDS Naturals, FiniteSets

CONSTANTS
    Owners,      \* accounts
    Keys,        \* keys, each created at most once
    MaxKeyCalls  \* bound: calls, failures and changes of the account, together

ASSUME KeysAssumption == MaxKeyCalls \in Nat

VARIABLES
    owner,     \* the account that is signed in
    shown,     \* what the panel shows: keys, status, the secret, a row asking to confirm
    listing,   \* loadKeys calls in progress
    creating,  \* the createKey call in progress, if any
    revoking,  \* the revokeKey call in progress, if any
    issued,    \* the server's keys
    untidy,    \* history: calls overlapped, an answer was lost, or a key was created
               \* on top of a list that had not loaded
    kcalls     \* bound, see MaxKeyCalls

keysVars == <<owner, shown, listing, creating, revoking, issued, untidy, kcalls>>

NoKeys == [k \in Keys |-> "absent"]
NoCall == [pc |-> "none"]
Blank(status) == [keys |-> NoKeys, status |-> status, secret |-> "none", asking |-> "none"]

KeysInit ==
    /\ owner \in Owners \cup {"guest"}
    /\ shown = Blank(IF owner = "guest" THEN "idle" ELSE "loading")
    /\ listing = {[user |-> u, active |-> TRUE, saw |-> "nothing", keys |-> NoKeys] : u \in {owner} \cap Owners}
    /\ creating = NoCall
    /\ revoking = NoCall
    /\ issued = [k \in Keys |-> [status |-> "absent", user |-> "none"]]
    /\ untidy = FALSE
    /\ kcalls = 0

KeyCall == kcalls < MaxKeyCalls /\ kcalls' = kcalls + 1

KeysOf(u) == [k \in Keys |-> IF issued[k].user = u THEN issued[k].status ELSE "absent"]

Busy == creating # NoCall \/ revoking # NoCall \/ listing # {}

--------------------------------------------------------------------------------

\* Signing in, out, or a new token: the list stays until the load answers, the secret
\* until it is dismissed.
OwnerChanges ==
    /\ KeyCall
    /\ \E u \in Owners \cup {"guest"} :
          /\ owner' = u
          /\ shown' = IF u = "guest" THEN [shown EXCEPT !.keys = NoKeys, !.status = "idle"]
                      ELSE [shown EXCEPT !.status = "loading"]
          /\ listing' = {[l EXCEPT !.active = FALSE] : l \in listing} \cup
                {[user |-> v, active |-> TRUE, saw |-> "nothing", keys |-> NoKeys] : v \in {u} \cap Owners}
    /\ untidy' = (untidy \/ creating # NoCall \/ revoking # NoCall)
    /\ UNCHANGED <<creating, revoking, issued>>

ListKeys(l) ==
    /\ l \in listing /\ l.saw = "nothing"
    /\ listing' = (listing \ {l}) \cup {[l EXCEPT !.saw = "keys", !.keys = KeysOf(l.user)]}
    /\ UNCHANGED <<owner, shown, creating, revoking, issued, untidy, kcalls>>

\* Mutant: the answer for an earlier account is shown too.
AnyIsCurrent(l) == TRUE

Current(l) == l.active

KeysListed(l) ==
    /\ l \in listing /\ l.saw = "keys"
    /\ listing' = listing \ {l}
    /\ shown' = IF Current(l) THEN [shown EXCEPT !.keys = l.keys, !.status = "ready"] ELSE shown
    /\ UNCHANGED <<owner, creating, revoking, issued, untidy, kcalls>>

ListingFails(l) ==
    /\ l \in listing /\ KeyCall
    /\ listing' = listing \ {l}
    /\ shown' = IF Current(l) THEN [shown EXCEPT !.keys = NoKeys, !.status = "error"] ELSE shown
    /\ UNCHANGED <<owner, creating, revoking, issued, untidy>>

\* The form; one creation at a time.
CreateKey ==
    /\ owner # "guest" /\ creating = NoCall /\ KeyCall
    /\ creating' = [pc |-> "sent", user |-> owner, keys |-> shown.keys, key |-> "none"]
    /\ untidy' = (untidy \/ Busy \/ shown.status # "ready")
    /\ UNCHANGED <<owner, shown, listing, revoking, issued>>

Issue(k) ==
    /\ creating.pc = "sent" /\ issued[k].status = "absent"
    /\ issued' = [issued EXCEPT ![k] = [status |-> "active", user |-> creating.user]]
    /\ creating' = [creating EXCEPT !.pc = "issued", !.key = k]
    /\ UNCHANGED <<owner, shown, listing, revoking, untidy, kcalls>>

\* The answer: the list of when the call was sent with the new key, and its secret, which
\* no later call returns; whoever is signed in by now.
Created ==
    /\ creating.pc = "issued"
    /\ shown' = [shown EXCEPT !.keys = [creating.keys EXCEPT ![creating.key] = "active"],
                              !.secret = creating.key, !.status = "ready"]
    /\ creating' = NoCall
    /\ UNCHANGED <<owner, listing, revoking, issued, untidy, kcalls>>

CreationFails ==
    /\ creating # NoCall
    /\ creating' = NoCall
    /\ untidy' = (untidy \/ creating.pc = "issued")
    /\ UNCHANGED <<owner, shown, listing, revoking, issued, kcalls>>

\* A row's Revoke button, and Cancel.
AskRevoke(k) ==
    /\ shown.keys[k] = "active" /\ shown.asking # k
    /\ shown' = [shown EXCEPT !.asking = k]
    /\ UNCHANGED <<owner, listing, creating, revoking, issued, untidy, kcalls>>

CancelRevoke ==
    /\ shown.asking # "none" /\ shown.keys[shown.asking] = "active"
    /\ shown' = [shown EXCEPT !.asking = "none"]
    /\ UNCHANGED <<owner, listing, creating, revoking, issued, untidy, kcalls>>

\* Confirm; one revocation at a time.
RevokeKey(k) ==
    /\ owner # "guest" /\ shown.asking = k /\ shown.keys[k] = "active"
    /\ revoking = NoCall /\ KeyCall
    /\ revoking' = [pc |-> "sent", user |-> owner, keys |-> shown.keys, key |-> k]
    /\ untidy' = (untidy \/ Busy)
    /\ UNCHANGED <<owner, shown, listing, creating, issued>>

\* A key of another account is not found.
Revoked ==
    /\ revoking.pc = "sent" /\ issued[revoking.key].user = revoking.user
    /\ issued' = [issued EXCEPT ![revoking.key].status = "revoked"]
    /\ revoking' = [revoking EXCEPT !.pc = "revoked"]
    /\ UNCHANGED <<owner, shown, listing, creating, untidy, kcalls>>

RevocationAnswered ==
    /\ revoking.pc = "revoked"
    /\ shown' = [shown EXCEPT !.keys = [revoking.keys EXCEPT ![revoking.key] = "revoked"],
                              !.asking = "none"]
    /\ revoking' = NoCall
    /\ UNCHANGED <<owner, listing, creating, issued, untidy, kcalls>>

RevocationFails ==
    /\ revoking # NoCall
    /\ revoking' = NoCall
    /\ untidy' = (untidy \/ revoking.pc = "revoked")
    /\ UNCHANGED <<owner, shown, listing, creating, issued, kcalls>>

DismissSecret ==
    /\ shown.secret # "none" /\ owner # "guest"
    /\ shown' = [shown EXCEPT !.secret = "none"]
    /\ UNCHANGED <<owner, listing, creating, revoking, issued, untidy, kcalls>>

KeysNext ==
    \/ OwnerChanges
    \/ \E l \in listing : ListKeys(l) \/ KeysListed(l) \/ ListingFails(l)
    \/ CreateKey \/ Created \/ CreationFails
    \/ \E k \in Keys : Issue(k) \/ AskRevoke(k) \/ RevokeKey(k)
    \/ CancelRevoke \/ Revoked \/ RevocationAnswered \/ RevocationFails
    \/ DismissSecret

KeysSpec == KeysInit /\ [][KeysNext]_keysVars

--------------------------------------------------------------------------------

\* When nothing is in progress the list is that of the account signed in now, as the
\* server has it, whatever loads of earlier accounts came back late; unless calls
\* overlapped, an answer was lost, or a key was created on top of a list that had not
\* loaded (the active flag, and the captured list).
KeysAreCurrent ==
    (shown.status = "ready" /\ ~Busy /\ ~untidy) => shown.keys = KeysOf(owner)
================================================================================
