---------------------------- MODULE GatewayVerifier ----------------------------
(***************************************************************************)
(* The gateway check of the home accessibility checker                     *)
(* (services/gateway-auth.js): a request that the API gateway signed is    *)
(* accepted inside a window of MaxAge seconds around its timestamp, and a  *)
(* cache of the accepted request ids refuses a second copy of it.  The     *)
(* cache is a Map of the process: it is bounded, it forgets entries that   *)
(* expired, and it is empty after a restart.  Every call of verifyRequest  *)
(* is one turn of the event loop, hence one action.                        *)
(***************************************************************************)
EXTENDS Naturals, FiniteSets, Sequences

CONSTANTS
    Ids,               \* request ids
    MaxAge,            \* signature lifetime in seconds
    MaxReplayEntries,  \* capacity of the cache
    MaxTime            \* bound of the model on the clock

ASSUME VerifierAssumption ==
    /\ MaxAge \in Nat \ {0}
    /\ MaxReplayEntries \in Nat \ {0}
    /\ MaxTime \in Nat

VARIABLES
    mode,      \* how the process was configured, see Mode
    now,       \* the tool's clock in seconds
    cache,     \* the entries of replayCache
    accepted   \* history: the signed requests this process accepted, in order

vvars == <<mode, now, cache, accepted>>

\* A valid key, slug and lifetime; else refusal, unless unsigned calls are allowed.
Mode == {"enforced", "unconfigured", "bypass"}

\* What a request carries: "unsigned" lacks a header, or names another key, tool
\* or signature version; "forged" has the headers and a signature that fails.
Signing == {"signed", "unsigned", "forged"}

\* nth is the rank of the insertion: a Map iterates in this order.
Entry == [key : Ids, expires : Nat, nth : Nat]

VerifierInit ==
    /\ mode \in Mode
    /\ now = 0
    /\ cache = {}
    /\ accepted = <<>>

--------------------------------------------------------------------------------
(* verifyRequest                                                           *)

Expired(timestamp) == now > timestamp + MaxAge \/ timestamp > now + MaxAge

\* removeExpiredReplayEntries, before the look-up.
Unexpired == {e \in cache : e.expires > now}

Replayed(id) == \E e \in Unexpired : e.key = id

Verdict(id, timestamp, signing) ==
    IF mode = "unconfigured" THEN "not_configured"
    ELSE IF mode = "bypass" THEN "bypassed"
    ELSE IF signing = "unsigned" THEN "invalid"
    ELSE IF Expired(timestamp) THEN "expired"
    ELSE IF signing = "forged" THEN "invalid"
    ELSE IF Replayed(id) THEN "replayed"
    ELSE "accepted"

\* evictReplayEntries makes room for one more: the oldest entries go first.
Evicted(C) ==
    {e \in C : Cardinality({f \in C : f.nth > e.nth}) + 1 < MaxReplayEntries}

\* Mutant: an entry that expires a second early.
ShortLifetime == now + MaxAge - 1

Lifetime == now + MaxAge

Remembered(id) == [key |-> id, expires |-> Lifetime, nth |-> Len(accepted) + 1]

\* One call of verifyRequest.  Only a correctly signed request inside the window
\* gets as far as the cache, and only an accepted one enters it.
Verify(id, timestamp, signing) ==
    LET verdict == Verdict(id, timestamp, signing) IN
    /\ cache' = CASE verdict = "accepted" -> Evicted(Unexpired) \cup {Remembered(id)}
                  [] verdict = "replayed" -> Unexpired
                  [] OTHER -> cache
    /\ accepted' = IF verdict = "accepted"
                   THEN Append(accepted, [id |-> id, at |-> now]) ELSE accepted
    /\ UNCHANGED <<mode, now>>

Tick ==
    /\ now < MaxTime
    /\ now' = now + 1
    /\ UNCHANGED <<mode, cache, accepted>>

\* A new process starts with a new Map.
ForgetReplays ==
    /\ cache' = {}
    /\ accepted' = <<>>
    /\ UNCHANGED <<mode, now>>

VerifierNext ==
    \/ \E id \in Ids, timestamp \in Nat, signing \in Signing :
           Verify(id, timestamp, signing)
    \/ Tick
    \/ ForgetReplays

VerifierSpec == VerifierInit /\ [][VerifierNext]_vvars

--------------------------------------------------------------------------------
(* Properties                                                              *)

VerifierTypeOK ==
    /\ mode \in Mode
    /\ now \in Nat
    /\ cache \subseteq Entry
    /\ accepted \in Seq([id : Ids, at : Nat])

\* A process accepts one request id again only after the lifetime of its cache entry,
\* or after so many other requests that the full cache had to forget it: inside these
\* limits a duplicated delivery of a signed request is processed once.
NoEarlyRepeat ==
    \A i, j \in DOMAIN accepted :
        (i < j /\ accepted[i].id = accepted[j].id)
            => \/ accepted[j].at >= accepted[i].at + MaxAge
               \/ j - i > MaxReplayEntries

================================================================================
