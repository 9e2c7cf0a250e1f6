----------------------------- MODULE MCHomeChecker -----------------------------
(***************************************************************************)
(* Small instances of HomeChecker for TLC.  What is watched is chosen at   *)
(* the start: the requests, with the copies of one id; or the gate alone,  *)
(* behind which requests of several ids come and go, enough of them for    *)
(* the cache to run full, to forget the oldest and to let others expire.   *)
(***************************************************************************)
EXTENDS HomeChecker

CONSTANTS
    MaxAccepted,  \* bound of the model on the requests that the gate alone accepts
    RequestTime   \* bound of the model on the clock while requests are watched

ASSUME InstanceAssumption == MaxAccepted \in Nat /\ RequestTime \in Nat

VARIABLE watched

MCInit ==
    /\ HomeInit
    /\ watched \in {"requests", "gate"}

OneId == \A i \in DOMAIN accepted' : accepted'[i].id = CHOOSE id \in Ids : TRUE

WatchRequests ==
    /\ watched = "requests"
    /\ HomeNext
    /\ OneId /\ now' <= RequestTime

Gate ==
    \/ /\ Len(accepted) < MaxAccepted
       /\ \E id \in Ids, timestamp \in 0 .. MaxTime, signing \in Signing :
              Verify(id, timestamp, signing)
    \/ Tick
    \/ ForgetReplays

WatchGate ==
    /\ watched = "gate"
    /\ Gate
    /\ UNCHANGED hvars

MCNext == (WatchRequests \/ WatchGate) /\ UNCHANGED watched

MCSpec == MCInit /\ [][MCNext]_<<vars, watched>> /\ HomeFairness

================================================================================
