----------------------------- MODULE MCStripeEvents -----------------------------
(***************************************************************************)
(* Small instances of StripeEvents for TLC.                                *)
(***************************************************************************)
EXTENDS StripeEvents, TLC

\* Fault budgets: each kind may strike that often.
NoFaults       == [k \in FaultKind |-> 0]
EveryFaultOnce == [k \in FaultKind |-> 1]
RetriedFaults  == [NoFaults EXCEPT !["handler"] = 1, !["worker"] = 1]
InboxFaults    == [NoFaults EXCEPT !["handler"] = 1, !["queue"] = 1]

\* Request handlers and worker slots are interchangeable (safety runs only).
Symmetry == Permutations(Api) \cup Permutations(Workers)
=============================================================================
