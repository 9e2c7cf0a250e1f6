------------------------------ MODULE DurableInbox ------------------------------
(***************************************************************************)
(* What the webhook inbox promises, without handlers, queues or retries:   *)
(* an event is first recorded, then possibly completed by its handler, and *)
(* only a recorded event is confirmed to the provider and only a completed *)
(* one reported as succeeded.  Nothing recorded or completed is forgotten. *)
(***************************************************************************)
CONSTANT Events

VARIABLES
    recorded,    \* events with a durable receipt
    completed,   \* events whose handler has completed
    confirmed,   \* events the provider got a 2xx for
    reported     \* events whose receipt says succeeded

inboxVars == <<recorded, completed, confirmed, reported>>

InboxInit ==
    /\ recorded = {}
    /\ completed = {}
    /\ confirmed = {}
    /\ reported = {}

Record(e) ==
    /\ recorded' = recorded \cup {e}
    /\ UNCHANGED <<completed, confirmed, reported>>

Complete(e) ==
    /\ e \in recorded
    /\ completed' = completed \cup {e}
    /\ UNCHANGED <<recorded, confirmed, reported>>

Confirm(e) ==
    /\ e \in recorded
    /\ confirmed' = confirmed \cup {e}
    /\ UNCHANGED <<recorded, completed, reported>>

Report(e) ==
    /\ e \in completed
    /\ reported' = reported \cup {e}
    /\ UNCHANGED <<recorded, completed, confirmed>>

\* A session that loaded the receipt before it succeeded reopens it.
Reopen(e) ==
    /\ reported' = reported \ {e}
    /\ UNCHANGED <<recorded, completed, confirmed>>

InboxNext ==
    \E e \in Events :
        Record(e) \/ Complete(e) \/ Confirm(e) \/ Report(e) \/ Reopen(e)

InboxSpec == InboxInit /\ [][InboxNext]_inboxVars
=============================================================================
