--------------------------- MODULE OutboxContract ---------------------------
(***************************************************************************)
(* What the outbox promises (the module comment of src/core/outbox.py): an *)
(* event that was recorded with its business transaction is handed to the  *)
(* dispatch endpoint at least once, and is taken off the queue only after  *)
(* the endpoint has accepted it.                                           *)
(***************************************************************************)
CONSTANTS
    Events,       \* event ids
    Deliverable   \* the events the endpoint does not reject for ever

VARIABLES
    recorded,     \* events committed to outbox_events
    accepted,     \* events the endpoint has answered 2xx at least once
    retired       \* events no later poll will select

Init ==
    /\ recorded = {}
    /\ accepted = {}
    /\ retired = {}

Record(e) ==
    /\ e \notin recorded
    /\ recorded' = recorded \union {e}
    /\ UNCHANGED <<accepted, retired>>

Accept(e) ==
    /\ e \in recorded
    /\ accepted' = accepted \union {e}
    /\ UNCHANGED <<recorded, retired>>

Retire(S) ==
    /\ S \subseteq accepted
    /\ retired' = retired \union S
    /\ UNCHANGED <<recorded, accepted>>

Next ==
    \/ \E e \in Events : Record(e) \/ Accept(e)
    \/ \E S \in SUBSET Events : Retire(S)

Spec == Init /\ [][Next]_<<recorded, accepted, retired>>

\* Reliable delivery: what was recorded is accepted in the end.
Delivery == \A e \in Deliverable : e \in recorded ~> e \in accepted
=============================================================================
