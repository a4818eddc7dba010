----------------------------- MODULE Documents -----------------------------
(***************************************************************************)
(* The documents of the TMS and the WMS that carry a status: transport     *)
(* orders, transport segments and return orders (src/tms/service.py),      *)
(* picking waves, purchase orders and shipments (src/wms/service.py), and  *)
(* stock-in and stock-out documents (src/routes/stock.py).                 *)
(*                                                                         *)
(* They share one way of working: a request SELECTs the row, checks the    *)
(* status it read, and commits the change later, without a row lock and    *)
(* without a version.  The documents have no state in common, so one row   *)
(* is followed, of a kind chosen in Init.  Each action named after a       *)
(* function of the services is that function up to its commit, Commit is   *)
(* the commit; a request that is refused changes nothing and is no step.   *)
(***************************************************************************)
CONSTANTS
    Sessions     \* concurrent HTTP requests

VARIABLES
    kind,        \* what the row is
    status,      \* its status column, or "absent" before the row exists
    visited,     \* every status the row has had (history variable)
    marks,       \* the timestamps and attached rows that exist
    txn          \* per session: what it read and what it will write

vars == <<kind, status, visited, marks, txn>>

-----------------------------------------------------------------------------
(* The tables of allowed transitions.                                      *)

transport_status_transitions ==
    [draft            |-> {"dispatched", "in_transit", "cancelled"},
     dispatched       |-> {"pickup_completed", "in_transit", "cancelled"},
     pickup_completed |-> {"in_transit", "exception"},
     in_transit       |-> {"out_for_delivery", "exception"},
     out_for_delivery |-> {"delivered", "exception"},
     delivered        |-> {},
     exception        |-> {"dispatched", "delivered", "cancelled"},
     cancelled        |-> {}]

segment_transitions ==
    [draft               |-> {"dispatched", "cancelled"},
     dispatched          |-> {"pickup", "cancelled"},
     pickup              |-> {"in_transit", "exception"},
     in_transit          |-> {"transit_hub_arrived", "out_for_delivery",
                              "exception"},
     transit_hub_arrived |-> {"sorting_center", "in_transit", "exception"},
     sorting_center      |-> {"in_transit", "exception"},
     out_for_delivery    |-> {"completed", "exception"},
     completed           |-> {},
     exception           |-> {"cancelled"},
     cancelled           |-> {}]

\* "cancelled" is in the table of the function but no member of ReturnStatus.
return_transitions ==
    [requested             |-> {"pickup_scheduled", "cancelled"},
     pickup_scheduled      |-> {"in_transit_return", "cancelled"},
     in_transit_return     |-> {"returned_to_warehouse", "cancelled"},
     returned_to_warehouse |-> {"refunded", "closed"},
     refunded              |-> {},
     closed                |-> {}]

stock_in_transitions ==
    [DRAFT |-> {"CONFIRMED"}, CONFIRMED |-> {"RECEIVED"}, RECEIVED |-> {}]

stock_out_transitions ==
    [DRAFT |-> {"CONFIRMED"}, CONFIRMED |-> {"SHIPPED"}, SHIPPED |-> {}]

\* The statuses a row of each kind can hold.
Statuses ==
    [transport |-> DOMAIN transport_status_transitions,
     segment   |-> DOMAIN segment_transitions,
     return    |-> DOMAIN return_transitions,
     wave      |-> {"pending", "in_progress", "completed"},
     purchase  |-> {"draft", "approved", "received"},
     shipment  |-> {"picked", "packed", "shipped"},
     stock_in  |-> DOMAIN stock_in_transitions,
     stock_out |-> DOMAIN stock_out_transitions]

Kinds == DOMAIN Statuses

AllStatuses == UNION {Statuses[k] : k \in Kinds}

Absent == "absent"

Marks == {"pickup_time", "delivery_time", "delivered_event",
          "departure_time", "arrival_time", "packed", "shipped_at"}

\* target is the status to write, "none" when the status column is left alone.
Txn == [pc     : {"idle", "loaded"},
        seen   : AllStatuses \union {Absent},
        target : AllStatuses \union {"none"},
        sets   : SUBSET Marks]

Idle == [pc |-> "idle", seen |-> Absent, target |-> "none", sets |-> {}]

-----------------------------------------------------------------------------
Init ==
    /\ kind \in Kinds
    /\ status = Absent
    /\ visited = {}
    /\ marks = {}
    /\ txn = [p \in Sessions |-> Idle]

\* The INSERT of a row of kind k with status s.
Create(k, s) ==
    /\ kind = k
    /\ status = Absent
    /\ status' = s
    /\ visited' = {s}
    /\ UNCHANGED <<kind, marks, txn>>

\* The SELECT of a row of kind k, and the assignments to the loaded object.
Load(p, k, target, sets) ==
    /\ kind = k
    /\ status # Absent
    /\ txn[p].pc = "idle"
    /\ txn' = [txn EXCEPT ![p] = [pc |-> "loaded", seen |-> status,
                                  target |-> target, sets |-> sets]]
    /\ UNCHANGED <<kind, status, visited, marks>>

-----------------------------------------------------------------------------
(* Transport orders                                                        *)

\* The CREATED tracking event of a second, best-effort commit is left out.
create_transport_order == Create("transport", "draft")

\* actual_pickup_time is kept when it was set in the row as read.
TransportTimes(target) ==
    IF target = "in_transit" THEN {"pickup_time"} \ marks
    ELSE IF target = "delivered" THEN {"delivery_time"}
    ELSE {}

change_transport_status(p, target) ==
    /\ status \in DOMAIN transport_status_transitions
    /\ target \in transport_status_transitions[status]
    /\ Load(p, "transport", target, TransportTimes(target))

\* Mutant: the parent order is not updated.
create_tracking_event_only(p) ==
    Load(p, "transport", "none", {"delivered_event"})

\* A "delivered" scan; the others only add a row of the tracking history.
create_tracking_event(p) ==
    Load(p, "transport", "none",
         {"delivered_event"} \union ({"delivery_time"} \ marks))

-----------------------------------------------------------------------------
(* Transport segments                                                      *)

create_segment == Create("segment", "draft")

SegmentTimes(target) ==
    IF target = "dispatched" THEN {"departure_time"}
    ELSE IF target = "completed" THEN {"arrival_time"}
    ELSE {}

\* Mutant: the table is not consulted.
update_segment_status_any(p, target) ==
    /\ target \in DOMAIN segment_transitions
    /\ Load(p, "segment", target, SegmentTimes(target))

update_segment_status(p, target) ==
    /\ status \in DOMAIN segment_transitions
    /\ target \in segment_transitions[status]
    /\ Load(p, "segment", target, SegmentTimes(target))

-----------------------------------------------------------------------------
(* Return orders.  mark_shipment_received is missing: it wants a shipment  *)
(* status IN_TRANSIT_RETURN that nothing in the code ever writes, so it    *)
(* refuses every call.                                                     *)

create_return_order == Create("return", "requested")

update_return_status(p, target) ==
    /\ status \in DOMAIN return_transitions
    /\ target \in return_transitions[status]
    /\ Load(p, "return", target, {})

mark_return_inspected(p, accepted) ==
    /\ status \in {"returned_to_warehouse", "in_transit_return"}
    /\ Load(p, "return", IF accepted THEN "refunded" ELSE "closed", {})

cancel_return_order(p) ==
    /\ status \in {"requested", "pickup_scheduled"}
    /\ Load(p, "return", "closed", {})

-----------------------------------------------------------------------------
(* Picking waves and packing                                               *)

create_picking_wave == Create("wave", "pending")

\* Flushes only; the commit of its caller's session makes the wave durable.
assign_pick_task == Create("wave", "pending")

\* Mutant: a wave is started whatever its status.
start_picking_unchecked(p) == Load(p, "wave", "in_progress", {})

start_picking(p) ==
    /\ status = "pending"
    /\ Load(p, "wave", "in_progress", {})

complete_picking(p) ==
    /\ status = "in_progress"
    /\ Load(p, "wave", "completed", {})

\* No condition on the status; an unchanged attribute is not written.
complete_pick(p) ==
    Load(p, "wave", IF status = "completed" THEN "none" ELSE "completed", {})

\* A PackingRecord; the wave itself is only read.
create_packing(p) ==
    /\ status = "completed"
    /\ Load(p, "wave", "none", {"packed"})

-----------------------------------------------------------------------------
(* Purchase orders and shipments                                           *)

create_purchase_order == Create("purchase", "draft")

approve_purchase_order(p) ==
    /\ status = "draft"
    /\ Load(p, "purchase", "approved", {})

\* The code also admits "partial", a status nothing writes.
receive_goods(p) ==
    /\ status = "approved"
    /\ Load(p, "purchase", "received", {})

create_shipment == \E s \in {"picked", "packed"} : Create("shipment", s)

mark_shipped(p) ==
    Load(p, "shipment", IF status = "shipped" THEN "none" ELSE "shipped",
         {"shipped_at"})

-----------------------------------------------------------------------------
(* Stock-in and stock-out documents.  The status read passes the check as  *)
(* well, and is written by an UPDATE statement of its own.                 *)

create_stock_in == Create("stock_in", "DRAFT")

update_stock_in(p, target) ==
    /\ status \in DOMAIN stock_in_transitions
    /\ target \in stock_in_transitions[status] \union {status}
    /\ Load(p, "stock_in", target, {})

create_stock_out == Create("stock_out", "DRAFT")

update_stock_out(p, target) ==
    /\ status \in DOMAIN stock_out_transitions
    /\ target \in stock_out_transitions[status] \union {status}
    /\ Load(p, "stock_out", target, {})

-----------------------------------------------------------------------------
\* Mutant: the column takes any string.
CommitAny(p) ==
    /\ txn[p].pc = "loaded"
    /\ status' = IF txn[p].target = "none" THEN status ELSE txn[p].target
    /\ visited' = visited \union {status'}
    /\ marks' = marks \union txn[p].sets
    /\ txn' = [txn EXCEPT ![p] = Idle]
    /\ UNCHANGED kind

\* db.commit(): UPDATE ... WHERE id.  The database refuses a value that is not
\* in the enum type of the column; such a session can only be rolled back.
Commit(p) ==
    /\ txn[p].pc = "loaded"
    /\ txn[p].target \in Statuses[kind] \union {"none"}
    /\ status' = IF txn[p].target = "none" THEN status ELSE txn[p].target
    /\ visited' = visited \union {status'}
    /\ marks' = marks \union txn[p].sets
    /\ txn' = [txn EXCEPT ![p] = Idle]
    /\ UNCHANGED kind

\* A refused value, a database error or the death of the process.
Rollback(p) ==
    /\ txn[p].pc = "loaded"
    /\ txn' = [txn EXCEPT ![p] = Idle]
    /\ UNCHANGED <<kind, status, visited, marks>>

-----------------------------------------------------------------------------
CreateDocument ==
    \/ create_transport_order
    \/ create_segment
    \/ create_return_order
    \/ create_picking_wave
    \/ assign_pick_task
    \/ create_purchase_order
    \/ create_shipment
    \/ create_stock_in
    \/ create_stock_out

Request(p) ==
    \/ \E target \in AllStatuses :
          \/ change_transport_status(p, target)
          \/ update_segment_status(p, target)
          \/ update_return_status(p, target)
          \/ update_stock_in(p, target)
          \/ update_stock_out(p, target)
    \/ create_tracking_event(p)
    \/ \E accepted \in BOOLEAN : mark_return_inspected(p, accepted)
    \/ cancel_return_order(p)
    \/ start_picking(p)
    \/ complete_picking(p)
    \/ complete_pick(p)
    \/ create_packing(p)
    \/ approve_purchase_order(p)
    \/ receive_goods(p)
    \/ mark_shipped(p)

Next ==
    \/ CreateDocument
    \/ \E p \in Sessions : Request(p) \/ Commit(p) \/ Rollback(p)

Spec == Init /\ [][Next]_vars

-----------------------------------------------------------------------------
(* Properties                                                              *)

\* Every variable has its type: in particular the status column holds a status
\* of its own kind of document, whatever the tables admit.
TypeOK ==
    /\ kind \in Kinds
    /\ status \in Statuses[kind] \union {Absent}
    /\ visited \subseteq Statuses[kind]
    /\ marks \subseteq Marks
    /\ txn \in [Sessions -> Txn]

\* For each kind the pairs <<a, b>> such that a document must have been in
\* status a before it can be in status b.
Before ==
    [transport |-> {<<"dispatched", "pickup_completed">>,
                    <<"in_transit", "out_for_delivery">>},
     segment   |-> {<<"dispatched", "pickup">>,
                    <<"pickup", "in_transit">>,
                    <<"pickup", "exception">>,
                    <<"in_transit", "transit_hub_arrived">>,
                    <<"transit_hub_arrived", "sorting_center">>,
                    <<"in_transit", "out_for_delivery">>,
                    <<"out_for_delivery", "completed">>},
     return    |-> {<<"pickup_scheduled", "in_transit_return">>,
                    <<"in_transit_return", "returned_to_warehouse">>,
                    <<"in_transit_return", "refunded">>},
     wave      |-> {},
     purchase  |-> {<<"approved", "received">>},
     shipment  |-> {},
     stock_in  |-> {<<"CONFIRMED", "RECEIVED">>},
     stock_out |-> {<<"CONFIRMED", "SHIPPED">>}]

\* However stale the reads on which the services decide, no document skips a
\* stage that every path through the transition tables passes.
NoStageSkipped ==
    \A pair \in Before[kind] : pair[2] \in visited => pair[1] \in visited

\* A stage that the services date is dated, although the times are written
\* only when they were missing in the row as read: pickup before transit,
\* delivery by a status or by a scan, departure and arrival of a segment, the
\* shipping of a shipment; and only a wave that was completed is packed.
StagesAreDated ==
    /\ kind = "transport" =>
          /\ "in_transit" \in visited => "pickup_time" \in marks
          /\ "delivered" \in visited => "delivery_time" \in marks
          /\ "delivered_event" \in marks => "delivery_time" \in marks
    /\ kind = "segment" =>
          /\ "dispatched" \in visited => "departure_time" \in marks
          /\ "completed" \in visited => "arrival_time" \in marks
    /\ kind = "shipment" => ("shipped" \in visited => "shipped_at" \in marks)
    /\ "packed" \in marks => "completed" \in visited

\* The statuses no operation of the services leaves.
Final ==
    [transport |-> {"delivered", "cancelled"},
     segment   |-> {"completed", "cancelled"},
     return    |-> {"refunded", "closed"},
     wave      |-> {"completed"},
     purchase  |-> {"received"},
     shipment  |-> {"shipped"},
     stock_in  |-> {"RECEIVED"},
     stock_out |-> {"SHIPPED"}]

\* A finished document is only ever reopened by a session that read it before
\* it was finished: no operation decides to leave a final status.
ReopenedByStaleReadOnly ==
    [][(status \in Final[kind] /\ status' # status) =>
          \E p \in Sessions : /\ txn[p].pc = "loaded"
                              /\ txn'[p].pc = "idle"
                              /\ txn[p].seen # status]_vars

=============================================================================
