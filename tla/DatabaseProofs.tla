--------------------------- MODULE DatabaseProofs ---------------------------
(***************************************************************************)
(* Proofs about the three parts of MCDatabase, for any number of requests, *)
(* keys and rows.  The documents: no stage is skipped and none is undated, *)
(* however stale the reads.  The rows of the master data: they keep what   *)
(* the ORM classes declare, and a handler that looks for everything the    *)
(* constraints forbid is refused only after a race.  The migrations are    *)
(* the matter of MigrationsProofs, which the second part needs.            *)
(***************************************************************************)
EXTENDS MCDatabase, MigrationsProofs


-----------------------------------------------------------------------------
(* Documents: a request decides on a status that may be out of date when   *)
(* it commits.  What makes the decision safe all the same is that it stays *)
(* justified by the past of the row: visited and marks only grow, so       *)
(* whatever the request relied on when it read the row still holds at its  *)
(* commit.                                                                 *)

\* The past V of a document of kind k allows it to be in status t.
StageAllowed(k, V, t) == \A pair \in Before[k] : pair[2] = t => pair[1] \in V

\* The past V and the marks M, with what is about to be written, date status t.
Dated(k, V, M, t) ==
    /\ k = "transport" => /\ t = "in_transit" => "pickup_time" \in M
                          /\ t = "delivered" => "delivery_time" \in M
    /\ k = "segment" => /\ t = "dispatched" => "departure_time" \in M
                        /\ t = "completed" => "arrival_time" \in M
    /\ k = "shipment" => (t = "shipped" => "shipped_at" \in M)

\* The same of the marks alone.
Marked(k, V, M) ==
    /\ k = "transport" =>
          ("delivered_event" \in M => "delivery_time" \in M)
    /\ "packed" \in M => "completed" \in V

\* The decision to write status t and the marks S, taken on status s, is
\* justified by the past V and the marks M.
Justified(k, V, M, s, t, S) ==
    /\ s \in V
    /\ t \in AllStatuses \union {"none"}
    /\ S \in SUBSET Marks
    /\ StageAllowed(k, V, t)
    /\ Dated(k, V, M \union S, t)
    /\ Marked(k, V, M \union S)
    /\ s \in Final[k] => t \in {"none", s}

JustifiedSessions ==
    \A p \in Sessions : txn[p].pc = "loaded" =>
        Justified(kind, visited, marks, txn[p].seen, txn[p].target, txn[p].sets)

\* The history variable holds the present status and nothing before the row.
HistoryOK ==
    /\ status = Absent => /\ visited = {}
                          /\ marks = {}
                          /\ \A p \in Sessions : txn[p].pc = "idle"
    /\ status # Absent => status \in visited

PastOK ==
    /\ \A t \in visited : StageAllowed(kind, visited, t)
    /\ \A t \in visited : Dated(kind, visited, marks, t)
    /\ Marked(kind, visited, marks)

Inv == TypeOK /\ HistoryOK /\ PastOK /\ JustifiedSessions

-----------------------------------------------------------------------------
\* "none" is no status and needs no past.
LEMMA NoneNeedsNothing ==
    ASSUME NEW k \in Kinds, NEW V, NEW M
    PROVE  StageAllowed(k, V, "none") /\ Dated(k, V, M, "none")
  BY DEF StageAllowed, Dated, Before, Kinds, Statuses

\* A justification outlives whatever is added to the past.
LEMMA JustifiedGrows ==
    ASSUME NEW k, NEW V, NEW M, NEW s, NEW t, NEW S,
           Justified(k, V, M, s, t, S),
           NEW V2, V \subseteq V2, NEW M2, M \subseteq M2, Marked(k, V2, M2)
    PROVE  Justified(k, V2, M2, s, t, S)
  BY DEF Justified, StageAllowed, Dated, Marked

\* The table of change_transport_status leads from a past that allows the
\* status it reads to a status that this past allows, and has no way out of a
\* final status.
LEMMA TransportTable ==
    ASSUME NEW V, NEW s \in V, s \in DOMAIN transport_status_transitions,
           NEW t \in transport_status_transitions[s],
           \A v \in V : StageAllowed("transport", V, v)
    PROVE  /\ StageAllowed("transport", V, t)
           /\ t \in AllStatuses
           /\ s \notin Final["transport"]
  <1>1. t \in DOMAIN transport_status_transitions
    BY DEF transport_status_transitions
  <1>2. StageAllowed("transport", V, t)
    BY DEF StageAllowed, transport_status_transitions, Before
  <1>3. s \notin Final["transport"]
    BY DEF transport_status_transitions, Final
  <1> QED  BY <1>1, <1>2, <1>3 DEF AllStatuses, Kinds, Statuses

\* The table of update_segment_status, likewise: the way back from the hub
\* and the sorting center to transit needs the whole chain of stages.
LEMMA SegmentTable ==
    ASSUME NEW V, NEW s \in V, s \in DOMAIN segment_transitions,
           NEW t \in segment_transitions[s],
           \A v \in V : StageAllowed("segment", V, v)
    PROVE  /\ StageAllowed("segment", V, t)
           /\ t \in AllStatuses
           /\ s \notin Final["segment"]
  <1>1. t \in DOMAIN segment_transitions
    BY DEF segment_transitions
  <1>2. /\ "pickup" \in V => "dispatched" \in V
        /\ "in_transit" \in V => "pickup" \in V
        /\ "transit_hub_arrived" \in V => "in_transit" \in V
        /\ "sorting_center" \in V => "transit_hub_arrived" \in V
        /\ "out_for_delivery" \in V => "in_transit" \in V
    BY DEF StageAllowed, Before
  <1>3. /\ t = "pickup" => "dispatched" \in V
        /\ t = "in_transit" => "pickup" \in V
        /\ t = "exception" => "pickup" \in V
        /\ t = "transit_hub_arrived" => "in_transit" \in V
        /\ t = "sorting_center" => "transit_hub_arrived" \in V
        /\ t = "out_for_delivery" => "in_transit" \in V
        /\ t = "completed" => "out_for_delivery" \in V
    BY <1>2 DEF segment_transitions
  <1>4. StageAllowed("segment", V, t)
    BY <1>3 DEF StageAllowed, Before
  <1>5. s \notin Final["segment"]
    BY DEF segment_transitions, Final
  <1> QED  BY <1>1, <1>4, <1>5 DEF AllStatuses, Kinds, Statuses

\* The table of update_return_status, likewise; its target "cancelled" is a
\* status of other documents only.
LEMMA ReturnTable ==
    ASSUME NEW V, NEW s \in V, s \in DOMAIN return_transitions,
           NEW t \in return_transitions[s],
           \A v \in V : StageAllowed("return", V, v)
    PROVE  /\ StageAllowed("return", V, t)
           /\ t \in AllStatuses
           /\ s \notin Final["return"]
  <1>1. t \in DOMAIN return_transitions \union {"cancelled"}
    BY DEF return_transitions
  <1>2. "returned_to_warehouse" \in V => "in_transit_return" \in V
    BY DEF StageAllowed, Before
  <1>3. StageAllowed("return", V, t)
    BY <1>2 DEF StageAllowed, return_transitions, Before
  <1>4. s \notin Final["return"]
    BY DEF return_transitions, Final
  <1>5. "cancelled" \in AllStatuses
    BY DEF AllStatuses, Kinds, Statuses, transport_status_transitions
  <1> QED  BY <1>1, <1>3, <1>4, <1>5 DEF AllStatuses, Kinds, Statuses

\* The check of update_stock_in, likewise; it also admits the status it read.
LEMMA StockInTable ==
    ASSUME NEW V, NEW s \in V, s \in DOMAIN stock_in_transitions,
           NEW t \in stock_in_transitions[s] \union {s},
           \A v \in V : StageAllowed("stock_in", V, v)
    PROVE  /\ StageAllowed("stock_in", V, t)
           /\ t \in AllStatuses
           /\ s \in Final["stock_in"] => t = s
  <1>1. t \in DOMAIN stock_in_transitions
    BY DEF stock_in_transitions
  <1>2. StageAllowed("stock_in", V, t) /\ (s \in Final["stock_in"] => t = s)
    BY DEF StageAllowed, Before, Final, stock_in_transitions
  <1> QED  BY <1>1, <1>2 DEF AllStatuses, Kinds, Statuses

\* The check of update_stock_out, likewise.
LEMMA StockOutTable ==
    ASSUME NEW V, NEW s \in V, s \in DOMAIN stock_out_transitions,
           NEW t \in stock_out_transitions[s] \union {s},
           \A v \in V : StageAllowed("stock_out", V, v)
    PROVE  /\ StageAllowed("stock_out", V, t)
           /\ t \in AllStatuses
           /\ s \in Final["stock_out"] => t = s
  <1>1. t \in DOMAIN stock_out_transitions
    BY DEF stock_out_transitions
  <1>2. StageAllowed("stock_out", V, t) /\ (s \in Final["stock_out"] => t = s)
    BY DEF StageAllowed, Before, Final, stock_out_transitions
  <1> QED  BY <1>1, <1>2 DEF AllStatuses, Kinds, Statuses

-----------------------------------------------------------------------------
\* Every request of the services loads a row and takes a justified decision.
LEMMA RequestJustified ==
    ASSUME Inv, NEW p \in Sessions, Request(p)
    PROVE  \E t, S : /\ Load(p, kind, t, S)
                     /\ Justified(kind, visited, marks, status, t, S)
  <1>1. CASE \E t \in AllStatuses : change_transport_status(p, t)
    <2>1. PICK t \in AllStatuses : change_transport_status(p, t)  BY <1>1
    <2>2. Load(p, kind, t, TransportTimes(t)) /\ kind = "transport" /\ status # Absent
      BY <2>1 DEF change_transport_status, Load
    <2>3. status \in visited /\ \A v \in visited : StageAllowed("transport", visited, v)
      BY <2>2 DEF Inv, HistoryOK, PastOK
    <2>4. StageAllowed("transport", visited, t) /\ (status \in Final["transport"] => t = status)
      BY <2>1, <2>3, TransportTable DEF change_transport_status
    <2>5. /\ TransportTimes(t) \in SUBSET Marks
          /\ Dated("transport", visited, marks \union TransportTimes(t), t)
          /\ Marked("transport", visited, marks \union TransportTimes(t))
      BY <2>2 DEF Inv, PastOK, TypeOK, Dated, Marked, Marks, TransportTimes
    <2> QED  BY <2>2, <2>3, <2>4, <2>5 DEF Justified
  <1>2. CASE \E t \in AllStatuses : update_segment_status(p, t)
    <2>1. PICK t \in AllStatuses : update_segment_status(p, t)  BY <1>2
    <2>2. Load(p, kind, t, SegmentTimes(t)) /\ kind = "segment" /\ status # Absent
      BY <2>1 DEF update_segment_status, Load
    <2>3. status \in visited /\ \A v \in visited : StageAllowed("segment", visited, v)
      BY <2>2 DEF Inv, HistoryOK, PastOK
    <2>4. StageAllowed("segment", visited, t) /\ (status \in Final["segment"] => t = status)
      BY <2>1, <2>3, SegmentTable DEF update_segment_status
    <2>5. /\ SegmentTimes(t) \in SUBSET Marks
          /\ Dated("segment", visited, marks \union SegmentTimes(t), t)
          /\ Marked("segment", visited, marks \union SegmentTimes(t))
      BY <2>2 DEF Inv, PastOK, TypeOK, Dated, Marked, Marks, SegmentTimes
    <2> QED  BY <2>2, <2>3, <2>4, <2>5 DEF Justified
  <1>3. CASE \E t \in AllStatuses : update_return_status(p, t)
    <2>1. PICK t \in AllStatuses : update_return_status(p, t)  BY <1>3
    <2>2. Load(p, kind, t, {}) /\ kind = "return" /\ status # Absent
      BY <2>1 DEF update_return_status, Load
    <2>3. status \in visited /\ \A v \in visited : StageAllowed("return", visited, v)
      BY <2>2 DEF Inv, HistoryOK, PastOK
    <2>4. StageAllowed("return", visited, t) /\ (status \in Final["return"] => t = status)
      BY <2>1, <2>3, ReturnTable DEF update_return_status
    <2>5. /\ {} \in SUBSET Marks
          /\ Dated("return", visited, marks \union {}, t)
          /\ Marked("return", visited, marks \union {})
      BY <2>2 DEF Inv, PastOK, TypeOK, Dated, Marked, Marks
    <2> QED  BY <2>2, <2>3, <2>4, <2>5 DEF Justified
  <1>4. CASE \E t \in AllStatuses : update_stock_in(p, t)
    <2>1. PICK t \in AllStatuses : update_stock_in(p, t)  BY <1>4
    <2>2. Load(p, kind, t, {}) /\ kind = "stock_in" /\ status # Absent
      BY <2>1 DEF update_stock_in, Load
    <2>3. status \in visited /\ \A v \in visited : StageAllowed("stock_in", visited, v)
      BY <2>2 DEF Inv, HistoryOK, PastOK
    <2>4. StageAllowed("stock_in", visited, t) /\ (status \in Final["stock_in"] => t = status)
      BY <2>1, <2>3, StockInTable DEF update_stock_in
    <2>5. /\ {} \in SUBSET Marks
          /\ Dated("stock_in", visited, marks \union {}, t)
          /\ Marked("stock_in", visited, marks \union {})
      BY <2>2 DEF Inv, PastOK, TypeOK, Dated, Marked, Marks
    <2> QED  BY <2>2, <2>3, <2>4, <2>5 DEF Justified
  <1>5. CASE \E t \in AllStatuses : update_stock_out(p, t)
    <2>1. PICK t \in AllStatuses : update_stock_out(p, t)  BY <1>5
    <2>2. Load(p, kind, t, {}) /\ kind = "stock_out" /\ status # Absent
      BY <2>1 DEF update_stock_out, Load
    <2>3. status \in visited /\ \A v \in visited : StageAllowed("stock_out", visited, v)
      BY <2>2 DEF Inv, HistoryOK, PastOK
    <2>4. StageAllowed("stock_out", visited, t) /\ (status \in Final["stock_out"] => t = status)
      BY <2>1, <2>3, StockOutTable DEF update_stock_out
    <2>5. /\ {} \in SUBSET Marks
          /\ Dated("stock_out", visited, marks \union {}, t)
          /\ Marked("stock_out", visited, marks \union {})
      BY <2>2 DEF Inv, PastOK, TypeOK, Dated, Marked, Marks
    <2> QED  BY <2>2, <2>3, <2>4, <2>5 DEF Justified
  <1>6. CASE create_tracking_event(p)
    <2>1. Load(p, kind, "none", {"delivered_event"} \union ({"delivery_time"} \ marks)) /\ kind = "transport" /\ status # Absent
      BY <1>6 DEF create_tracking_event, Load
    <2>2. status \in visited /\ \A v \in visited : StageAllowed("transport", visited, v)
      BY <2>1 DEF Inv, HistoryOK, PastOK
    <2>3. Justified("transport", visited, marks, status, "none", {"delivered_event"} \union ({"delivery_time"} \ marks))
      BY <1>6, <2>1, <2>2, NoneNeedsNothing
      DEF create_tracking_event, Justified, Inv, PastOK, TypeOK, StageAllowed, Dated, Marked, Marks,
          Before, Final, AllStatuses, Kinds, Statuses
    <2> QED  BY <2>1, <2>3
  <1>7. CASE \E accepted \in BOOLEAN : mark_return_inspected(p, accepted)
    <2>1. PICK t \in {"refunded", "closed"} : Load(p, "return", t, {})
      BY <1>7 DEF mark_return_inspected
    <2>2. kind = "return" /\ status \in {"returned_to_warehouse", "in_transit_return"}
      BY <1>7 DEF mark_return_inspected, Load
    <2>3. status \in visited /\ \A v \in visited : StageAllowed("return", visited, v)
      BY <2>2 DEF Inv, HistoryOK, PastOK, Absent
    <2>4. "in_transit_return" \in visited
      BY <2>2, <2>3 DEF StageAllowed, Before
    <2>5. StageAllowed("return", visited, t) /\ status \notin Final["return"]
      BY <2>2, <2>4 DEF StageAllowed, Before, Final
    <2>6. t \in AllStatuses
      BY DEF AllStatuses, Kinds, Statuses, return_transitions
    <2>7. Justified("return", visited, marks, status, t, {})
      BY <2>2, <2>3, <2>5, <2>6 DEF Justified, Inv, PastOK, Dated, Marked
    <2> QED  BY <2>1, <2>2, <2>7
  <1>8. CASE cancel_return_order(p)
    <2>1. Load(p, kind, "closed", {}) /\ kind = "return" /\ status # Absent
      BY <1>8 DEF cancel_return_order, Load
    <2>2. status \in visited /\ \A v \in visited : StageAllowed("return", visited, v)
      BY <2>1 DEF Inv, HistoryOK, PastOK
    <2>3. Justified("return", visited, marks, status, "closed", {})
      BY <1>8, <2>1, <2>2, NoneNeedsNothing
      DEF cancel_return_order, Justified, Inv, PastOK, TypeOK, StageAllowed, Dated, Marked, Marks,
          Before, Final, AllStatuses, Kinds, Statuses, return_transitions
    <2> QED  BY <2>1, <2>3
  <1>9. CASE start_picking(p)
    <2>1. Load(p, kind, "in_progress", {}) /\ kind = "wave" /\ status # Absent
      BY <1>9 DEF start_picking, Load
    <2>2. status \in visited /\ \A v \in visited : StageAllowed("wave", visited, v)
      BY <2>1 DEF Inv, HistoryOK, PastOK
    <2>3. Justified("wave", visited, marks, status, "in_progress", {})
      BY <1>9, <2>1, <2>2, NoneNeedsNothing
      DEF start_picking, Justified, Inv, PastOK, TypeOK, StageAllowed, Dated, Marked, Marks,
          Before, Final, AllStatuses, Kinds, Statuses
    <2> QED  BY <2>1, <2>3
  <1>10. CASE complete_picking(p)
    <2>1. Load(p, kind, "completed", {}) /\ kind = "wave" /\ status # Absent
      BY <1>10 DEF complete_picking, Load
    <2>2. status \in visited /\ \A v \in visited : StageAllowed("wave", visited, v)
      BY <2>1 DEF Inv, HistoryOK, PastOK
    <2>3. Justified("wave", visited, marks, status, "completed", {})
      BY <1>10, <2>1, <2>2, NoneNeedsNothing
      DEF complete_picking, Justified, Inv, PastOK, TypeOK, StageAllowed, Dated, Marked, Marks,
          Before, Final, AllStatuses, Kinds, Statuses
    <2> QED  BY <2>1, <2>3
  <1>11. CASE complete_pick(p)
    <2>1. PICK t \in {"none", "completed"} : Load(p, "wave", t, {})
      BY <1>11 DEF complete_pick
    <2>2. kind = "wave" /\ status \in visited /\ status # Absent
      BY <2>1 DEF Load, Inv, HistoryOK
    <2>3. Justified("wave", visited, marks, status, t, {})
      BY <2>2 DEF Justified, Inv, PastOK, StageAllowed, Dated, Marked, Marks,
                  Before, Final, AllStatuses, Kinds, Statuses
    <2> QED  BY <2>1, <2>2, <2>3
  <1>12. CASE create_packing(p)
    <2>1. Load(p, kind, "none", {"packed"}) /\ kind = "wave" /\ status # Absent
      BY <1>12 DEF create_packing, Load
    <2>2. status \in visited /\ \A v \in visited : StageAllowed("wave", visited, v)
      BY <2>1 DEF Inv, HistoryOK, PastOK
    <2>3. Justified("wave", visited, marks, status, "none", {"packed"})
      BY <1>12, <2>1, <2>2, NoneNeedsNothing
      DEF create_packing, Justified, Inv, PastOK, TypeOK, StageAllowed, Dated, Marked, Marks,
          Before, Final, AllStatuses, Kinds, Statuses
    <2> QED  BY <2>1, <2>3
  <1>13. CASE approve_purchase_order(p)
    <2>1. Load(p, kind, "approved", {}) /\ kind = "purchase" /\ status # Absent
      BY <1>13 DEF approve_purchase_order, Load
    <2>2. status \in visited /\ \A v \in visited : StageAllowed("purchase", visited, v)
      BY <2>1 DEF Inv, HistoryOK, PastOK
    <2>3. Justified("purchase", visited, marks, status, "approved", {})
      BY <1>13, <2>1, <2>2, NoneNeedsNothing
      DEF approve_purchase_order, Justified, Inv, PastOK, TypeOK, StageAllowed, Dated, Marked, Marks,
          Before, Final, AllStatuses, Kinds, Statuses
    <2> QED  BY <2>1, <2>3
  <1>14. CASE receive_goods(p)
    <2>1. Load(p, kind, "received", {}) /\ kind = "purchase" /\ status # Absent
      BY <1>14 DEF receive_goods, Load
    <2>2. status \in visited /\ \A v \in visited : StageAllowed("purchase", visited, v)
      BY <2>1 DEF Inv, HistoryOK, PastOK
    <2>3. Justified("purchase", visited, marks, status, "received", {})
      BY <1>14, <2>1, <2>2, NoneNeedsNothing
      DEF receive_goods, Justified, Inv, PastOK, TypeOK, StageAllowed, Dated, Marked, Marks,
          Before, Final, AllStatuses, Kinds, Statuses
    <2> QED  BY <2>1, <2>3
  <1>15. CASE mark_shipped(p)
    <2>1. PICK t \in {"none", "shipped"} : Load(p, "shipment", t, {"shipped_at"})
      BY <1>15 DEF mark_shipped
    <2>2. kind = "shipment" /\ status \in visited /\ status # Absent
      BY <2>1 DEF Load, Inv, HistoryOK
    <2>3. Justified("shipment", visited, marks, status, t, {"shipped_at"})
      BY <2>2 DEF Justified, Inv, PastOK, StageAllowed, Dated, Marked, Marks,
                  Before, Final, AllStatuses, Kinds, Statuses
    <2> QED  BY <2>1, <2>2, <2>3
  <1> QED
    BY <1>1, <1>2, <1>3, <1>4, <1>5, <1>6, <1>7, <1>8, <1>9, <1>10, <1>11,
       <1>12, <1>13, <1>14, <1>15 DEF Request

-----------------------------------------------------------------------------
\* A session that loads a row with a justified decision keeps the invariant.
LEMMA LoadKeepsInv ==
    ASSUME Inv, NEW p \in Sessions, NEW t, NEW S, Load(p, kind, t, S),
           Justified(kind, visited, marks, status, t, S)
    PROVE  Inv'
  <1> DEFINE r == [pc |-> "loaded", seen |-> status, target |-> t, sets |-> S]
  <1>1. status \in AllStatuses \union {Absent}
    BY DEF Inv, TypeOK, AllStatuses
  <1>2. r \in Txn
    BY <1>1 DEF Justified, Txn
  <1>3. r.pc = "loaded" /\ r.seen = status /\ r.target = t /\ r.sets = S
    OBVIOUS
  <1>4. txn' = [txn EXCEPT ![p] = r] /\ UNCHANGED <<kind, status, visited, marks>>
    BY DEF Load
  <1> HIDE DEF r
  <1>5. TypeOK'
    BY <1>2, <1>4 DEF Inv, TypeOK
  <1>6. HistoryOK'
    BY <1>4 DEF Inv, HistoryOK, Load
  <1>7. PastOK'
    BY <1>4 DEF Inv, PastOK
  <1>8. JustifiedSessions'
    <2> SUFFICES ASSUME NEW q \in Sessions, txn'[q].pc = "loaded"
                 PROVE  Justified(kind, visited, marks, txn'[q].seen,
                                  txn'[q].target, txn'[q].sets)
      BY <1>4 DEF JustifiedSessions
    <2>1. CASE q = p
      BY <2>1, <1>3, <1>4 DEF Inv, TypeOK
    <2>2. CASE q # p
      BY <2>2, <1>4 DEF Inv, TypeOK, JustifiedSessions
    <2> QED  BY <2>1, <2>2
  <1> QED  BY <1>5, <1>6, <1>7, <1>8 DEF Inv

\* A session that ends is idle; the others keep what they hold.
LEMMA EndedSession ==
    ASSUME Inv, NEW p \in Sessions, txn' = [txn EXCEPT ![p] = Idle]
    PROVE  /\ txn' \in [Sessions -> Txn]
           /\ \A q \in Sessions :
                 \/ txn'[q].pc = "idle"
                 \/ txn'[q] = txn[q]
  <1>1. Idle \in Txn /\ Idle.pc = "idle"
    BY DEF Idle, Txn
  <1> QED  BY <1>1 DEF Inv, TypeOK

\* The commit of a justified decision keeps the invariant.
LEMMA CommitKeepsInv ==
    ASSUME Inv, NEW p \in Sessions, Commit(p)
    PROVE  Inv'
  <1> DEFINE t == txn[p].target
             S == txn[p].sets
  <1>1. /\ Justified(kind, visited, marks, txn[p].seen, t, S)
        /\ t \in Statuses[kind] \union {"none"}
        /\ status' = IF t = "none" THEN status ELSE t
        /\ visited' = visited \union {status'}
        /\ marks' = marks \union S
        /\ kind' = kind
        /\ txn' = [txn EXCEPT ![p] = Idle]
    BY DEF Commit, Inv, JustifiedSessions
  <1> HIDE DEF t, S
  <1>2. status # Absent /\ status \in visited
    <2>1. txn[p].pc # "idle"
      BY DEF Commit
    <2> QED  BY <2>1 DEF Inv, HistoryOK
  <1>3. \A k \in Kinds : "none" \notin Statuses[k] /\ Absent \notin Statuses[k]
    BY DEF Kinds, Statuses, Absent, transport_status_transitions, segment_transitions,
           return_transitions, stock_in_transitions, stock_out_transitions
  <1>4. visited' = visited \union (IF t = "none" THEN {} ELSE {t}) /\ status' # Absent
    BY <1>1, <1>2, <1>3 DEF Inv, TypeOK
  <1>5. TypeOK'
    <2>1. txn' \in [Sessions -> Txn]
      BY <1>1, EndedSession
    <2>2. status' \in Statuses[kind] /\ visited' \subseteq Statuses[kind]
      BY <1>1, <1>2 DEF Inv, TypeOK
    <2>3. marks' \subseteq Marks
      BY <1>1 DEF Inv, TypeOK, Justified
    <2> QED  BY <1>1, <2>1, <2>2, <2>3 DEF TypeOK, Inv
  <1>6. HistoryOK'
    BY <1>1, <1>4 DEF HistoryOK
  <1>7. PastOK'
    <2>1. \A v \in visited' : StageAllowed(kind, visited', v)
      BY <1>1, <1>4 DEF Inv, PastOK, Justified, StageAllowed
    <2>2. \A v \in visited' : Dated(kind, visited', marks', v)
      BY <1>1, <1>4 DEF Inv, PastOK, Justified, Dated
    <2>3. Marked(kind, visited', marks')
      BY <1>1, <1>4 DEF Inv, PastOK, Justified, Marked
    <2> QED  BY <1>1, <2>1, <2>2, <2>3 DEF PastOK
  <1>8. JustifiedSessions'
    <2> SUFFICES ASSUME NEW q \in Sessions, txn'[q].pc = "loaded"
                 PROVE  Justified(kind, visited', marks', txn'[q].seen,
                                  txn'[q].target, txn'[q].sets)
      BY <1>1 DEF JustifiedSessions
    <2>1. txn'[q] = txn[q]
      BY <1>1, EndedSession
    <2>2. Justified(kind, visited, marks, txn[q].seen, txn[q].target, txn[q].sets)
      BY <2>1 DEF Inv, JustifiedSessions
    <2>3. visited \subseteq visited' /\ marks \subseteq marks'
          /\ Marked(kind, visited', marks')
      BY <1>1, <1>7 DEF PastOK
    <2> QED  BY <2>1, <2>2, <2>3, JustifiedGrows
  <1> QED  BY <1>5, <1>6, <1>7, <1>8 DEF Inv

\* A rollback keeps the invariant.
LEMMA RollbackKeepsInv ==
    ASSUME Inv, NEW p \in Sessions, Rollback(p)
    PROVE  Inv'
  <1>1. txn' = [txn EXCEPT ![p] = Idle] /\ UNCHANGED <<kind, status, visited, marks>>
    BY DEF Rollback
  <1>2. TypeOK'
    BY <1>1, EndedSession DEF Inv, TypeOK
  <1>3. HistoryOK'
    BY <1>1, EndedSession DEF Inv, HistoryOK
  <1>4. PastOK'
    BY <1>1 DEF Inv, PastOK
  <1>5. JustifiedSessions'
    BY <1>1, EndedSession DEF Inv, JustifiedSessions
  <1> QED  BY <1>2, <1>3, <1>4, <1>5 DEF Inv

\* A new document has no past that its first status could contradict.
LEMMA CreateKeepsInv ==
    ASSUME Inv, CreateDocument
    PROVE  Inv'
  <1>1. PICK s : /\ Create(kind, s)
                 /\ s \in Statuses[kind]
                 /\ StageAllowed(kind, {s}, s)
                 /\ Dated(kind, {s}, {}, s)
    BY DEF CreateDocument, create_transport_order, create_segment, create_return_order,
           create_picking_wave, assign_pick_task, create_purchase_order, create_shipment,
           create_stock_in, create_stock_out, Create, StageAllowed, Dated, Before,
           Statuses, transport_status_transitions, segment_transitions,
           return_transitions, stock_in_transitions, stock_out_transitions
  <1>2. /\ status = Absent /\ status' = s /\ visited' = {s} /\ marks = {}
        /\ UNCHANGED <<kind, marks, txn>>
        /\ \A p \in Sessions : txn[p].pc = "idle"
    BY <1>1 DEF Create, Inv, HistoryOK
  <1>3. s # Absent
    BY <1>1 DEF Inv, TypeOK, Kinds, Statuses, Absent, transport_status_transitions,
           segment_transitions, return_transitions, stock_in_transitions,
           stock_out_transitions
  <1>4. TypeOK' /\ HistoryOK'
    BY <1>1, <1>2, <1>3 DEF Inv, TypeOK, HistoryOK
  <1>5. PastOK'
    BY <1>1, <1>2 DEF PastOK, Marked
  <1>6. JustifiedSessions'
    BY <1>2 DEF JustifiedSessions
  <1> QED  BY <1>4, <1>5, <1>6 DEF Inv

\* The inductive invariant holds in every state.
LEMMA InvHolds == Spec => []Inv
  <1>1. Init => Inv
    <2> SUFFICES ASSUME Init PROVE Inv
      OBVIOUS
    <2>1. Idle \in Txn /\ Idle.pc = "idle"
      BY DEF Idle, Txn
    <2> QED  BY <2>1 DEF Init, Inv, TypeOK, HistoryOK, PastOK, Marked, JustifiedSessions
  <1>2. Inv /\ [Next]_vars => Inv'
    <2> SUFFICES ASSUME Inv, [Next]_vars PROVE Inv'
      OBVIOUS
    <2>1. CASE CreateDocument
      BY <2>1, CreateKeepsInv
    <2>2. ASSUME NEW p \in Sessions, Request(p) PROVE Inv'
      BY <2>2, RequestJustified, LoadKeepsInv
    <2>3. ASSUME NEW p \in Sessions, Commit(p) PROVE Inv'
      BY <2>3, CommitKeepsInv
    <2>4. ASSUME NEW p \in Sessions, Rollback(p) PROVE Inv'
      BY <2>4, RollbackKeepsInv
    <2>5. CASE UNCHANGED vars
      BY <2>5 DEF vars, Inv, TypeOK, HistoryOK, PastOK, JustifiedSessions
    <2> QED  BY <2>1, <2>2, <2>3, <2>4, <2>5 DEF Next
  <1> QED  BY <1>1, <1>2, PTL DEF Spec

-----------------------------------------------------------------------------
\* For any number of concurrent requests every variable keeps its type, and the
\* status column never holds the "cancelled" that update_return_status accepts.
THEOREM DocumentTypes == Spec => []TypeOK
  BY InvHolds, PTL DEF Inv

\* For any number of concurrent requests, and however stale their reads, no
\* document skips a stage of its table.
THEOREM DocumentStages == Spec => []NoStageSkipped
  <1>1. Inv => NoStageSkipped
    BY DEF Inv, PastOK, StageAllowed, NoStageSkipped
  <1> QED  BY <1>1, InvHolds, PTL

\* For any number of concurrent requests every dated stage has its time, and
\* only completed waves are packed.
THEOREM DocumentDates == Spec => []StagesAreDated
  <1>1. Inv => StagesAreDated
    BY DEF Inv, PastOK, Dated, Marked, StagesAreDated
  <1> QED  BY <1>1, InvHolds, PTL

\* For any number of concurrent requests a finished document is reopened only
\* by the commit of a session that read it before it was finished.
THEOREM DocumentsStayFinal == Spec => ReopenedByStaleReadOnly
  <1> DEFINE Stale(p) == /\ txn[p].pc = "loaded"
                         /\ txn'[p].pc = "idle"
                         /\ txn[p].seen # status
             Reopens == status \in Final[kind] /\ status' # status
  <1>1. Inv /\ [Next]_vars => [Reopens => \E p \in Sessions : Stale(p)]_vars
    <2> SUFFICES ASSUME Inv, Next, Reopens PROVE \E p \in Sessions : Stale(p)
      BY DEF vars
    <2>1. status # Absent
      BY DEF Inv, TypeOK, Final, Kinds, Statuses, Absent
    <2>2. PICK p \in Sessions : Commit(p)
      <3>1. ~ CreateDocument
        BY <2>1 DEF CreateDocument, create_transport_order, create_segment,
               create_return_order, create_picking_wave, assign_pick_task,
               create_purchase_order,
               create_shipment, create_stock_in, create_stock_out, Create
      <3>2. \A p \in Sessions : ~ Request(p)
        BY RequestJustified DEF Load
      <3>3. \A p \in Sessions : ~ Rollback(p)
        BY DEF Rollback
      <3> QED  BY <3>1, <3>2, <3>3 DEF Next
    <2>3. txn[p].pc = "loaded" /\ txn'[p].pc = "idle"
      BY <2>2 DEF Commit, Idle, Inv, TypeOK
    <2>4. txn[p].target \notin {"none", status}
      BY <2>2 DEF Commit
    <2>5. txn[p].seen # status
      BY <2>3, <2>4 DEF Inv, JustifiedSessions, Justified
    <2> QED  BY <2>3, <2>5
  <1> QED  BY <1>1, InvHolds, PTL DEF Spec, ReopenedByStaleReadOnly

-----------------------------------------------------------------------------
(* The rows of the master data                                             *)


\* The tables that rows refer to.
Parents == {"warehouses", "locations", "users", "roles", "permissions", "vendors",
            "invoices", "terminal_devices", "transport_orders", "webhook_targets"}

\* A row of the area, and what it refers to.
GoodRow(row) ==
    /\ row.tab \in Areas[area]
    /\ row.tab # "none" /\ row.tab # "carrier_configs"
    /\ \A r \in row.refs : r[1] \in Parents

\* The numbers of returns: none is above n.
Returns == RowsOf("return_orders")
Numbered(row, n) ==
    row.tab = "return_orders" => \A k \in row.keys : k[2] \in Nat /\ k[2] <= n

\* The rows, and the primary keys that are not used again.
RowsInv ==
    /\ area \in DOMAIN Areas
    /\ \A i \in Ids : db[i] = NoRow \/ GoodRow(db[i])
    /\ \A i \in dead : i \in Ids /\ db[i] = NoRow
    /\ ValidIn(FreshSchema, db)
    /\ \A i \in Ids : Numbered(db[i], Cardinality(Returns))

\* What a session has queued: rows under new primary keys, and changes to rows
\* that exist or have been deleted since.
PutFits(w) ==
    /\ w[1] \in Ids /\ db[w[1]] = NoRow /\ w[1] \notin dead
    /\ GoodRow(w[2])
    /\ Numbered(w[2], Cardinality(Returns) + 1)
Exists(i) == i \in Ids /\ (db[i] # NoRow \/ i \in dead) /\ db[i].tab # "return_orders"

QueueInv ==
    /\ req = [p \in Requests |-> req[p]]
    /\ \A p \in Requests : ~req[p].open => req[p] = Quiet
    /\ \A p \in Requests : \A w \in req[p].put : PutFits(w)
    /\ \A p \in Requests : \A u \in req[p].upd : Exists(u[1])
    /\ \A p \in Requests : \A i \in req[p].del : Exists(i)
    /\ \A p, q \in Requests : \A w \in req[p].put, v \in req[q].put : p # q => w[1] # v[1]

\* A careful session that nobody has raced would be accepted now.
CarefulInv ==
    \A p \in Requests : req[p].open /\ req[p].careful /\ p \notin raced => Accepted(req[p])

\* The inductive invariant.
CatInv == RowsInv /\ QueueInv /\ CarefulInv

-----------------------------------------------------------------------------
(* Rows and what is done to them                                           *)

\* The fields of a row.
LEMMA RowIs ==
    /\ \A t, k, r, s : /\ Row(t, k, r, s).tab = t /\ Row(t, k, r, s).keys = k
                       /\ Row(t, k, r, s).refs = r
    /\ NoRow.tab = "none" /\ NoRow.keys = {} /\ NoRow.refs = {}
BY DEF Row, NoRow

\* A fresh primary key is one that is not used; there is one when any is left.
LEMMA FreshIs ==
    /\ \A n : Fresh(n) \subseteq Unused
    /\ \A i \in Unused : /\ i \in Ids /\ db[i] = NoRow /\ i \notin dead
                         /\ \A p \in Requests : \A w \in req[p].put : w[1] # i
    /\ Unused # {} => \E i : i \in Fresh(1)
<1>1. \A i \in Unused : /\ i \in Ids /\ db[i] = NoRow /\ i \notin dead
                        /\ \A p \in Requests : \A w \in req[p].put : w[1] # i
  BY DEF Unused, Reserved
<1>2. ASSUME Unused # {} PROVE \E i : i \in Fresh(1)
  <2>1. Unused \in SUBSET Nat
    BY CatalogAssumption DEF Unused, Ids
  <2>2. PICK i \in Unused : \A j \in Unused : i <= j
    BY <1>2, <2>1, LeastNat
  <2>3. {j \in Unused : j <= i} = {i}
    <3>1. i \in Nat /\ \A j \in Unused : j \in Nat /\ i <= j
      BY <2>1, <2>2
    <3>2. \A j \in Unused : j <= i <=> j = i
      BY <3>1
    <3> QED BY <2>2, <3>2
  <2>4. Cardinality({i}) = 1
    BY FS_Singleton
  <2>5. i \in Fresh(1)
    BY <2>2, <2>3, <2>4 DEF Fresh
  <2> QED BY <2>5
<1> QED BY <1>1, <1>2 DEF Fresh

\* The number of returns, and that it only grows with the set.
LEMMA ReturnsSize ==
    ASSUME NEW A \in SUBSET Ids, NEW B \in SUBSET Ids, A \subseteq B
    PROVE  /\ Cardinality(A) \in Nat /\ Cardinality(B) \in Nat
           /\ Cardinality(A) <= Cardinality(B)
           /\ A # B => Cardinality(A) + 1 <= Cardinality(B)
<1>1. IsFiniteSet(Ids)
  BY CatalogAssumption, FS_Interval DEF Ids
<1>2. IsFiniteSet(A) /\ IsFiniteSet(B)
  BY <1>1, FS_Subset
<1>3. /\ Cardinality(A) \in Nat /\ Cardinality(B) \in Nat
      /\ Cardinality(A) <= Cardinality(B)
      /\ Cardinality(A) = Cardinality(B) => A = B
  BY <1>2, FS_CardinalityType, FS_Subset
<1> QED BY <1>3

\* The rows that the writes q remove, insert and change.
Gone(q) == q.del \union {i \in Ids : /\ db[i].tab \in Cascading
                                     /\ \E r \in db[i].refs : r[2] \in q.del}
Put(q, i) == \E w \in q.put : w[1] = i
Upd(q, i) == \E u \in q.upd : u[1] = i

\* What becomes of a row when the writes q are executed.
LEMMA AfterIs ==
    ASSUME NEW q, NEW i \in Ids
    PROVE  /\ i \in Gone(q) => After(q)[i] = NoRow
           /\ i \notin Gone(q) /\ Put(q, i) => \E w \in q.put : w[1] = i /\ After(q)[i] = w[2]
           /\ i \notin Gone(q) /\ ~Put(q, i) /\ Upd(q, i) =>
                 /\ After(q)[i].tab = db[i].tab /\ After(q)[i].refs = db[i].refs
                 /\ (\A u \in q.upd : u[2] = "state") => After(q)[i].keys = db[i].keys
           /\ i \notin Gone(q) /\ ~Put(q, i) /\ ~Upd(q, i) =>
                 /\ After(q)[i].tab = db[i].tab /\ After(q)[i].keys = db[i].keys
                 /\ After(q)[i].refs \subseteq db[i].refs
                 /\ q.cut = {} => After(q)[i].refs = db[i].refs
                 /\ db[i] = NoRow => After(q)[i] = NoRow
<1> DEFINE put  == (CHOOSE w \in q.put : w[1] = i)[2]
           u    == CHOOSE u \in q.upd : u[1] = i
           rest == {r \in db[i].refs : ~\E c \in q.cut : c[1] = i /\ c[2] = r[2]}
           old  == Row(db[i].tab, db[i].keys, rest, db[i].state)
<1>1. After(q)[i] = IF i \in Gone(q) THEN NoRow
                    ELSE IF Put(q, i) THEN put
                    ELSE IF Upd(q, i) THEN SetColumn(db[i], u[2], u[3])
                    ELSE old
  BY DEF After, Gone, Put, Upd
<1>2. Put(q, i) => \E w \in q.put : w[1] = i /\ put = w[2]
  BY DEF Put
<1>3. Upd(q, i) => u \in q.upd
  BY DEF Upd
<1>4. \A c, v : /\ SetColumn(db[i], c, v).tab = db[i].tab
                /\ SetColumn(db[i], c, v).refs = db[i].refs
                /\ c = "state" => SetColumn(db[i], c, v).keys = db[i].keys
  BY RowIs DEF SetColumn
<1>5. /\ old.tab = db[i].tab /\ old.keys = db[i].keys /\ old.refs = rest
      /\ rest \subseteq db[i].refs /\ (q.cut = {} => rest = db[i].refs)
  BY RowIs
<1>6. db[i] = NoRow => old = NoRow
  <2> SUFFICES ASSUME db[i] = NoRow PROVE old = NoRow
    OBVIOUS
  <2>1. rest = {}
    BY RowIs
  <2>2. NoRow.state = Usual
    BY DEF NoRow, Row
  <2>3. old = Row("none", {}, {}, Usual)
    BY <2>1, <2>2, RowIs
  <2> QED BY <2>3 DEF NoRow
<1> HIDE DEF put, u, rest, old
<1> QED BY <1>1, <1>2, <1>3, <1>4, <1>5, <1>6

-----------------------------------------------------------------------------
(* A session of a careful handler, when it has just looked, is accepted    *)

\* No key it inserts is taken, what it refers to exists, it changes statuses,
\* and it deletes nothing that others refer to.
Clear(q) ==
    /\ \A w \in q.put : ~Taken(w[2].tab, w[2].keys)
    /\ \A v, w \in q.put : v # w => v[1] # w[1] /\ (v[2].tab # w[2].tab \/ v[2].keys = {})
    /\ \A w \in q.put : \A r \in w[2].refs : r[2] \in Ids /\ db[r[2]].tab = r[1]
    /\ \A u \in q.upd : u[1] \in Ids /\ db[u[1]] # NoRow /\ u[2] = "state"
    /\ q.del \subseteq RowsOf("notification_preferences")
    /\ q.cut = {}

\* The constraints admit such writes on the rows as they are.
LEMMA ClearIsAccepted ==
    ASSUME RowsInv, NEW q, Clear(q), \A w \in q.put : PutFits(w)
    PROVE  Accepted(q)
<1> DEFINE A(i) == After(q)[i]
           Same(i) == A(i).tab = db[i].tab /\ A(i).keys = db[i].keys /\ A(i).refs = db[i].refs
           New(i, w) == w \in q.put /\ w[1] = i /\ A(i) = w[2]
<1>1. Matches(q)
  BY DEF Matches, Clear
<1>2. \A i \in Ids : \/ A(i) = NoRow
                     \/ \E w : New(i, w)
                     \/ i \notin Gone(q) /\ Same(i)
  <2> SUFFICES ASSUME NEW i \in Ids PROVE A(i) = NoRow \/ (\E w : New(i, w)) \/ (i \notin Gone(q) /\ Same(i))
    OBVIOUS
  <2> QED BY AfterIs DEF Clear
<1>3. \A i \in Ids : i \in Gone(q) => db[i].tab \notin Parents
  BY DEF Gone, Clear, RowsOf, Cascading, Parents
<1>4. \A i \in Ids : db[i].tab \in Parents => A(i).tab = db[i].tab
  <2> SUFFICES ASSUME NEW i \in Ids, db[i].tab \in Parents PROVE A(i).tab = db[i].tab
    OBVIOUS
  <2>1. i \notin Gone(q) /\ db[i] # NoRow
    BY <1>3, RowIs DEF Parents
  <2>2. ~Put(q, i)
    BY <2>1 DEF Put, PutFits
  <2> QED BY <2>1, <2>2, AfterIs
<1>5. ASSUME NEW i \in Ids, NEW j \in Ids, i # j PROVE UniqueIn(FreshSchema, After(q), i, j)
  <2> SUFFICES ASSUME NEW k \in A(i).keys, Uq(A(i).tab, k[1]) \in FreshSchema, A(i).tab = A(j).tab
               PROVE  k \notin A(j).keys
    BY DEF UniqueIn
  <2>1. A(i) # NoRow
    BY RowIs
  <2>2. CASE A(j) = NoRow
    BY <2>2, RowIs
  <2>3. ASSUME NEW w, New(i, w), NEW v, New(j, v) PROVE k \notin A(j).keys
    <3>1. v # w /\ v[2].tab = w[2].tab
      BY <1>5, <2>3
    <3> QED BY <2>3, <3>1 DEF Clear
  <2>4. ASSUME NEW w, New(i, w), Same(j) PROVE k \notin A(j).keys
    <3>1. j \in RowsOf(w[2].tab) /\ ~Taken(w[2].tab, w[2].keys)
      BY <2>4 DEF RowsOf, Clear
    <3> QED BY <2>4, <3>1 DEF Taken
  <2>5. ASSUME Same(i), NEW v, New(j, v) PROVE k \notin A(j).keys
    <3>1. i \in RowsOf(v[2].tab) /\ ~Taken(v[2].tab, v[2].keys)
      BY <2>5 DEF RowsOf, Clear
    <3> QED BY <2>5, <3>1 DEF Taken
  <2>6. ASSUME Same(i), Same(j) PROVE k \notin A(j).keys
    <3>1. UniqueIn(FreshSchema, db, i, j)
      BY <1>5 DEF RowsInv, ValidIn
    <3> QED BY <2>6, <3>1 DEF UniqueIn
  <2> QED BY <1>2, <2>1, <2>2, <2>3, <2>4, <2>5, <2>6
<1>6. ASSUME NEW i \in Ids, NEW r \in A(i).refs, Fk(A(i).tab, r[1]) \in FreshSchema
      PROVE  r[2] \in Ids /\ A(r[2]).tab = r[1]
  <2>1. A(i) # NoRow
    BY RowIs
  <2>2. r[2] \in Ids /\ db[r[2]].tab = r[1] /\ r[1] \in Parents
    <3>1. ASSUME NEW w, New(i, w) PROVE r[2] \in Ids /\ db[r[2]].tab = r[1] /\ r[1] \in Parents
      BY <3>1 DEF Clear, PutFits, GoodRow
    <3>2. ASSUME Same(i) PROVE r[2] \in Ids /\ db[r[2]].tab = r[1] /\ r[1] \in Parents
      <4>1. db[i] # NoRow
        BY <3>2, RowIs
      <4>2. r \in db[i].refs /\ Fk(db[i].tab, r[1]) \in FreshSchema
        BY <1>6, <3>2
      <4> QED BY <4>1, <4>2 DEF RowsInv, ValidIn, GoodRow
    <3> QED BY <1>2, <2>1, <3>1, <3>2
  <2> QED BY <1>4, <2>2
<1>7. ValidIn(FreshSchema, After(q))
  BY <1>5, <1>6 DEF ValidIn
<1> QED BY <1>1, <1>7 DEF Accepted

-----------------------------------------------------------------------------
(* Queueing                                                                *)

\* The writes of a session, as Queue records them.
Writes(put, upd, del, cut, careful) ==
    [put |-> put, upd |-> upd, del |-> del, cut |-> cut, open |-> TRUE, careful |-> careful]

\* The fields of the writes.
LEMMA WritesAre ==
    /\ \A put, upd, del, cut, careful :
          /\ Writes(put, upd, del, cut, careful).put = put
          /\ Writes(put, upd, del, cut, careful).upd = upd
          /\ Writes(put, upd, del, cut, careful).del = del
          /\ Writes(put, upd, del, cut, careful).cut = cut
          /\ Writes(put, upd, del, cut, careful).open = TRUE
          /\ Writes(put, upd, del, cut, careful).careful = careful
    /\ Quiet.put = {} /\ Quiet.upd = {} /\ Quiet.del = {} /\ Quiet.open = FALSE
BY DEF Writes, Quiet

\* Rows and queue while no row changes.
LEMMA RowsStay ==
    ASSUME UNCHANGED <<area, db, dead>>
    PROVE  /\ RowsInv <=> RowsInv'
           /\ \A w : PutFits(w) <=> PutFits(w)'
           /\ \A i : Exists(i) <=> Exists(i)'
           /\ \A q : Accepted(q) <=> Accepted(q)'
<1>1. RowsInv <=> RowsInv'
  BY DEF RowsInv, GoodRow, ValidIn, UniqueIn, Numbered, Returns, RowsOf
<1>2. \A w : PutFits(w) <=> PutFits(w)'
  BY DEF PutFits, GoodRow, Numbered, Returns, RowsOf
<1>3. \A i : Exists(i) <=> Exists(i)'
  BY DEF Exists
<1>4. \A q : Accepted(q) <=> Accepted(q)'
  BY DEF Accepted, Matches, After
<1> QED BY <1>1, <1>2, <1>3, <1>4

\* A handler that queues rows under unused primary keys and changes of rows
\* that exist keeps the invariant, if it is either not careful or clear.
LEMMA QueueKeeps ==
    ASSUME CatInv, NEW p \in Requests, NEW put, NEW upd, NEW del, NEW cut, NEW careful,
           Queue(p, put, upd, del, cut, careful),
           \A w \in put : w[1] \in Unused /\ PutFits(w),
           \A u \in upd : Exists(u[1]),
           \A i \in del : Exists(i),
           careful => Clear(Writes(put, upd, del, cut, careful))
    PROVE  CatInv'
<1> DEFINE W == Writes(put, upd, del, cut, careful)
<1>0. RowsInv /\ QueueInv /\ CarefulInv
  BY DEF CatInv
<1>1. /\ req' = [req EXCEPT ![p] = W]
      /\ raced' = raced \ {p}
      /\ UNCHANGED <<area, db, dead>>
  BY DEF Queue, Writes
<1>2. /\ W.put = put /\ W.upd = upd /\ W.del = del /\ W.open = TRUE /\ W.careful = careful
      /\ careful => Accepted(W)
  <2>1. careful => Clear(W)
    OBVIOUS
  <2>2. W.put = put /\ W.upd = upd /\ W.del = del /\ W.open = TRUE /\ W.careful = careful
    BY WritesAre
  <2> HIDE DEF W
  <2> QED BY <1>0, <2>1, <2>2, ClearIsAccepted
<1>3. \A w \in put : \A q \in Requests : \A v \in req[q].put : w[1] # v[1]
  BY FreshIs
<1> HIDE DEF W
<1>4. req'[p] = W /\ \A q \in Requests \ {p} : req'[q] = req[q]
  BY <1>0, <1>1 DEF QueueInv
<1>5. RowsInv'
  BY <1>0, <1>1, RowsStay
<1>6. QueueInv'
  <2>1. req' = [q \in Requests |-> req'[q]]
    BY <1>0, <1>1 DEF QueueInv
  <2>2. \A q \in Requests : ~req'[q].open => req'[q] = Quiet
    BY <1>0, <1>2, <1>4 DEF QueueInv
  <2>3. \A q \in Requests : \A w \in req'[q].put : PutFits(w)'
    BY <1>0, <1>1, <1>2, <1>4, RowsStay DEF QueueInv
  <2>4. \A q \in Requests : \A u \in req'[q].upd : Exists(u[1])'
    BY <1>0, <1>1, <1>2, <1>4, RowsStay DEF QueueInv
  <2>5. \A q \in Requests : \A i \in req'[q].del : Exists(i)'
    BY <1>0, <1>1, <1>2, <1>4, RowsStay DEF QueueInv
  <2>6. \A r, q \in Requests : \A w \in req'[r].put, v \in req'[q].put : r # q => w[1] # v[1]
    BY <1>0, <1>2, <1>3, <1>4 DEF QueueInv
  <2> QED BY <2>1, <2>2, <2>3, <2>4, <2>5, <2>6 DEF QueueInv
<1>7. CarefulInv'
  BY <1>0, <1>1, <1>2, <1>4, RowsStay DEF CarefulInv
<1> QED BY <1>5, <1>6, <1>7 DEF CatInv

\* One new row, with changes of the statuses of others and, for preferences,
\* the deletion of those there are.
LEMMA PutOneKeeps ==
    ASSUME CatInv, NEW p \in Requests, NEW row, NEW upd, NEW del, NEW careful,
           Queue(p, {<<CHOOSE i \in Fresh(1) : TRUE, row>>}, upd, del, {}, careful),
           Unused # {}, GoodRow(row), Numbered(row, Cardinality(Returns) + 1),
           \A u \in upd : Exists(u[1]) /\ db[u[1]] # NoRow /\ u[2] = "state",
           del \subseteq RowsOf("notification_preferences"),
           careful => /\ ~Taken(row.tab, row.keys)
                      /\ \A r \in row.refs : r[2] \in Ids /\ db[r[2]].tab = r[1]
    PROVE  CatInv'
<1> DEFINE i   == CHOOSE i \in Fresh(1) : TRUE
           put == {<<i, row>>}
<1>1. Queue(p, put, upd, del, {}, careful)
  OBVIOUS
<1>2. i \in Unused
  BY FreshIs
<1> HIDE DEF i
<1>3. PutFits(<<i, row>>)
  BY <1>2, FreshIs DEF PutFits
<1>4. \A j \in del : Exists(j)
  BY RowIs DEF Exists, RowsOf
<1>5. careful => Clear(Writes(put, upd, del, {}, careful))
  <2> SUFFICES ASSUME careful PROVE Clear(Writes(put, upd, del, {}, careful))
    OBVIOUS
  <2> DEFINE q == Writes(put, upd, del, {}, careful)
  <2>1. q.put = put /\ q.upd = upd /\ q.del = del /\ q.cut = {}
    BY DEF Writes
  <2> HIDE DEF q
  <2>2. Clear(q)
    BY <2>1 DEF Clear, Exists
  <2> QED BY <2>2 DEF q
<1> QED BY <1>1, <1>2, <1>3, <1>4, <1>5, QueueKeeps

\* INSERT of one row.
LEMMA InsertKeeps ==
    ASSUME CatInv, NEW p \in Requests, NEW tab, NEW keys, NEW refs, NEW upd, NEW careful,
           InsertWith(p, tab, keys, refs, upd, careful),
           tab # "none", tab # "carrier_configs",
           Numbered(NewRow(tab, keys, refs), Cardinality(Returns) + 1),
           \A r \in refs : r[1] \in Parents,
           \A u \in upd : Exists(u[1]) /\ db[u[1]] # NoRow /\ u[2] = "state",
           careful => /\ ~Taken(tab, keys)
                      /\ \A r \in refs : r[2] \in Ids /\ db[r[2]].tab = r[1]
    PROVE  CatInv'
<1> DEFINE row == NewRow(tab, keys, refs)
           del == {}
<1>1. /\ tab \in Areas[area] /\ Unused # {}
      /\ Queue(p, {<<CHOOSE i \in Fresh(1) : TRUE, row>>}, upd, del, {}, careful)
  BY DEF InsertWith
<1>2. row.tab = tab /\ row.keys = keys /\ row.refs = refs
  BY RowIs DEF NewRow
<1>3. Numbered(row, Cardinality(Returns) + 1) /\ del \subseteq RowsOf("notification_preferences")
  OBVIOUS
<1> HIDE DEF row, del
<1>4. GoodRow(row)
  BY <1>1, <1>2 DEF GoodRow
<1> QED BY <1>1, <1>2, <1>3, <1>4, PutOneKeeps

\* UPDATE of a column of one row.
LEMMA UpdateKeeps ==
    ASSUME CatInv, NEW p \in Requests, NEW tab, NEW i, NEW column, NEW value,
           Update(p, tab, i, column, value),
           tab # "none", tab # "return_orders"
    PROVE  CatInv'
<1>1. i \in RowsOf(tab) /\ Queue(p, {}, {<<i, column, value>>}, {}, {}, FALSE)
  BY DEF Update
<1>2. Exists(i)
  BY <1>1, RowIs DEF Exists, RowsOf
<1> DEFINE upd == {<<i, column, value>>}
           careful == FALSE
<1>3. \A u \in upd : u[1] = i
  OBVIOUS
<1>4. ~careful /\ Queue(p, {}, upd, {}, {}, careful)
  BY <1>1
<1> HIDE DEF upd, careful
<1> QED BY <1>2, <1>3, <1>4, QueueKeeps

\* DELETE of one row.
LEMMA DeleteKeeps ==
    ASSUME CatInv, NEW p \in Requests, NEW tab, NEW i, Delete(p, tab, i),
           tab # "none", tab # "return_orders"
    PROVE  CatInv'
<1> DEFINE cut == {<<c, i>> : c \in {c \in Ids : /\ <<tab, db[c].tab>> \in Collections
                                                 /\ Ref(tab, i) \in db[c].refs}}
<1>1. i \in RowsOf(tab) /\ Queue(p, {}, {}, {i}, cut, FALSE)
  BY DEF Delete
<1>2. Exists(i)
  BY <1>1, RowIs DEF Exists, RowsOf
<1> DEFINE careful == FALSE
<1>3. ~careful /\ Queue(p, {}, {}, {i}, cut, careful) /\ \A j \in {i} : Exists(j)
  BY <1>1, <1>2
<1> HIDE DEF cut, careful
<1> QED BY <1>3, QueueKeeps

-----------------------------------------------------------------------------
(* The end of a session                                                    *)

\* An accepted commit.  The other sessions' new primary keys stay free, and
\* whoever is open now has been raced, so nothing is promised to them.
LEMMA CommitKeeps == ASSUME CatInv, NEW p \in Requests, CatCommit(p) PROVE CatInv'
<1> DEFINE q == req[p]
<1>0. RowsInv /\ QueueInv /\ CarefulInv
  BY DEF CatInv
<1>1. /\ q.open /\ Matches(q) /\ ValidIn(FreshSchema, db')
      /\ db' = After(q)
      /\ dead' = dead \union {i \in Ids : db[i] # NoRow /\ db'[i] = NoRow}
      /\ req' = [req EXCEPT ![p] = Quiet]
      /\ raced' = {r \in Requests \ {p} : req[r].open}
      /\ area' = area
  BY DEF CatCommit, Accepted
<1>2. /\ \A w \in q.put : PutFits(w)
      /\ \A u \in q.upd : Exists(u[1]) /\ db[u[1]] # NoRow
      /\ \A i \in q.del : Exists(i)
  BY <1>0, <1>1 DEF QueueInv, Matches
<1> HIDE DEF q
<1>3. \A i \in Ids :
         \/ i \in Gone(q) /\ db'[i] = NoRow
         \/ db[i] = NoRow /\ i \notin dead /\ \E w \in q.put : w[1] = i /\ db'[i] = w[2]
         \/ /\ db'[i].tab = db[i].tab /\ db'[i].refs \subseteq db[i].refs
            /\ db[i] = NoRow => db'[i] = NoRow
            /\ db'[i].keys = db[i].keys \/ db[i].tab # "return_orders"
  <2> TAKE i \in Ids
  <2>1. CASE i \in Gone(q)
    BY <1>1, <2>1, AfterIs
  <2>2. CASE i \notin Gone(q) /\ Put(q, i)
    BY <1>1, <1>2, <2>2, AfterIs DEF PutFits
  <2>3. CASE i \notin Gone(q) /\ ~Put(q, i) /\ Upd(q, i)
    <3>1. db[i] # NoRow /\ db[i].tab # "return_orders"
      BY <1>2, <2>3 DEF Upd, Exists
    <3> QED BY <1>1, <2>3, <3>1, AfterIs
  <2>4. CASE i \notin Gone(q) /\ ~Put(q, i) /\ ~Upd(q, i)
    BY <1>1, <2>4, AfterIs
  <2> QED BY <2>1, <2>2, <2>3, <2>4
<1>4. \A i \in Ids : db'[i] = NoRow \/ GoodRow(db[i])'
  <2> TAKE i \in Ids
  <2>1. ASSUME NEW w \in q.put, db'[i] = w[2] PROVE GoodRow(db[i])'
    BY <1>1, <1>2, <2>1 DEF PutFits, GoodRow
  <2>2. ASSUME db[i] # NoRow, db'[i].tab = db[i].tab, db'[i].refs \subseteq db[i].refs
        PROVE  GoodRow(db[i])'
    <3>1. GoodRow(db[i])
      BY <1>0, <2>2 DEF RowsInv
    <3> QED BY <1>1, <2>2, <3>1 DEF GoodRow
  <2> QED BY <1>3, <2>1, <2>2
<1>5. \A i \in dead' : i \in Ids /\ db'[i] = NoRow
  <2>1. \A i \in dead : i \in Ids /\ db[i] = NoRow
    BY <1>0 DEF RowsInv
  <2> QED BY <1>1, <1>3, <2>1
<1>6. Returns \subseteq Returns' /\ Returns' \subseteq Ids /\ Returns \subseteq Ids
  <2>1. ASSUME NEW i \in Ids, db[i].tab = "return_orders" PROVE db'[i].tab = "return_orders"
    <3>1. i \notin Gone(q) /\ db[i] # NoRow
      BY <1>2, <2>1, RowIs DEF Gone, Exists, Cascading
    <3> QED BY <1>3, <2>1, <3>1
  <2> QED BY <2>1 DEF Returns, RowsOf
<1> DEFINE n == Cardinality(Returns)
           m == Cardinality(Returns')
<1>7. n \in Nat /\ m \in Nat /\ n <= m /\ (Returns # Returns' => n + 1 <= m)
  BY <1>6, ReturnsSize
<1> HIDE DEF n, m
<1>8. \A i \in Ids : Numbered(db'[i], m)
  <2> SUFFICES ASSUME NEW i \in Ids, db'[i].tab = "return_orders", NEW k \in db'[i].keys
               PROVE  k[2] \in Nat /\ k[2] <= m
    BY DEF Numbered
  <2>1. ASSUME db[i] = NoRow, NEW w \in q.put, db'[i] = w[2] PROVE k[2] \in Nat /\ k[2] <= m
    <3>1. Returns # Returns'
      BY <2>1, RowIs DEF Returns, RowsOf
    <3>2. k[2] \in Nat /\ k[2] <= n + 1
      BY <1>2, <2>1 DEF PutFits, Numbered, n
    <3> QED BY <1>7, <3>1, <3>2
  <2>2. ASSUME db'[i].tab = db[i].tab, db'[i].keys = db[i].keys PROVE k[2] \in Nat /\ k[2] <= m
    <3>1. k[2] \in Nat /\ k[2] <= n
      BY <1>0, <2>2 DEF RowsInv, Numbered, n
    <3> QED BY <1>7, <3>1
  <2> QED BY <1>3, <2>1, <2>2, RowIs
<1>9. RowsInv'
  <2>1. area' \in DOMAIN Areas
    BY <1>0, <1>1 DEF RowsInv
  <2> QED BY <1>1, <1>4, <1>5, <1>8, <2>1 DEF RowsInv, Numbered, m
<1>10. req'[p] = Quiet /\ \A r \in Requests \ {p} : req'[r] = req[r]
  BY <1>0, <1>1 DEF QueueInv
<1>11. ASSUME NEW r \in Requests \ {p}, NEW w \in req[r].put PROVE PutFits(w)'
  <2>1. PutFits(w) /\ \A v \in q.put : v[1] # w[1]
    BY <1>0 DEF QueueInv, q
  <2>2. w[1] \in Ids /\ db[w[1]] = NoRow /\ w[1] \notin dead
    BY <2>1 DEF PutFits
  <2>3. db'[w[1]] = NoRow /\ w[1] \notin dead'
    BY <1>1, <1>3, <2>1, <2>2
  <2>4. GoodRow(w[2])'
    BY <1>1, <2>1 DEF PutFits, GoodRow
  <2>5. Numbered(w[2], m + 1)
    <3>1. Numbered(w[2], n + 1)
      BY <2>1 DEF PutFits, n
    <3>2. \A k \in w[2].keys : k[2] \in Nat /\ k[2] <= n + 1 => k[2] <= m + 1
      BY <1>7
    <3> QED BY <3>1, <3>2 DEF Numbered
  <2> QED BY <2>2, <2>3, <2>4, <2>5 DEF PutFits, Numbered, m
<1>12. ASSUME NEW i, Exists(i) PROVE Exists(i)'
  <2>1. i \in Ids /\ (db[i] # NoRow \/ i \in dead) /\ db[i].tab # "return_orders"
    BY <1>12 DEF Exists
  <2>2. CASE db'[i] = NoRow
    BY <1>1, <2>1, <2>2, RowIs DEF Exists
  <2>3. CASE db'[i] # NoRow
    <3>1. i \notin dead'
      BY <1>5, <2>3
    <3>2. db[i] # NoRow
      BY <1>1, <2>1, <3>1
    <3>3. db'[i].tab = db[i].tab
      BY <1>3, <2>1, <2>3, <3>2
    <3> QED BY <2>1, <2>3, <3>3 DEF Exists
  <2> QED BY <2>2, <2>3
<1>13. QueueInv'
  <2>1. req' = [r \in Requests |-> req'[r]]
    BY <1>0, <1>1 DEF QueueInv
  <2>2. \A r \in Requests : ~req'[r].open => req'[r] = Quiet
    BY <1>0, <1>10 DEF QueueInv
  <2>3. \A r \in Requests : \A w \in req'[r].put : PutFits(w)'
    BY <1>10, <1>11, WritesAre
  <2>4. \A r \in Requests : \A u \in req'[r].upd : Exists(u[1])'
    BY <1>0, <1>10, <1>12, WritesAre DEF QueueInv
  <2>5. \A r \in Requests : \A i \in req'[r].del : Exists(i)'
    BY <1>0, <1>10, <1>12, WritesAre DEF QueueInv
  <2>6. \A r, s \in Requests : \A w \in req'[r].put, v \in req'[s].put : r # s => w[1] # v[1]
    BY <1>0, <1>10, WritesAre DEF QueueInv
  <2> QED BY <2>1, <2>2, <2>3, <2>4, <2>5, <2>6 DEF QueueInv
<1>14. CarefulInv'
  BY <1>1, <1>10, WritesAre DEF CarefulInv
<1> QED BY <1>9, <1>13, <1>14 DEF CatInv

\* A refused commit changes no row.
LEMMA RefusedKeeps == ASSUME CatInv, NEW p \in Requests, CatRefused(p) PROVE CatInv'
<1>0. RowsInv /\ QueueInv /\ CarefulInv
  BY DEF CatInv
<1>1. /\ req' = [req EXCEPT ![p] = Quiet]
      /\ raced' = raced \ {p}
      /\ UNCHANGED <<area, db, dead>>
  BY DEF CatRefused
<1>2. req'[p] = Quiet /\ \A r \in Requests \ {p} : req'[r] = req[r]
  BY <1>0, <1>1 DEF QueueInv
<1>3. QueueInv'
  <2>1. req' = [r \in Requests |-> req'[r]]
    BY <1>0, <1>1 DEF QueueInv
  <2>2. \A r \in Requests : ~req'[r].open => req'[r] = Quiet
    BY <1>0, <1>2 DEF QueueInv
  <2>3. \A r \in Requests : \A w \in req'[r].put : PutFits(w)'
    BY <1>0, <1>1, <1>2, WritesAre, RowsStay DEF QueueInv
  <2>4. \A r \in Requests : \A u \in req'[r].upd : Exists(u[1])'
    BY <1>0, <1>1, <1>2, WritesAre, RowsStay DEF QueueInv
  <2>5. \A r \in Requests : \A i \in req'[r].del : Exists(i)'
    BY <1>0, <1>1, <1>2, WritesAre, RowsStay DEF QueueInv
  <2>6. \A r, s \in Requests : \A w \in req'[r].put, v \in req'[s].put : r # s => w[1] # v[1]
    BY <1>0, <1>2, WritesAre DEF QueueInv
  <2> QED BY <2>1, <2>2, <2>3, <2>4, <2>5, <2>6 DEF QueueInv
<1>4. CarefulInv'
  BY <1>0, <1>1, <1>2, WritesAre, RowsStay DEF CarefulInv
<1> QED BY <1>0, <1>1, <1>3, <1>4, RowsStay DEF CatInv

-----------------------------------------------------------------------------
(* The handlers                                                            *)

\* A reference to a row that was read.
Found(r) == r[1] \in Parents /\ r[2] \in Ids /\ db[r[2]].tab = r[1]

\* A table whose rows have no counted numbers.
Plain(tab) == tab \notin {"none", "carrier_configs", "return_orders"}

\* A row of such a table is within every bound on the numbers of returns.
LEMMA PlainIsNumbered ==
    ASSUME NEW tab, Plain(tab), NEW keys, NEW refs, NEW n
    PROVE  Numbered(NewRow(tab, keys, refs), n)
BY RowIs DEF Plain, NewRow, Numbered

\* An INSERT after a SELECT that found none of the keys; what it refers to is
\* looked for too.
Looked(p, tab, keys, refs) == InsertIfFree(p, tab, keys, refs) /\ \A r \in refs : Found(r)

\* It keeps the invariant: nothing forbids the row.
LEMMA LookedKeeps ==
    ASSUME CatInv, NEW p \in Requests, NEW tab, NEW keys, NEW refs,
           Looked(p, tab, keys, refs), Plain(tab)
    PROVE  CatInv'
<1> DEFINE careful == TRUE
           upd == {}
<1>1. ~Taken(tab, keys) /\ InsertWith(p, tab, keys, refs, upd, careful)
  BY DEF Looked, InsertIfFree, Insert
<1>2. \A u \in upd : FALSE
  OBVIOUS
<1> HIDE DEF careful, upd
<1> QED BY <1>1, <1>2, InsertKeeps, PlainIsNumbered DEF Looked, Found, Plain

\* An INSERT of a handler that does not look.
Blind(p, tab, keys, refs) ==
    Insert(p, tab, keys, refs, FALSE) /\ \A r \in refs : r[1] \in Parents

\* It keeps the invariant: it is the database that refuses the row.
LEMMA BlindKeeps ==
    ASSUME CatInv, NEW p \in Requests, NEW tab, NEW keys, NEW refs,
           Blind(p, tab, keys, refs), Plain(tab)
    PROVE  CatInv'
<1> DEFINE careful == FALSE
           upd == {}
<1>1. ~careful /\ InsertWith(p, tab, keys, refs, upd, careful)
  BY DEF Blind, Insert
<1>2. \A u \in upd : FALSE
  OBVIOUS
<1> HIDE DEF careful, upd
<1> QED BY <1>1, <1>2, InsertKeeps, PlainIsNumbered DEF Blind, Plain

\* An INSERT of a row without keys needs no look for them.
LEMMA KeylessIsLooked ==
    ASSUME NEW p, NEW tab, NEW refs, Insert(p, tab, {}, refs, TRUE), \A r \in refs : Found(r)
    PROVE  Looked(p, tab, {}, refs)
BY DEF Looked, InsertIfFree, Taken

\* Warehouses, locations, stock.
LEMMA WarehouseKeeps ==
    ASSUME CatInv, NEW p \in Requests, NEW i, NEW j, NEW k,
           \/ create_warehouse(p, k) \/ update_warehouse(p, i, k)
           \/ delete_warehouse(p, i) \/ create_location(p, i, k)
           \/ update_location(p, i) \/ delete_location(p, i)
           \/ insert_inventory(p, i, j)
    PROVE  CatInv'
<1>1. create_warehouse(p, k) => CatInv'
  <2>1. create_warehouse(p, k) => Looked(p, "warehouses", {<<"code", k>>}, {})
    BY DEF create_warehouse, Looked
  <2>2. Plain("warehouses")
    BY DEF Plain
  <2> QED BY <2>1, <2>2, LookedKeeps
<1>2. update_warehouse(p, i, k) => CatInv'
  BY UpdateKeeps DEF update_warehouse
<1>3. delete_warehouse(p, i) => CatInv'
  BY DeleteKeeps DEF delete_warehouse
<1>4. create_location(p, i, k) => CatInv'
  <2>0. \A r \in {Ref("warehouses", i)} : r[1] \in Parents
    <3>1. "warehouses" \in Parents
      BY DEF Parents
    <3> QED BY <3>1 DEF Ref
  <2>1. create_location(p, i, k) => Blind(p, "locations", {<<"code", k>>}, {Ref("warehouses", i)})
    BY <2>0 DEF create_location, Blind
  <2>2. Plain("locations")
    BY DEF Plain
  <2> QED BY <2>1, <2>2, BlindKeeps
<1>5. update_location(p, i) => CatInv'
  BY UpdateKeeps DEF update_location
<1>6. delete_location(p, i) => CatInv'
  BY DeleteKeeps DEF delete_location
<1>7. insert_inventory(p, i, j) => CatInv'
  <2>0. \A r \in {Ref("warehouses", i), Ref("locations", j)} : r[1] \in Parents
    <3>1. "warehouses" \in Parents /\ "locations" \in Parents
      BY DEF Parents
    <3> QED BY <3>1 DEF Ref
  <2>1. insert_inventory(p, i, j) => Blind(p, "inventory", {}, {Ref("warehouses", i), Ref("locations", j)})
    BY <2>0 DEF insert_inventory, Blind
  <2>2. Plain("inventory")
    BY DEF Plain
  <2> QED BY <2>1, <2>2, BlindKeeps
<1> QED BY <1>1, <1>2, <1>3, <1>4, <1>5, <1>6, <1>7

\* Users, roles and permissions.
LEMMA AccessKeeps ==
    ASSUME CatInv, NEW p \in Requests, NEW i, NEW j, NEW k, NEW m,
           \/ register_user(p, k, m) \/ delete_user(p, i) \/ toggle_user_active(p, i)
           \/ create_role(p, k) \/ update_role(p, i) \/ delete_role(p, i)
           \/ create_permission(p, k) \/ assign_role_to_user(p, i, j)
           \/ remove_role_from_user(p, i) \/ assign_permission_to_role(p, i, j)
           \/ remove_permission_from_role(p, i)
    PROVE  CatInv'
<1>1. register_user(p, k, m) => CatInv'
  <2>1. register_user(p, k, m) => Looked(p, "users", {<<"username", k>>, <<"email", m>>}, {})
    BY DEF register_user, Looked
  <2>2. Plain("users")
    BY DEF Plain
  <2> QED BY <2>1, <2>2, LookedKeeps
<1>2. delete_user(p, i) => CatInv'
  BY DeleteKeeps DEF delete_user
<1>3. toggle_user_active(p, i) => CatInv'
  BY UpdateKeeps DEF toggle_user_active
<1>4. create_role(p, k) => CatInv'
  <2>1. create_role(p, k) => Looked(p, "roles", {<<"code", k>>}, {})
    BY DEF create_role, Looked
  <2>2. Plain("roles")
    BY DEF Plain
  <2> QED BY <2>1, <2>2, LookedKeeps
<1>5. update_role(p, i) => CatInv'
  BY UpdateKeeps DEF update_role
<1>6. delete_role(p, i) => CatInv'
  BY DeleteKeeps DEF delete_role
<1>7. create_permission(p, k) => CatInv'
  <2>1. create_permission(p, k) => Looked(p, "permissions", {<<"code", k>>}, {})
    BY DEF create_permission, Looked
  <2>2. Plain("permissions")
    BY DEF Plain
  <2> QED BY <2>1, <2>2, LookedKeeps
<1>8. assign_role_to_user(p, i, j) => CatInv'
  <2>0. assign_role_to_user(p, i, j) => \A r \in {Ref("users", i), Ref("roles", j)} : Found(r)
    <3>1. "users" \in Parents /\ "roles" \in Parents
      BY DEF Parents
    <3>2. assign_role_to_user(p, i, j) => i \in RowsOf("users") /\ j \in RowsOf("roles")
      BY DEF assign_role_to_user
    <3> QED BY <3>1, <3>2 DEF Ref, Found, RowsOf
  <2>1. assign_role_to_user(p, i, j) => Looked(p, "user_roles", {<<"user_id+role_id", <<i, j>>>>}, {Ref("users", i), Ref("roles", j)})
    BY <2>0 DEF assign_role_to_user, Looked
  <2>2. Plain("user_roles")
    BY DEF Plain
  <2> QED BY <2>1, <2>2, LookedKeeps
<1>9. remove_role_from_user(p, i) => CatInv'
  BY DeleteKeeps DEF remove_role_from_user
<1>10. assign_permission_to_role(p, i, j) => CatInv'
  <2>0. assign_permission_to_role(p, i, j) => \A r \in {Ref("roles", i), Ref("permissions", j)} : Found(r)
    <3>1. "roles" \in Parents /\ "permissions" \in Parents
      BY DEF Parents
    <3>2. assign_permission_to_role(p, i, j) => i \in RowsOf("roles") /\ j \in RowsOf("permissions")
      BY DEF assign_permission_to_role
    <3> QED BY <3>1, <3>2 DEF Ref, Found, RowsOf
  <2>1. assign_permission_to_role(p, i, j) => Looked(p, "role_permissions", {<<"role_id+permission_id", <<i, j>>>>}, {Ref("roles", i), Ref("permissions", j)})
    BY <2>0 DEF assign_permission_to_role, Looked
  <2>2. Plain("role_permissions")
    BY DEF Plain
  <2> QED BY <2>1, <2>2, LookedKeeps
<1>11. remove_permission_from_role(p, i) => CatInv'
  BY DeleteKeeps DEF remove_permission_from_role
<1> QED BY <1>1, <1>2, <1>3, <1>4, <1>5, <1>6, <1>7, <1>8, <1>9, <1>10, <1>11

\* Hubs, vendors, purchases, bills and merge groups.
LEMMA TradeKeeps ==
    ASSUME CatInv, NEW p \in Requests, NEW i, NEW k, NEW m,
           \/ create_hub(p, k) \/ seed_hubs(p, k) \/ update_hub(p, i)
           \/ add_hub_connection(p, k, m) \/ seed_hub_connections(p, k, m)
           \/ add_carrier_route(p) \/ seed_carrier_routes(p) \/ create_freight_tier(p)
           \/ create_vendor(p, k) \/ create_address(p) \/ purchase_order(p, k, i)
           \/ create_invoice(p, k) \/ create_credit_memo(p, k, i)
           \/ merge_orders(p, k)
    PROVE  CatInv'
<1>1. create_hub(p, k) => CatInv'
  <2>1. create_hub(p, k) => Looked(p, "transfer_hubs", {<<"code", k>>}, {})
    BY DEF create_hub, Looked
  <2>2. Plain("transfer_hubs")
    BY DEF Plain
  <2> QED BY <2>1, <2>2, LookedKeeps
<1>2. seed_hubs(p, k) => CatInv'
  <2>1. seed_hubs(p, k) => Looked(p, "transfer_hubs", {<<"code", k>>}, {})
    BY DEF seed_hubs, create_hub, Looked
  <2>2. Plain("transfer_hubs")
    BY DEF Plain
  <2> QED BY <2>1, <2>2, LookedKeeps
<1>3. update_hub(p, i) => CatInv'
  BY UpdateKeeps DEF update_hub
<1>4. add_hub_connection(p, k, m) => CatInv'
  <2>1. add_hub_connection(p, k, m) => Looked(p, "hub_connections", {<<"from_hub_code+to_hub_code", <<k, m>>>>}, {})
    BY DEF add_hub_connection, Looked
  <2>2. Plain("hub_connections")
    BY DEF Plain
  <2> QED BY <2>1, <2>2, LookedKeeps
<1>5. seed_hub_connections(p, k, m) => CatInv'
  <2>1. seed_hub_connections(p, k, m) => Looked(p, "hub_connections", {<<"from_hub_code+to_hub_code", <<k, m>>>>}, {})
    BY DEF seed_hub_connections, add_hub_connection, Looked
  <2>2. Plain("hub_connections")
    BY DEF Plain
  <2> QED BY <2>1, <2>2, LookedKeeps
<1>6. add_carrier_route(p) => CatInv'
  <2>1. add_carrier_route(p) => Looked(p, "carrier_routes", {}, {})
    BY KeylessIsLooked DEF add_carrier_route
  <2>2. Plain("carrier_routes")
    BY DEF Plain
  <2> QED BY <2>1, <2>2, LookedKeeps
<1>7. seed_carrier_routes(p) => CatInv'
  <2>1. seed_carrier_routes(p) => Looked(p, "carrier_routes", {}, {})
    BY KeylessIsLooked DEF seed_carrier_routes, add_carrier_route
  <2>2. Plain("carrier_routes")
    BY DEF Plain
  <2> QED BY <2>1, <2>2, LookedKeeps
<1>8. create_freight_tier(p) => CatInv'
  <2>1. create_freight_tier(p) => Looked(p, "freight_tiers", {}, {})
    BY KeylessIsLooked DEF create_freight_tier
  <2>2. Plain("freight_tiers")
    BY DEF Plain
  <2> QED BY <2>1, <2>2, LookedKeeps
<1>9. create_vendor(p, k) => CatInv'
  <2>1. create_vendor(p, k) => Looked(p, "vendors", {<<"code", k>>}, {})
    BY DEF create_vendor, Looked
  <2>2. Plain("vendors")
    BY DEF Plain
  <2> QED BY <2>1, <2>2, LookedKeeps
<1>10. create_address(p) => CatInv'
  <2>1. create_address(p) => Looked(p, "addresses", {}, {})
    BY KeylessIsLooked DEF create_address
  <2>2. Plain("addresses")
    BY DEF Plain
  <2> QED BY <2>1, <2>2, LookedKeeps
<1>11. purchase_order(p, k, i) => CatInv'
  <2>0. \A r \in {Ref("vendors", i)} : r[1] \in Parents
    <3>1. "vendors" \in Parents
      BY DEF Parents
    <3> QED BY <3>1 DEF Ref
  <2>1. purchase_order(p, k, i) => Blind(p, "purchase_orders", {<<"po_number", k>>}, {Ref("vendors", i)})
    BY <2>0 DEF purchase_order, Blind
  <2>2. Plain("purchase_orders")
    BY DEF Plain
  <2> QED BY <2>1, <2>2, BlindKeeps
<1>12. create_invoice(p, k) => CatInv'
  <2>1. create_invoice(p, k) => Blind(p, "invoices", {<<"invoice_number", k>>}, {})
    BY DEF create_invoice, Blind
  <2>2. Plain("invoices")
    BY DEF Plain
  <2> QED BY <2>1, <2>2, BlindKeeps
<1>13. create_credit_memo(p, k, i) => CatInv'
  <2>0. \A r \in {Ref("invoices", i)} : r[1] \in Parents
    <3>1. "invoices" \in Parents
      BY DEF Parents
    <3> QED BY <3>1 DEF Ref
  <2>1. create_credit_memo(p, k, i) => Blind(p, "credit_memos", {<<"credit_memo_number", k>>}, {Ref("invoices", i)})
    BY <2>0 DEF create_credit_memo, Blind
  <2>2. Plain("credit_memos")
    BY DEF Plain
  <2> QED BY <2>1, <2>2, BlindKeeps
<1>14. merge_orders(p, k) => CatInv'
  <2>1. merge_orders(p, k) => Blind(p, "merge_groups", {<<"code", k>>}, {})
    BY DEF merge_orders, Blind
  <2>2. Plain("merge_groups")
    BY DEF Plain
  <2> QED BY <2>1, <2>2, BlindKeeps
<1> QED BY <1>1, <1>2, <1>3, <1>4, <1>5, <1>6, <1>7, <1>8, <1>9, <1>10, <1>11, <1>12, <1>13, <1>14

\* Devices, labels, waybills and notifications.
LEMMA LabelKeeps ==
    ASSUME CatInv, NEW p \in Requests, NEW i, NEW k, NEW s,
           \/ register_device(p, k) \/ update_device(p, i, s)
           \/ record_heartbeat(p, i) \/ end_session(p, i) \/ update_target(p, i, s)
           \/ delete_target(p, i) \/ send_notification(p) \/ mark_read(p, i)
           \/ create_template(p, k) \/ generate_barcode(p) \/ record_scan(p)
           \/ enqueue_mutation(p) \/ create_waybill(p, k) \/ void_waybill(p, i)
           \/ mark_printed(p, i)
    PROVE  CatInv'
<1>1. register_device(p, k) => CatInv'
  <2>1. register_device(p, k) => Looked(p, "terminal_devices", {<<"code", k>>}, {})
    BY DEF register_device, Looked
  <2>2. Plain("terminal_devices")
    BY DEF Plain
  <2> QED BY <2>1, <2>2, LookedKeeps
<1>2. update_device(p, i, s) => CatInv'
  BY UpdateKeeps DEF update_device
<1>3. record_heartbeat(p, i) => CatInv'
  BY UpdateKeeps DEF record_heartbeat
<1>4. end_session(p, i) => CatInv'
  BY UpdateKeeps DEF end_session
<1>5. update_target(p, i, s) => CatInv'
  BY UpdateKeeps DEF update_target
<1>6. delete_target(p, i) => CatInv'
  BY DeleteKeeps DEF delete_target
<1>7. send_notification(p) => CatInv'
  <2>1. send_notification(p) => Looked(p, "notifications", {}, {})
    BY KeylessIsLooked DEF send_notification
  <2>2. Plain("notifications")
    BY DEF Plain
  <2> QED BY <2>1, <2>2, LookedKeeps
<1>8. mark_read(p, i) => CatInv'
  BY UpdateKeeps DEF mark_read
<1>9. create_template(p, k) => CatInv'
  <2>1. create_template(p, k) => Looked(p, "label_templates", {<<"code", k>>}, {})
    BY DEF create_template, Looked
  <2>2. Plain("label_templates")
    BY DEF Plain
  <2> QED BY <2>1, <2>2, LookedKeeps
<1>10. generate_barcode(p) => CatInv'
  <2>1. generate_barcode(p) => Looked(p, "barcode_records", {}, {})
    BY KeylessIsLooked DEF generate_barcode
  <2>2. Plain("barcode_records")
    BY DEF Plain
  <2> QED BY <2>1, <2>2, LookedKeeps
<1>11. record_scan(p) => CatInv'
  <2>1. record_scan(p) => Looked(p, "barcode_records", {}, {})
    BY KeylessIsLooked DEF record_scan
  <2>2. Plain("barcode_records")
    BY DEF Plain
  <2> QED BY <2>1, <2>2, LookedKeeps
<1>12. enqueue_mutation(p) => CatInv'
  <2>1. enqueue_mutation(p) => Looked(p, "pda_pending_mutations", {}, {})
    BY KeylessIsLooked DEF enqueue_mutation
  <2>2. Plain("pda_pending_mutations")
    BY DEF Plain
  <2> QED BY <2>1, <2>2, LookedKeeps
<1>13. create_waybill(p, k) => CatInv'
  <2>1. create_waybill(p, k) => Blind(p, "waybills", {generate_tracking_number(k)}, {})
    BY DEF create_waybill, Blind
  <2>2. Plain("waybills")
    BY DEF Plain
  <2> QED BY <2>1, <2>2, BlindKeeps
<1>14. void_waybill(p, i) => CatInv'
  BY UpdateKeeps DEF void_waybill
<1>15. mark_printed(p, i) => CatInv'
  BY UpdateKeeps DEF mark_printed
<1> QED BY <1>1, <1>2, <1>3, <1>4, <1>5, <1>6, <1>7, <1>8, <1>9, <1>10, <1>11, <1>12, <1>13, <1>14, <1>15

\* Transport orders and exceptions.
LEMMA DeliveryKeeps ==
    ASSUME CatInv, NEW p \in Requests, NEW i, NEW k,
           \/ transport_order(p, k) \/ update_pod(p, i) \/ create_exception(p, i)
           \/ resolve_exception(p, i)
    PROVE  CatInv'
<1>1. transport_order(p, k) => CatInv'
  <2>1. transport_order(p, k) => Blind(p, "transport_orders", {<<"transport_no", k>>}, {})
    BY DEF transport_order, Blind
  <2>2. Plain("transport_orders")
    BY DEF Plain
  <2> QED BY <2>1, <2>2, BlindKeeps
<1>2. update_pod(p, i) => CatInv'
  BY UpdateKeeps DEF update_pod
<1>3. create_exception(p, i) => CatInv'
  <2>0. create_exception(p, i) => \A r \in {Ref("transport_orders", i)} : Found(r)
    <3>1. "transport_orders" \in Parents
      BY DEF Parents
    <3>2. create_exception(p, i) => i \in RowsOf("transport_orders")
      BY DEF create_exception
    <3> QED BY <3>1, <3>2 DEF Ref, Found, RowsOf
  <2>1. create_exception(p, i) => Looked(p, "transport_exceptions", {}, {Ref("transport_orders", i)})
    BY <2>0, KeylessIsLooked DEF create_exception
  <2>2. Plain("transport_exceptions")
    BY DEF Plain
  <2> QED BY <2>1, <2>2, LookedKeeps
<1>4. resolve_exception(p, i) => CatInv'
  BY UpdateKeeps DEF resolve_exception
<1> QED BY <1>1, <1>2, <1>3, <1>4

\* A row of a device, which is online with it.
LEMMA AtDeviceKeeps ==
    ASSUME CatInv, NEW p \in Requests, NEW d, record_sync(p, d) \/ create_session(p, d)
    PROVE  CatInv'
<1>1. PICK tab \in {"sync_logs", "device_sessions"} : AtDevice(p, tab, d)
  BY DEF record_sync, create_session
<1> DEFINE careful == TRUE
           upd     == {<<d, "state", "online">>}
           refs    == {Ref("terminal_devices", d)}
<1>2. d \in RowsOf("terminal_devices") /\ InsertWith(p, tab, {}, refs, upd, careful)
  BY <1>1 DEF AtDevice
<1>3. Plain(tab)
  BY DEF Plain
<1>4. Exists(d) /\ db[d] # NoRow
  BY <1>2, RowIs DEF Exists, RowsOf
<1>5. \A u \in upd : u[1] = d /\ u[2] = "state"
  OBVIOUS
<1>6. \A r \in refs : r[1] \in Parents /\ r[2] \in Ids /\ db[r[2]].tab = r[1]
  BY <1>2 DEF Ref, RowsOf, Parents
<1>7. ~Taken(tab, {})
  BY DEF Taken
<1> HIDE DEF careful, upd, refs
<1> QED BY <1>2, <1>3, <1>4, <1>5, <1>6, <1>7, InsertKeeps, PlainIsNumbered DEF Plain

\* A proof of delivery: careful unless the order is not there.
LEMMA PodKeeps ==
    ASSUME CatInv, NEW p \in Requests,
           NEW t \in RowsOf("transport_orders") \union {Unknown}, create_pod(p, t)
    PROVE  CatInv'
<1> DEFINE careful == t # Unknown
           keys    == {<<"transport_order_id", t>>}
           refs    == {Ref("transport_orders", t)}
           upd     == {}
           tab     == "pod_records"
<1>1. ~Taken(tab, keys) /\ InsertWith(p, tab, keys, refs, upd, careful)
  BY DEF create_pod, Insert
<1>2. Plain(tab)
  BY DEF Plain
<1>3. \A r \in refs : r[1] \in Parents /\ (careful => r[2] \in Ids /\ db[r[2]].tab = r[1])
  BY DEF Ref, RowsOf, Parents
<1>4. \A u \in upd : FALSE
  OBVIOUS
<1> HIDE DEF careful, keys, refs, upd, tab
<1> QED BY <1>1, <1>2, <1>3, <1>4, InsertKeeps, PlainIsNumbered DEF Plain

\* A return: the number of rows plus one is no row's number.
LEMMA ReturnKeeps ==
    ASSUME CatInv, NEW p \in Requests, return_order(p) PROVE CatInv'
<1> DEFINE n       == Cardinality(Returns)
           keys    == {<<"return_no", n + 1>>}
           careful == TRUE
           refs    == {}
           upd     == {}
           tab     == "return_orders"
<1>1. InsertWith(p, tab, keys, refs, upd, careful)
  BY DEF return_order, Insert, Returns
<1>2. n \in Nat
  BY ReturnsSize DEF Returns, RowsOf
<1>3. \A k \in keys : k[2] = n + 1
  OBVIOUS
<1>4. \A i \in RowsOf(tab) : \A k \in db[i].keys : k[2] \in Nat /\ k[2] <= n
  BY DEF CatInv, RowsInv, Numbered, RowsOf
<1> HIDE DEF n
<1>5. ~Taken(tab, keys)
  <2>1. ASSUME NEW i \in RowsOf(tab), NEW k \in db[i].keys, k \in keys PROVE FALSE
    <3>1. k[2] \in Nat /\ k[2] <= n /\ k[2] = n + 1
      BY <1>3, <1>4, <2>1
    <3> QED BY <1>2, <3>1
  <2> HIDE DEF keys, tab
  <2> QED BY <2>1 DEF Taken
<1>6. tab # "none" /\ tab # "carrier_configs"
  OBVIOUS
<1>7. Numbered(NewRow(tab, keys, refs), n + 1)
  <2>1. NewRow(tab, keys, refs).keys = keys
    BY RowIs DEF NewRow
  <2> HIDE DEF keys
  <2> QED BY <1>2, <1>3, <2>1 DEF Numbered
<1>8. (\A u \in upd : FALSE) /\ (\A r \in refs : FALSE)
  OBVIOUS
<1> HIDE DEF keys, careful, refs, upd, tab
<1> QED BY <1>1, <1>5, <1>6, <1>7, <1>8, InsertKeeps DEF n

\* A target with its status, and preferences that replace the others.
LEMMA StatusKeeps ==
    ASSUME CatInv, NEW p \in Requests, NEW s, create_target(p, s) \/ update_preferences(p, s)
    PROVE  CatInv'
<1>1. ASSUME NEW tab, Plain(tab), tab \in Areas[area], Unused # {},
             NEW del, del \subseteq RowsOf("notification_preferences"),
             Queue(p, {<<CHOOSE i \in Fresh(1) : TRUE, Row(tab, {}, {}, s)>>}, {}, del, {}, TRUE)
      PROVE  CatInv'
  <2> DEFINE row     == Row(tab, {}, {}, s)
             careful == TRUE
             upd     == {}
  <2>1. Queue(p, {<<CHOOSE i \in Fresh(1) : TRUE, row>>}, upd, del, {}, careful)
    BY <1>1
  <2>2. row.tab = tab /\ row.keys = {} /\ row.refs = {}
    BY RowIs
  <2>3. \A u \in upd : FALSE
    OBVIOUS
  <2> HIDE DEF row, careful, upd
  <2>4. GoodRow(row) /\ Numbered(row, Cardinality(Returns) + 1)
    BY <1>1, <2>2 DEF GoodRow, Numbered, Plain
  <2>5. ~Taken(row.tab, row.keys)
    BY <2>2 DEF Taken
  <2> QED BY <1>1, <2>1, <2>2, <2>3, <2>4, <2>5, PutOneKeeps
<1>2. Plain("webhook_targets") /\ Plain("notification_preferences")
  BY DEF Plain
<1>3. CASE create_target(p, s)
  <2> DEFINE tab == "webhook_targets"
             del == {}
  <2>1. /\ Plain(tab) /\ tab \in Areas[area] /\ Unused # {}
        /\ del \subseteq RowsOf("notification_preferences")
        /\ Queue(p, {<<CHOOSE i \in Fresh(1) : TRUE, Row(tab, {}, {}, s)>>}, {}, del, {}, TRUE)
    BY <1>2, <1>3 DEF create_target
  <2> HIDE DEF tab, del
  <2> QED BY <1>1, <2>1
<1>4. CASE update_preferences(p, s)
  <2> DEFINE tab == "notification_preferences"
             del == RowsOf("notification_preferences")
  <2>1. /\ Plain(tab) /\ tab \in Areas[area] /\ Unused # {}
        /\ Queue(p, {<<CHOOSE i \in Fresh(1) : TRUE, Row(tab, {}, {}, s)>>}, {}, del, {}, TRUE)
    BY <1>2, <1>4 DEF update_preferences
  <2>2. del \subseteq RowsOf("notification_preferences")
    OBVIOUS
  <2> HIDE DEF tab, del
  <2> QED BY <1>1, <2>1, <2>2
<1> QED BY <1>3, <1>4

\* Notifications that are marked as read.
LEMMA MarkAllKeeps == ASSUME CatInv, NEW p \in Requests, mark_all_read(p) PROVE CatInv'
<1> DEFINE unread  == {i \in RowsOf("notifications") : db[i].state = Usual}
           upd     == {<<i, "state", "read">> : i \in unread}
           careful == TRUE
<1>1. Queue(p, {}, upd, {}, {}, careful)
  BY DEF mark_all_read
<1>2. \A u \in upd : /\ u[2] = "state"
                     /\ u[1] \in Ids /\ db[u[1]].tab = "notifications"
  BY DEF RowsOf
<1> HIDE DEF upd, careful
<1>3. \A u \in upd : Exists(u[1]) /\ db[u[1]] # NoRow
  BY <1>2, RowIs DEF Exists
<1>4. Clear(Writes({}, upd, {}, {}, careful))
  <2> DEFINE q == Writes({}, upd, {}, {}, careful)
  <2>1. q.put = {} /\ q.upd = upd /\ q.del = {} /\ q.cut = {}
    BY DEF Writes
  <2> HIDE DEF q
  <2>2. Clear(q)
    BY <1>2, <1>3, <2>1 DEF Clear
  <2> QED BY <2>2 DEF q
<1> QED BY <1>1, <1>3, <1>4, QueueKeeps

\* Several new rows.
LEMMA PutAllKeeps ==
    ASSUME CatInv, NEW p \in Requests, NEW put, NEW careful,
           Queue(p, put, {}, {}, {}, careful),
           \A w \in put : /\ w[1] \in Unused /\ GoodRow(w[2]) /\ Plain(w[2].tab)
                          /\ careful => /\ ~Taken(w[2].tab, w[2].keys)
                                        /\ \A r \in w[2].refs : Found(r),
           \A v, w \in put : v # w => v[1] # w[1] /\ (v[2].tab # w[2].tab \/ v[2].keys = {})
    PROVE  CatInv'
<1>1. \A w \in put : PutFits(w)
  BY FreshIs DEF PutFits, Numbered, Plain
<1>2. careful => Clear(Writes(put, {}, {}, {}, careful))
  <2> SUFFICES ASSUME careful PROVE Clear(Writes(put, {}, {}, {}, careful))
    OBVIOUS
  <2> DEFINE q == Writes(put, {}, {}, {}, careful)
  <2>1. q.put = put /\ q.upd = {} /\ q.del = {} /\ q.cut = {}
    BY DEF Writes
  <2> HIDE DEF q
  <2>2. Clear(q)
    BY <2>1 DEF Clear, Found
  <2> QED BY <2>2 DEF q
<1> QED BY <1>1, <1>2, QueueKeeps

\* The log of a dispatch: a row for each target, which exists.
LEMMA DispatchKeeps == ASSUME CatInv, NEW p \in Requests, dispatch_event(p) PROVE CatInv'
<1> DEFINE targets == {i \in RowsOf("webhook_targets") : db[i].state = Usual}
           new     == Fresh(Cardinality(targets))
<1>1. PICK to \in Bijection(new, targets), result \in [targets -> {"success", "failed"}] :
         Queue(p, {<<i, Row("webhook_delivery_logs", {}, {Ref("webhook_targets", to[i])},
                            result[to[i]])>> : i \in new},
               {}, {}, {}, TRUE)
  BY DEF dispatch_event
<1> DEFINE row(i)  == Row("webhook_delivery_logs", {}, {Ref("webhook_targets", to[i])},
                          result[to[i]])
           put     == {<<i, row(i)>> : i \in new}
           careful == TRUE
<1>2. Queue(p, put, {}, {}, {}, careful)
  BY <1>1
<1>3. new \subseteq Unused /\ \A i \in new : to[i] \in RowsOf("webhook_targets")
  <2>1. to \in [new -> targets]
    BY DEF Bijection, Surjection
  <2> QED BY <2>1, FreshIs
<1>4. "webhook_delivery_logs" \in Areas[area]
  <2>1. "webhook_targets" \in Areas[area] /\ area \in DOMAIN Areas
    BY DEF dispatch_event, CatInv, RowsInv
  <2> QED BY <2>1 DEF Areas
<1>5. \A i \in new : /\ row(i).tab = "webhook_delivery_logs" /\ row(i).keys = {}
                     /\ \A r \in row(i).refs : Found(r)
  BY <1>3, RowIs DEF Found, Ref, RowsOf, Parents
<1> HIDE DEF row, careful
<1>6. \A w \in put : /\ w[1] \in Unused /\ GoodRow(w[2]) /\ Plain(w[2].tab)
                     /\ ~Taken(w[2].tab, w[2].keys)
                     /\ \A r \in w[2].refs : Found(r)
  <2> SUFFICES ASSUME NEW i \in new
               PROVE  /\ i \in Unused /\ GoodRow(row(i)) /\ Plain(row(i).tab)
                      /\ ~Taken(row(i).tab, row(i).keys)
                      /\ \A r \in row(i).refs : Found(r)
    OBVIOUS
  <2> QED BY <1>3, <1>4, <1>5 DEF GoodRow, Plain, Taken, Found
<1>7. \A v, w \in put : v # w => v[1] # w[1] /\ (v[2].tab # w[2].tab \/ v[2].keys = {})
  BY <1>5
<1> HIDE DEF put
<1> QED BY <1>2, <1>6, <1>7, PutAllKeeps

\* A transfer order, with its SKU when it is new.
LEMMA TransferKeeps ==
    ASSUME CatInv, NEW p \in Requests, NEW w, NEW byCode \in BOOLEAN, NEW k,
           create_transfer_order(p, w, byCode, k)
    PROVE  CatInv'
<1> DEFINE order == NewRow("transfer_orders", {}, {Ref("warehouses", w)})
           keys  == {<<"sku", k>>}
           sku   == NewRow("skus", keys, {})
<1>1. PICK s \in Fresh(1) :
         \/ /\ Taken("skus", keys)
            /\ Queue(p, {<<s, order>>}, {}, {}, {}, byCode)
         \/ /\ ~Taken("skus", keys)
            /\ \E t \in Fresh(2) \ {s} : Queue(p, {<<s, order>>, <<t, sku>>}, {}, {}, {}, byCode)
  BY DEF create_transfer_order
<1>2. /\ order.tab = "transfer_orders" /\ order.keys = {}
      /\ order.refs = {Ref("warehouses", w)}
      /\ sku.tab = "skus" /\ sku.keys = keys /\ sku.refs = {}
  BY RowIs DEF NewRow
<1>3. "transfer_orders" \in Areas[area] /\ (byCode => w \in RowsOf("warehouses"))
  BY DEF create_transfer_order
<1>4. "skus" \in Areas[area]
  <2>1. area \in DOMAIN Areas
    BY DEF CatInv, RowsInv
  <2> QED BY <1>3, <2>1 DEF Areas
<1>5. \A r \in order.refs : r[1] \in Parents /\ (byCode => Found(r))
  BY <1>2, <1>3 DEF Found, Ref, RowsOf, Parents
<1> HIDE DEF order, sku, keys
<1>6. /\ GoodRow(order) /\ Plain(order.tab)
      /\ byCode => ~Taken(order.tab, order.keys) /\ \A r \in order.refs : Found(r)
  BY <1>2, <1>3, <1>5 DEF GoodRow, Plain, Taken
<1>7. GoodRow(sku) /\ Plain(sku.tab) /\ \A r \in sku.refs : Found(r)
  BY <1>2, <1>4 DEF GoodRow, Plain
<1>8. s \in Unused
  BY <1>1, FreshIs
<1>9. CASE Queue(p, {<<s, order>>}, {}, {}, {}, byCode)
  <2> DEFINE put == {<<s, order>>}
  <2>1. \A v \in put : v[1] = s /\ v[2] = order
    OBVIOUS
  <2>2. \A v, u \in put : v = u
    OBVIOUS
  <2>3. Queue(p, put, {}, {}, {}, byCode)
    BY <1>9
  <2> HIDE DEF put
  <2> QED BY <1>6, <1>8, <2>1, <2>2, <2>3, PutAllKeeps
<1>10. ASSUME ~Taken("skus", keys), NEW t \in Fresh(2) \ {s},
              Queue(p, {<<s, order>>, <<t, sku>>}, {}, {}, {}, byCode)
       PROVE  CatInv'
  <2> DEFINE put == {<<s, order>>, <<t, sku>>}
  <2>1. \A v \in put : \/ v = <<s, order>> /\ v[1] = s /\ v[2] = order
                       \/ v = <<t, sku>> /\ v[1] = t /\ v[2] = sku
    OBVIOUS
  <2>2. Queue(p, put, {}, {}, {}, byCode)
    BY <1>10
  <2>3. t \in Unused /\ t # s
    BY FreshIs
  <2> HIDE DEF put
  <2>4. \A v \in put : /\ v[1] \in Unused /\ GoodRow(v[2]) /\ Plain(v[2].tab)
                       /\ byCode => /\ ~Taken(v[2].tab, v[2].keys)
                                    /\ \A r \in v[2].refs : Found(r)
    BY <1>2, <1>6, <1>7, <1>8, <1>10, <2>1, <2>3
  <2>5. \A v, u \in put : v # u => v[1] # u[1] /\ (v[2].tab # u[2].tab \/ v[2].keys = {})
    BY <1>2, <2>1, <2>3
  <2> QED BY <2>2, <2>4, <2>5, PutAllKeeps
<1> QED BY <1>1, <1>9, <1>10

-----------------------------------------------------------------------------
(* The theorems                                                            *)

\* Initially there are no rows and no sessions.
LEMMA CatInit_Inv == CatInit => CatInv
<1> SUFFICES ASSUME CatInit PROVE CatInv
  OBVIOUS
<1>1. /\ area \in DOMAIN Areas /\ dead = {} /\ raced = {}
      /\ \A i \in Ids : db[i] = NoRow
      /\ req = [p \in Requests |-> Quiet]
  BY DEF CatInit
<1>2. ValidIn(FreshSchema, db)
  BY <1>1, RowIs DEF ValidIn, UniqueIn
<1>3. \A i \in Ids : Numbered(db[i], Cardinality(Returns))
  BY <1>1, RowIs DEF Numbered
<1>4. RowsInv
  BY <1>1, <1>2, <1>3 DEF RowsInv
<1>5. QueueInv /\ CarefulInv
  BY <1>1, WritesAre DEF QueueInv, CarefulInv
<1> QED BY <1>4, <1>5 DEF CatInv

\* Every step keeps the invariant: handlers, commits and refusals.
LEMMA CatNext_Inv == CatInv /\ [CatNext]_cat_vars => CatInv'
<1> SUFFICES ASSUME CatInv, [CatNext]_cat_vars PROVE CatInv'
  OBVIOUS
<1>1. ASSUME NEW p \in Requests, Inserts(p) PROVE CatInv'
  BY <1>1, WarehouseKeeps, AccessKeeps, TradeKeeps, LabelKeeps, DeliveryKeeps, PodKeeps,
     ReturnKeeps, StatusKeeps, MarkAllKeeps, DispatchKeeps, TransferKeeps DEF Inserts
<1>2. ASSUME NEW p \in Requests, Changes(p) PROVE CatInv'
  BY <1>2, WarehouseKeeps, AccessKeeps, TradeKeeps, LabelKeeps, DeliveryKeeps, AtDeviceKeeps
     DEF Changes
<1>3. CASE UNCHANGED cat_vars
  <2>1. UNCHANGED <<area, db, dead>> /\ req' = req /\ raced' = raced
    BY <1>3 DEF cat_vars
  <2> QED BY <2>1, RowsStay DEF CatInv, QueueInv, CarefulInv
<1> QED BY <1>1, <1>2, <1>3, CommitKeeps, RefusedKeeps DEF CatNext

\* What else the classes declare and no revision creates has to do with one
\* table, carrier_configs.
OnlyCarriersDrift ==
    \A obj \in Declared \ {HubKey} :
        \/ obj \in FreshSchema
        \/ obj[2] = "carrier_configs"
        \/ obj[1] = "fk" /\ obj[3] = "carrier_configs"

\* That is what the revisions build.
LEMMA CarriersDrift == OnlyCarriersDrift
<1>1. \A obj \in Declared : obj \in FreshSchema \/ obj \in Drift
  BY FreshDatabase
<1>2. /\ Uq("carrier_configs", "carrier_code")[2] = "carrier_configs"
      /\ Fk("transport_orders", "carrier_configs")[1] = "fk"
      /\ Fk("transport_orders", "carrier_configs")[3] = "carrier_configs"
  BY ObjectIs
<1> QED BY <1>1, <1>2 DEF Drift, OnlyCarriersDrift

\* Then the keys and references that the classes declare, and that rows here
\* can have, are all in the schema the revisions build.
LEMMA RowsAreDeclared == ASSUME OnlyCarriersDrift, RowsInv PROVE RowsAreAsDeclared
<1> DEFINE D == Declared \ {HubKey}
<1> SUFFICES ValidIn(D, db)
  BY DEF RowsAreAsDeclared
<1>0. \A obj \in D : \/ obj \in FreshSchema \/ obj[2] = "carrier_configs"
                     \/ obj[1] = "fk" /\ obj[3] = "carrier_configs"
  BY DEF OnlyCarriersDrift
<1> HIDE DEF D
<1>1. \A t, c : Uq(t, c) \in D /\ t # "carrier_configs" => Uq(t, c) \in FreshSchema
  <2> SUFFICES ASSUME NEW t, NEW c, Uq(t, c) \in D, t # "carrier_configs"
               PROVE  Uq(t, c) \in FreshSchema
    OBVIOUS
  <2>1. Uq(t, c)[1] = "unique" /\ Uq(t, c)[2] = t
    BY DEF Uq
  <2> QED BY <1>0, <2>1
<1>2. \A t, r : Fk(t, r) \in D /\ t # "carrier_configs" /\ r # "carrier_configs" =>
                   Fk(t, r) \in FreshSchema
  <2> SUFFICES ASSUME NEW t, NEW r, Fk(t, r) \in D, t # "carrier_configs",
                      r # "carrier_configs"
               PROVE  Fk(t, r) \in FreshSchema
    OBVIOUS
  <2>1. Fk(t, r)[2] = t /\ Fk(t, r)[3] = r
    BY DEF Fk
  <2> QED BY <1>0, <2>1
<1>3. /\ ValidIn(FreshSchema, db)
      /\ \A i \in Ids : /\ db[i].tab # "carrier_configs"
                        /\ \A r \in db[i].refs : r[1] # "carrier_configs"
  BY RowIs DEF RowsInv, GoodRow, Parents
<1>4. ASSUME NEW i \in Ids, NEW j \in Ids, i # j PROVE UniqueIn(D, db, i, j)
  <2>1. UniqueIn(FreshSchema, db, i, j)
    BY <1>3, <1>4 DEF ValidIn
  <2> QED BY <1>1, <1>3, <2>1 DEF UniqueIn
<1>5. ASSUME NEW i \in Ids, NEW r \in db[i].refs, Fk(db[i].tab, r[1]) \in D
      PROVE  r[2] \in Ids /\ db[r[2]].tab = r[1]
  <2>1. Fk(db[i].tab, r[1]) \in FreshSchema
    BY <1>2, <1>3, <1>5
  <2> QED BY <1>3, <2>1 DEF ValidIn
<1> QED BY <1>4, <1>5 DEF ValidIn

\* For any number of requests, keys and rows: however the handlers of the
\* master data look first and insert later, or do not look at all, the rows
\* keep every unique key and every reference that the ORM classes declare, but
\* for the key of a pair of hubs, which no database has.
THEOREM RowsStayDeclared == CatSpec => []RowsAreAsDeclared
<1>1. CatInv => RowsAreAsDeclared
  BY CarriersDrift, RowsAreDeclared DEF CatInv
<1> QED BY <1>1, CatInit_Inv, CatNext_Inv, PTL DEF CatSpec

\* The rows are of tables of their area, a deleted primary key is not used
\* again, and a session that is over has no writes left.
THEOREM RowTypes == CatSpec => []CatTypeOK
<1>1. CatInv => CatTypeOK
  BY DEF CatInv, RowsInv, QueueInv, GoodRow, CatTypeOK
<1> QED BY <1>1, CatInit_Inv, CatNext_Inv, PTL DEF CatSpec

\* A handler that looks for everything the constraints forbid is refused by
\* the database only when another request committed after it looked: for any
\* number of requests, and with the numbers of returns that are counted.
THEOREM CarefulNeedsRace == CatSpec => CarefulRefusedOnlyByRace
<1>1. CatInv /\ [CatNext]_cat_vars =>
        [\A p \in Requests :
          (req[p].open /\ req[p].careful /\ ~req'[p].open /\ db' = db)
             => p \in raced \/ Accepted(req[p])]_cat_vars
  BY DEF CatInv, CarefulInv
<1> QED BY <1>1, CatInit_Inv, CatNext_Inv, PTL DEF CatSpec, CarefulRefusedOnlyByRace

-----------------------------------------------------------------------------
(* The three together                                                      *)

\* A step of the whole is one of its parts, and leaves the others alone.
THEOREM DatabaseIsItsParts == DatabaseSpec => Spec /\ MigSpec /\ CatSpec
<1>1. DatabaseInit => Init /\ MigInit /\ CatInit
  BY DEF DatabaseInit
<1>2. [DatabaseNext]_db_vars => [Next]_vars /\ [MigNext]_mig_vars /\ [CatNext]_cat_vars
  BY DEF DatabaseNext, db_vars
<1> QED BY <1>1, <1>2, PTL DEF DatabaseSpec, Spec, MigSpec, CatSpec

\* The variables of the migrations and of the rows keep their types.
THEOREM DatabaseTypes == DatabaseSpec => []RowsTypeOK
<1>1. MigTypeOK /\ CatTypeOK => RowsTypeOK
  BY DEF RowsTypeOK
<1> QED BY <1>1, DatabaseIsItsParts, MigrationTypes, RowTypes, PTL

=============================================================================
