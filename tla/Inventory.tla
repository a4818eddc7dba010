----------------------------- MODULE Inventory ------------------------------
(***************************************************************************)
(* The stock of one SKU at one location: the inventory rows of             *)
(* src/wms/models.py and the services that write them, adjust_inventory    *)
(* and adjust_stock_count (src/wms/service.py) and pick_from_stock         *)
(* (src/wms/services/picking_service.py).                                  *)
(*                                                                         *)
(* A request reads rows, computes new absolute quantities, and writes them *)
(* in a later step.  adjust_inventory writes WHERE version = the version   *)
(* it read; the other two write by primary key alone.  No statement of the *)
(* program makes locked_qty anything but 0, so available = quantity.       *)
(***************************************************************************)
EXTENDS Integers, FiniteSets, Functions

CONSTANTS
    Sessions,    \* concurrent requests
    Ops,         \* the services in use
    Batches,     \* batch numbers, numbered in order of expiry_date
    CountBatch,  \* batch_no "COUNT", without expiry_date: picked last
    MaxRows,     \* bound: inventory rows
    MaxQty,      \* bound: quantity of one request
    MaxStock,    \* bound: no further stock is received above this
    MaxVersion,  \* bound: no further request on a row of this version
    MaxDrift     \* bound: no further request once an update was lost this far

ServiceNames == {"in", "out", "count", "pick"}

ASSUME OpsAssumption   == Ops \subseteq ServiceNames
ASSUME BatchAssumption == /\ Batches \subseteq Nat \ {0}
                          /\ CountBatch \in Nat \ {0}
                          /\ \A b \in Batches : b < CountBatch
ASSUME SessionsAssumption == IsFiniteSet(Sessions)
ASSUME BoundsAssumption == /\ MaxRows \in Nat /\ MaxQty \in Nat
                           /\ MaxStock \in Nat /\ MaxVersion \in Nat
                           /\ MaxDrift \in Nat

Rows == 1..MaxRows

VARIABLES
    batch,       \* Inventory.batch_no of a row, NoBatch when there is no row
    qty,         \* Inventory.quantity
    version,     \* Inventory.version
    moved,       \* net quantity of the movements and log entries of a row
    session      \* per process: the request it is serving

vars == <<batch, qty, version, moved, session>>

NoBatch == 0
Nothing == [r \in Rows |-> 0]
MAX_RETRIES == 3

Existing == {r \in Rows : batch[r] # NoBatch}

\* op, arg and batch are the request; base and ver what it read; delta what it
\* will add to each row; new the batch of the row it will INSERT.
Session == [pc : {"idle", "loaded", "again"}, op : ServiceNames \union {"none"},
            arg : -MaxQty..MaxQty, batch : Batches \union {CountBatch, NoBatch},
            attempt : 1..MAX_RETRIES,
            base : [Rows -> Int], ver : [Rows -> Nat], delta : [Rows -> Int],
            new : Batches \union {CountBatch, NoBatch}]

\* No request.
Free ==
    [pc |-> "idle", op |-> "none", arg |-> 0, batch |-> NoBatch, attempt |-> 1,
     base |-> Nothing, ver |-> Nothing, delta |-> Nothing, new |-> NoBatch]

Init ==
    /\ batch = [r \in Rows |-> NoBatch]
    /\ qty = Nothing
    /\ version = Nothing
    /\ moved = Nothing
    /\ session = [p \in Sessions |-> Free]

-----------------------------------------------------------------------------
(* What the services read.                                                 *)

RowsOf(b) == {r \in Rows : batch[r] = b}

Total(S) == SumFunctionOnSet(qty, S)

\* Mutant: the order of arrival.
BeforeByArrival(r, s) == r < s

\* ORDER BY expiry_date NULLS LAST, then the older row
Before(r, s) == batch[r] < batch[s] \/ (batch[r] = batch[s] /\ r < s)

\* _pick_batches
PickBatches == {r \in Existing : qty[r] > 0}
IsFirst(r)  == r \in PickBatches /\ \A s \in PickBatches : r = s \/ Before(r, s)

\* The conditions under which the reads of a service raise nothing.
\* scalar_one_or_none raises when it finds two rows; adjust_stock_count raises
\* when it would take more from a row than there is.
Readable(op, q, b) ==
    \/ op = "in" /\ Cardinality(RowsOf(b)) <= 1
    \/ op = "out" /\ PickBatches # {} /\ Total(PickBatches) >= q
    \/ /\ op = "count" /\ Cardinality(Existing) <= 1
       /\ \A r \in Existing : q < qty[r] => q >= 0
    \/ op = "pick" /\ Existing # {}

\* Mutant: a row without stock is not found.
NewBatchWithoutStock(op, q, b) ==
    IF op = "in" /\ RowsOf(b) \intersect PickBatches = {} THEN b
    ELSE IF op = "count" /\ Existing = {} /\ q # 0 THEN CountBatch ELSE NoBatch

\* The batch of the row a service inserts when it finds none to update.  A count
\* comes in an unvalidated dict, and without a row it is not compared with
\* anything: a negative one is inserted as it is.
NewBatch(op, q, b) ==
    IF op = "in" /\ RowsOf(b) = {} THEN b
    ELSE IF op = "count" /\ Existing = {} /\ q # 0 THEN CountBatch ELSE NoBatch

\* pick_from_stock walks the rows in order until the quantity is reached; of a
\* row without stock it takes max(0, available).
Picked(q, r) ==
    LET earlier == Total({s \in PickBatches : Before(s, r)})
        rest    == IF earlier >= q THEN 0 ELSE q - earlier
    IN  IF qty[r] < rest THEN qty[r] ELSE rest

\* What each service adds to the rows it read.
InDelta(q, b)  == [r \in Rows |-> IF r \in RowsOf(b) THEN q ELSE 0]
OutDelta(q)    == [r \in Rows |-> IF IsFirst(r) THEN -q ELSE 0]
CountDelta(q)  == [r \in Rows |-> IF r \in Existing THEN q - qty[r] ELSE 0]
PickDelta(q)   == [r \in Rows |-> IF r \in PickBatches THEN -Picked(q, r) ELSE 0]

Delta(op, q, b) ==
    IF op = "in" THEN InDelta(q, b)
    ELSE IF op = "out" THEN OutDelta(q)
    ELSE IF op = "count" THEN CountDelta(q) ELSE PickDelta(q)

\* Mutant: the first batch is not checked for its quantity.
NeverTooSmall(op, q) == FALSE

\* adjust_inventory gives up the attempt when its first batch is too small.
TooSmall(op, q) == op = "out" /\ \E r \in Rows : IsFirst(r) /\ qty[r] < q

-----------------------------------------------------------------------------
(* The steps of a request.                                                 *)

\* Mutant: one attempt too many.
NextAttemptOffByOne(t) ==
    IF t.attempt <= MAX_RETRIES
    THEN [pc |-> "again", op |-> t.op, arg |-> t.arg, batch |-> t.batch,
          attempt |-> t.attempt + 1,
          base |-> Nothing, ver |-> Nothing, delta |-> Nothing, new |-> NoBatch]
    ELSE Free

\* rollback and continue; after the last attempt the loop ends and nothing was
\* written.
NextAttempt(t) ==
    IF t.attempt < MAX_RETRIES
    THEN [pc |-> "again", op |-> t.op, arg |-> t.arg, batch |-> t.batch,
          attempt |-> t.attempt + 1,
          base |-> Nothing, ver |-> Nothing, delta |-> Nothing, new |-> NoBatch]
    ELSE Free

\* The column f of the rows that are going to be written.
Seen(f, delta) == [r \in Rows |-> IF delta[r] # 0 THEN f[r] ELSE 0]

\* The reads of one attempt.
Load(op, q, b, attempt) ==
    LET d == Delta(op, q, b)
        t == [pc |-> "loaded", op |-> op, arg |-> q, batch |-> b,
              attempt |-> attempt,
              base |-> Seen(qty, d), ver |-> Seen(version, d),
              delta |-> d, new |-> NewBatch(op, q, b)]
    IN  IF TooSmall(op, q) THEN NextAttempt(t) ELSE t

Begin(p, op, q, b) ==
    /\ session[p].pc = "idle"
    /\ op \in Ops
    /\ q <= 0 => op = "count"
    /\ op = "in" => Total(Existing) + q <= MaxStock
    /\ \A r \in Rows : /\ version[r] < MaxVersion
                       /\ qty[r] - moved[r] \in -MaxDrift..MaxDrift
    /\ Readable(op, q, b)
    /\ session' = [session EXCEPT ![p] = Load(op, q, b, 1)]
    /\ UNCHANGED <<batch, qty, version, moved>>

ReadAgain(p) ==
    LET t == session[p] IN
    /\ t.pc = "again"
    /\ Readable(t.op, t.arg, t.batch)
    /\ session' = [session EXCEPT ![p] = Load(t.op, t.arg, t.batch, t.attempt)]
    /\ UNCHANGED <<batch, qty, version, moved>>

Optimistic(op) == op \in {"in", "out"}

\* Mutant: UPDATE ... WHERE id alone.
AlwaysCurrent(t) == TRUE

\* rowcount # 0: the rows to write still have the version that was read.
Current(t) == \A r \in Rows : t.delta[r] # 0 => version[r] = t.ver[r]

\* UPDATE inventory SET quantity = <absolute value>, and its commit.
Commit(p) ==
    LET t == session[p]
        written == {r \in Rows : t.delta[r] # 0}
    IN
    /\ t.pc = "loaded"
    /\ t.new = NoBatch
    /\ Optimistic(t.op) => Current(t)
    /\ qty' = [r \in Rows |-> IF r \in written THEN t.base[r] + t.delta[r] ELSE qty[r]]
    /\ version' = [r \in Rows |-> IF r \in written /\ t.op # "count"
                                  THEN t.ver[r] + 1 ELSE version[r]]
    /\ moved' = [r \in Rows |-> moved[r] + t.delta[r]]
    /\ session' = [session EXCEPT ![p] = Free]
    /\ UNCHANGED batch

\* INSERT of a new row: nothing makes (location, sku, batch_no) unique.
Insert(p, r) ==
    LET t == session[p] IN
    /\ t.pc = "loaded"
    /\ t.new # NoBatch
    /\ batch[r] = NoBatch
    /\ \A s \in Rows : s < r => batch[s] # NoBatch
    /\ batch' = [batch EXCEPT ![r] = t.new]
    /\ qty' = [qty EXCEPT ![r] = t.arg]
    /\ version' = [version EXCEPT ![r] = 0]
    /\ moved' = [moved EXCEPT ![r] = t.arg]
    /\ session' = [session EXCEPT ![p] = Free]

\* The versioned UPDATE matched no row, or the commit of adjust_inventory
\* raised before the last attempt.
Retry(p) ==
    LET t == session[p] IN
    /\ t.pc = "loaded"
    /\ Optimistic(t.op)
    /\ \/ t.new = NoBatch /\ ~Current(t)
       \/ t.attempt < MAX_RETRIES
    /\ session' = [session EXCEPT ![p] = NextAttempt(t)]
    /\ UNCHANGED <<batch, qty, version, moved>>

\* An exception leaves the service: insufficient stock on a later attempt, a
\* database error, an expired ORM object after a rollback.
Fail(p) ==
    /\ session[p].pc # "idle"
    /\ session' = [session EXCEPT ![p] = Free]
    /\ UNCHANGED <<batch, qty, version, moved>>

Next ==
    \E p \in Sessions :
        \/ \E op \in ServiceNames, q \in -MaxQty..MaxQty, b \in Batches : Begin(p, op, q, b)
        \/ ReadAgain(p)
        \/ Commit(p)
        \/ \E r \in Rows : Insert(p, r)
        \/ Retry(p)
        \/ Fail(p)

Spec == Init /\ [][Next]_vars

-----------------------------------------------------------------------------
(* Properties                                                              *)

\* Rows and requests have their types.
TypeOK ==
    /\ batch \in [Rows -> Batches \union {CountBatch, NoBatch}]
    /\ qty \in [Rows -> Int]
    /\ version \in [Rows -> Nat]
    /\ moved \in [Rows -> Int]
    /\ session \in [Sessions -> Session]

\* No update is lost: the quantity of a row is what the committed movements
\* on it add up to (adjust_inventory: "optimistic locking via the version
\* column to prevent lost updates under concurrent access").
NoLostUpdate == \A r \in Rows : qty[r] = moved[r]

\* No row holds less than nothing.
NeverNegative == \A r \in Rows : qty[r] >= 0

\* Negative stock comes in one way only: adjust_stock_count INSERTs a negative
\* count of a SKU that has no row.  However pick_from_stock, adjust_inventory
\* and later counts race, on rows that may have changed since they were read, no
\* row that was received ever falls below zero.
NegativeWasCounted == \A r \in Rows : qty[r] < 0 => batch[r] = CountBatch

\* The stock of every batch, over all its rows.
StockOf == [b \in Batches \union {CountBatch} |-> Total(RowsOf(b))]

\* The ledger this stock is kept for.
Ledger == INSTANCE StockLedger WITH BatchNos <- Batches \union {CountBatch},
                                    stock <- StockOf

\* Every step of adjust_inventory, duplicate rows of a batch and lost races
\* included, is one adjustment of one batch or none, and takes out no more than
\* there is at that moment: concurrent requests are serialised.
ImplementsLedger == Ledger!Spec

\* Only racing requests make two rows of one batch, so there are never more of
\* them than requests: looking up a batch and INSERTing it when absent is not
\* atomic, and scalar_one_or_none raises for a batch of two rows.
DuplicatesNeedRace ==
    \A b \in Batches \union {CountBatch} : Cardinality(RowsOf(b)) <= Cardinality(Sessions)

\* First expiry first out, in whatever state racing requests have left the rows:
\* adjust_inventory and pick_from_stock plan to take stock from a row only if
\* they leave every row that expires earlier empty, and pick_from_stock plans to
\* take all it was asked for or all there is.
FefoOrder ==
    \A q \in 1..MaxQty :
        LET Ordered(d) == \A r, s \in Existing :
                             batch[r] < batch[s] /\ d[s] # 0 => qty[r] + d[r] <= 0
            total == Total(PickBatches)
        IN  /\ Ordered(OutDelta(q))
            /\ Ordered(PickDelta(q))
            /\ SumFunctionOnSet(PickDelta(q), Rows) = IF total < q THEN -total ELSE -q
=============================================================================
