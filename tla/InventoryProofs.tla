-------------------------- MODULE InventoryProofs ---------------------------
(***************************************************************************)
(* Proofs about Inventory for any number of requests, rows and batches:    *)
(* negative stock comes from a stock count alone, adjust_inventory loses   *)
(* no update and implements StockLedger, both services that take stock out *)
(* plan to do so first expiry first out, and duplicate rows of a batch     *)
(* come from races.                                                        *)
(***************************************************************************)
EXTENDS Inventory, SumTheorems

AnyBatch == Batches \union {CountBatch, NoBatch}

\* What the provers need of an open request: the service is in use, its rows
\* exist, and only a count writes a negative quantity, to a row of batch "COUNT".
Sound(t) ==
    /\ t.op \in Ops \union {"none"}
    /\ t.pc # "idle" => t.op \in Ops
    /\ t.pc # "idle" => t.batch \in Batches
    /\ t.arg < 0 => t.op = "count"
    /\ t.op = "count" => t.new \in {CountBatch, NoBatch}
    /\ \A r \in Rows : t.delta[r] # 0 => batch[r] # NoBatch
    /\ \A r \in Rows : t.delta[r] # 0 /\ t.base[r] + t.delta[r] < 0 =>
          t.op = "count" /\ batch[r] = CountBatch

\* A row that still has the version a request read has the quantity it read.
UpToDate(t) ==
    \A r \in Rows : t.delta[r] # 0 =>
        /\ t.ver[r] <= version[r]
        /\ t.ver[r] = version[r] => t.base[r] = qty[r]

\* The version of a row never goes back, so a version that was read and is
\* still there means that the row was not written in between.
VersionOnlyGrows == [][\A r \in Rows : version'[r] >= version[r]]_vars

StockInv ==
    /\ TypeOK
    /\ \A p \in Sessions : Sound(session[p])
    /\ NegativeWasCounted
    /\ "count" \notin Ops => NeverNegative

AdjustInv ==
    /\ \A p \in Sessions : UpToDate(session[p])
    /\ \A r \in Rows : batch[r] = NoBatch => version[r] = 0
    /\ NoLostUpdate

-----------------------------------------------------------------------------
(* What a request holds                                                    *)

\* A session without a request holds nothing.
LEMMA FreeType ==
    /\ Free \in Session
    /\ Free.pc = "idle" /\ Free.op = "none" /\ Free.arg = 0
    /\ \A r \in Rows : Free.delta[r] = 0
  <1>1. Nothing \in [Rows -> Int] /\ Nothing \in [Rows -> Nat] /\ \A r \in Rows : Nothing[r] = 0
    BY DEF Nothing
  <1>2. 1 \in 1..MAX_RETRIES /\ 0 \in -MaxQty..MaxQty
    BY BoundsAssumption DEF MAX_RETRIES
  <1> HIDE DEF Nothing
  <1>3. QED BY <1>1, <1>2 DEF Free, Session

\* The next attempt keeps the request and forgets what was read.
LEMMA NextAttemptType ==
    ASSUME NEW t, t.op \in ServiceNames, t.arg \in -MaxQty..MaxQty, t.batch \in Batches,
           t.attempt \in 1..MAX_RETRIES
    PROVE  /\ NextAttempt(t) \in Session
           /\ \A r \in Rows : NextAttempt(t).delta[r] = 0
           /\ \/ NextAttempt(t).pc = "idle" /\ NextAttempt(t).op = "none"
                 /\ NextAttempt(t).arg = 0
              \/ NextAttempt(t).op = t.op /\ NextAttempt(t).batch = t.batch
                 /\ NextAttempt(t).arg = t.arg
           /\ NextAttempt(t).new = NoBatch
  <1>1. Nothing \in [Rows -> Int] /\ Nothing \in [Rows -> Nat] /\ \A r \in Rows : Nothing[r] = 0
    BY DEF Nothing
  <1> HIDE DEF Nothing
  <1>2. CASE t.attempt < MAX_RETRIES
    <2>1. t.attempt + 1 \in 1..MAX_RETRIES
      BY <1>2 DEF MAX_RETRIES
    <2>2. QED BY <1>1, <1>2, <2>1 DEF NextAttempt, Session
  <1>3. CASE ~(t.attempt < MAX_RETRIES)
    <2>1. Free.new = NoBatch
      BY DEF Free
    <2>2. QED BY <1>3, <2>1, FreeType DEF NextAttempt
  <1>4. QED BY <1>2, <1>3

\* Rows are finitely many, so quantities can be summed over any of them.
LEMMA RowsFinite == ASSUME NEW S \in SUBSET Rows PROVE IsFiniteSet(S)
  <1>1. IsFiniteSet(Rows)
    BY BoundsAssumption, FS_Interval DEF Rows
  <1>2. QED BY <1>1, FS_Subset

\* Quantities that are not negative sum up to a natural number.
LEMMA TotalType ==
    ASSUME TypeOK, NEW S \in SUBSET Rows, \A r \in S : qty[r] >= 0
    PROVE  Total(S) \in Nat
  <1>1. \A r \in S : qty[r] \in Nat
    BY DEF TypeOK
  <1>2. QED BY <1>1, RowsFinite, SumNat DEF Total

\* The rows with stock that come before r.
Earlier(r) == {s \in PickBatches : Before(s, r)}

\* The rows that stock can be picked from are rows with stock.
LEMMA PickBatchesAre ==
    ASSUME TypeOK
    PROVE  /\ PickBatches \subseteq Existing /\ PickBatches \subseteq Rows
           /\ \A r \in PickBatches : qty[r] \in Nat /\ qty[r] > 0
  BY DEF TypeOK, PickBatches, Existing

\* pick_from_stock takes from a row what is still missing, or all of it.
LEMMA PickedIs ==
    ASSUME TypeOK, NEW q \in Nat, NEW r \in PickBatches
    PROVE  /\ Total(Earlier(r)) \in Nat /\ qty[r] \in Nat
           /\ Picked(q, r) \in 0..qty[r]
           /\ Total(Earlier(r)) >= q => Picked(q, r) = 0
           /\ Total(Earlier(r)) < q =>
                 Picked(q, r) = IF qty[r] < q - Total(Earlier(r)) THEN qty[r]
                                ELSE q - Total(Earlier(r))
  <1>1. Total(Earlier(r)) \in Nat
    <2>1. Earlier(r) \in SUBSET Rows /\ \A s \in Earlier(r) : qty[s] >= 0
      BY PickBatchesAre DEF Earlier
    <2>2. QED BY <2>1, TotalType
  <1>2. qty[r] \in Nat
    BY PickBatchesAre
  <1> DEFINE e == Total(Earlier(r))
  <1>3. Picked(q, r) = LET rest == IF e >= q THEN 0 ELSE q - e
                       IN  IF qty[r] < rest THEN qty[r] ELSE rest
    BY DEF Picked, Earlier
  <1> HIDE DEF e
  <1>4. QED BY <1>1, <1>2, <1>3 DEF e

\* The plan of a request on the rows it read.
LEMMA DeltaType ==
    ASSUME TypeOK, NegativeWasCounted, NEW op \in ServiceNames,
           NEW q \in -MaxQty..MaxQty, NEW b \in Batches,
           q < 0 => op = "count", Readable(op, q, b)
    PROVE  /\ Delta(op, q, b) \in [Rows -> Int]
           /\ \A r \in Rows : Delta(op, q, b)[r] # 0 =>
                 /\ batch[r] # NoBatch
                 /\ ~TooSmall(op, q) /\ qty[r] + Delta(op, q, b)[r] < 0 =>
                       op = "count" /\ batch[r] = CountBatch
  <1>1. q \in Int /\ b # NoBatch /\ b # CountBatch
    BY BoundsAssumption, BatchAssumption DEF NoBatch
  <1>2. \A r \in Rows : qty[r] \in Int /\ (qty[r] < 0 => batch[r] = CountBatch)
    BY DEF TypeOK, NegativeWasCounted
  <1>3. \A r \in Rows : IsFirst(r) => batch[r] # NoBatch
    BY DEF IsFirst, PickBatches, Existing
  <1>4. \A r \in Rows : /\ r \in RowsOf(b) => batch[r] # NoBatch
                        /\ r \in Existing => batch[r] # NoBatch
    BY <1>1 DEF RowsOf, Existing
  <1>5. CASE op = "in"
    BY <1>1, <1>2, <1>4, <1>5 DEF Delta, InDelta, RowsOf
  <1>6. CASE op = "out"
    BY <1>1, <1>2, <1>3, <1>6 DEF Delta, OutDelta, TooSmall
  <1>7. CASE op = "count"
    <2>1. \A r \in Existing : q < qty[r] => q >= 0
      BY <1>7 DEF Readable
    <2>2. QED BY <1>1, <1>2, <1>4, <1>7, <2>1 DEF Delta, CountDelta
  <1>8. CASE op = "pick"
    <2>1. \A r \in PickBatches : Picked(q, r) \in Int /\ Picked(q, r) <= qty[r]
      BY <1>1, <1>8, PickBatchesAre, PickedIs
    <2>2. QED BY <1>1, <1>2, <1>4, <1>8, <2>1, PickBatchesAre DEF Delta, PickDelta
  <1>9. QED BY <1>5, <1>6, <1>7, <1>8 DEF ServiceNames

\* What Load gives a request: nothing to write, or a plan for existing rows.
LEMMA LoadType ==
    ASSUME TypeOK, NegativeWasCounted, NEW op \in Ops,
           NEW q \in -MaxQty..MaxQty, NEW b \in Batches, NEW n \in 1..MAX_RETRIES,
           q < 0 => op = "count", Readable(op, q, b)
    PROVE  /\ Load(op, q, b, n) \in Session
           /\ Sound(Load(op, q, b, n))
           /\ UpToDate(Load(op, q, b, n))
  <1> DEFINE d == Delta(op, q, b)
             t == [pc |-> "loaded", op |-> op, arg |-> q, batch |-> b,
                   attempt |-> n, base |-> Seen(qty, d), ver |-> Seen(version, d),
                   delta |-> d, new |-> NewBatch(op, q, b)]
  <1>0. op \in ServiceNames
    BY OpsAssumption
  <1>1. /\ d \in [Rows -> Int]
        /\ \A r \in Rows : d[r] # 0 =>
              /\ batch[r] # NoBatch
              /\ ~TooSmall(op, q) /\ qty[r] + d[r] < 0 => op = "count" /\ batch[r] = CountBatch
    BY <1>0, DeltaType
  <1>2. qty \in [Rows -> Int] /\ version \in [Rows -> Nat]
    BY DEF TypeOK
  <1>3. /\ NewBatch(op, q, b) \in AnyBatch
        /\ op = "count" => NewBatch(op, q, b) \in {CountBatch, NoBatch}
    BY DEF NewBatch, AnyBatch
  <1>4. /\ t.op = op /\ t.arg = q /\ t.batch = b /\ t.attempt = n /\ t.delta = d
        /\ t.new = NewBatch(op, q, b)
    OBVIOUS
  <1>5. t.base = Seen(qty, d) /\ t.ver = Seen(version, d)
    OBVIOUS
  <1>6. Load(op, q, b, n) = IF TooSmall(op, q) THEN NextAttempt(t) ELSE t
    BY DEF Load
  <1> HIDE DEF d
  <1>7. /\ Seen(qty, d) \in [Rows -> Int] /\ Seen(version, d) \in [Rows -> Nat]
        /\ \A r \in Rows : d[r] # 0 => Seen(qty, d)[r] = qty[r] /\ Seen(version, d)[r] = version[r]
    BY <1>2 DEF Seen
  <1>8. t \in Session
    BY <1>0, <1>1, <1>3, <1>7 DEF Session, AnyBatch
  <1> HIDE DEF t
  <1>9. CASE TooSmall(op, q)
    <2> DEFINE u == NextAttempt(t)
    <2>1. /\ u \in Session /\ \A r \in Rows : u.delta[r] = 0
          /\ \/ u.pc = "idle" /\ u.op = "none" /\ u.arg = 0
             \/ u.op = op /\ u.batch = b /\ u.arg = q
          /\ u.new = NoBatch
      BY <1>0, <1>4, NextAttemptType
    <2> HIDE DEF u
    <2>2. Sound(u) /\ UpToDate(u)
      BY <2>1 DEF Sound, UpToDate
    <2>3. u = Load(op, q, b, n)
      BY <1>6, <1>9 DEF u
    <2>4. QED BY <2>1, <2>2, <2>3
  <1>10. CASE ~TooSmall(op, q)
    <2>1. Sound(t)
      BY <1>1, <1>3, <1>4, <1>5, <1>7, <1>10 DEF Sound
    <2>2. UpToDate(t)
      BY <1>2, <1>4, <1>5, <1>7 DEF UpToDate
    <2>3. QED BY <1>6, <1>8, <1>10, <2>1, <2>2
  <1>11. QED BY <1>9, <1>10

\* A step of p that writes no row replaces p's request.
LEMMA QuietRequest ==
    ASSUME StockInv, NEW p \in Sessions, NEW t \in Session, Sound(t),
           session' = [session EXCEPT ![p] = t], UNCHANGED <<batch, qty, version, moved>>
    PROVE  /\ StockInv'
           /\ AdjustInv /\ UpToDate(t) => AdjustInv'
  <1>1. session \in [Sessions -> Session] /\ session' \in [Sessions -> Session]
    BY DEF StockInv, TypeOK
  <1>2. \A s \in Sessions : session'[s] = IF s = p THEN t ELSE session[s]
    BY <1>1
  <1>3. TypeOK' /\ NegativeWasCounted' /\ ("count" \notin Ops => NeverNegative')
    BY <1>1 DEF StockInv, TypeOK, NeverNegative, NegativeWasCounted
  <1>4. \A s \in Sessions : Sound(session'[s])
    BY <1>2 DEF StockInv
  <1>5. \A s \in Sessions : Sound(session[s])'
    BY <1>4 DEF Sound
  <1>6. StockInv'
    BY <1>3, <1>5 DEF StockInv
  <1>7. ASSUME AdjustInv, UpToDate(t) PROVE AdjustInv'
    <2>1. \A s \in Sessions : UpToDate(session'[s])
      BY <1>2, <1>7 DEF AdjustInv
    <2>2. \A s \in Sessions : UpToDate(session[s])'
      BY <2>1 DEF UpToDate
    <2>3. QED BY <1>7, <2>2 DEF AdjustInv, NoLostUpdate
  <1>8. QED BY <1>6, <1>7

\* A session without a request is sound and up to date.
LEMMA FreeSound ==
    /\ Free \in Session
    /\ Sound(Free) /\ UpToDate(Free)
    /\ Sound(Free)' /\ UpToDate(Free)'
  <1> DEFINE t == Free
  <1>1. t \in Session /\ t.pc = "idle" /\ t.op = "none" /\ t.arg = 0
        /\ \A r \in Rows : t.delta[r] = 0
    BY FreeType
  <1> HIDE DEF t
  <1>2. Sound(t) /\ UpToDate(t)
    BY <1>1 DEF Sound, UpToDate
  <1>3. /\ \A r \in Rows : t.delta[r] # 0 => batch'[r] # NoBatch
        /\ \A r \in Rows : t.delta[r] # 0 /\ t.base[r] + t.delta[r] < 0 =>
              t.op = "count" /\ batch'[r] = CountBatch
        /\ \A r \in Rows : t.delta[r] # 0 =>
              /\ t.ver[r] <= version'[r]
              /\ t.ver[r] = version'[r] => t.base[r] = qty'[r]
    BY <1>1
  <1>4. QED BY <1>1, <1>2, <1>3 DEF t, Sound, UpToDate, Free

\* The commit of an update keeps the stock sound; with versioned updates only
\* it also keeps the ledger.
LEMMA CommitStep ==
    ASSUME StockInv, NEW p \in Sessions, Commit(p)
    PROVE  /\ StockInv'
           /\ AdjustInv /\ Ops \subseteq {"in", "out"} =>
                 AdjustInv' /\ \A r \in Rows : version'[r] >= version[r]
  <1> DEFINE t == session[p]
             written == {r \in Rows : t.delta[r] # 0}
  <1>1. t \in Session /\ Sound(t) /\ session \in [Sessions -> Session]
    BY DEF StockInv, TypeOK
  <1>2. /\ t.base \in [Rows -> Int] /\ t.ver \in [Rows -> Nat] /\ t.delta \in [Rows -> Int]
    BY <1>1 DEF Session
  <1>3. /\ batch \in [Rows -> Batches \union {CountBatch, NoBatch}] /\ qty \in [Rows -> Int]
        /\ version \in [Rows -> Nat] /\ moved \in [Rows -> Int]
    BY DEF StockInv, TypeOK
  <1>4. /\ t.pc = "loaded" /\ UNCHANGED batch
        /\ Optimistic(t.op) => Current(t)
    BY DEF Commit
  <1>5. /\ qty' = [r \in Rows |-> IF r \in written THEN t.base[r] + t.delta[r] ELSE qty[r]]
        /\ version' = [r \in Rows |-> IF r \in written /\ t.op # "count"
                                      THEN t.ver[r] + 1 ELSE version[r]]
        /\ moved' = [r \in Rows |-> moved[r] + t.delta[r]]
    BY DEF Commit
  <1>6. session' = [session EXCEPT ![p] = Free]
    BY DEF Commit
  <1>7. /\ \A r \in written : batch[r] # NoBatch
        /\ \A r \in written : t.base[r] + t.delta[r] < 0 =>
              t.op = "count" /\ t.op \in Ops /\ batch[r] = CountBatch
    BY <1>1, <1>4 DEF Sound
  <1> DEFINE done == Free
  <1>8. done \in Session /\ Sound(done)' /\ UpToDate(done)'
    BY FreeSound
  <1>9. \A s \in Sessions : session'[s] = IF s = p THEN done ELSE session[s]
    BY <1>1, <1>6
  <1> HIDE DEF t, done
  <1>10. qty' \in [Rows -> Int] /\ version' \in [Rows -> Nat] /\ moved' \in [Rows -> Int]
    BY <1>2, <1>3, <1>5
  <1>11. session' \in [Sessions -> Session]
    BY <1>1, <1>6, <1>8 DEF done
  <1>12. NegativeWasCounted' /\ ("count" \notin Ops => NeverNegative')
    BY <1>2, <1>3, <1>4, <1>5, <1>7 DEF StockInv, NegativeWasCounted, NeverNegative
  <1>13. \A s \in Sessions : Sound(session[s])'
    <2>1. \A s \in Sessions : Sound(session[s])
      BY DEF StockInv
    <2>2. ASSUME NEW s \in Sessions, s # p PROVE Sound(session[s])'
      BY <1>4, <1>9, <2>1, <2>2 DEF Sound
    <2>3. Sound(session[p])'
      BY <1>8, <1>9 DEF Sound, done, Free
    <2>4. QED BY <2>2, <2>3
  <1>14. StockInv'
    BY <1>3, <1>4, <1>10, <1>11, <1>12, <1>13 DEF StockInv, TypeOK
  <1>15. ASSUME AdjustInv, Ops \subseteq {"in", "out"}
         PROVE  AdjustInv' /\ \A r \in Rows : version'[r] >= version[r]
    <2>1. t.op \in {"in", "out"}
      BY <1>1, <1>4, <1>15 DEF Sound
    <2>2. Current(t) /\ t.op # "count"
      BY <1>4, <2>1 DEF Optimistic
    <2>3. \A r \in written : version[r] = t.ver[r] /\ t.base[r] = qty[r]
      <3>1. UpToDate(t)
        BY <1>15 DEF AdjustInv, t
      <3>2. QED BY <2>2, <3>1 DEF Current, UpToDate
    <2>4. \A r \in written : qty'[r] = qty[r] + t.delta[r] /\ version'[r] = version[r] + 1
      BY <1>5, <2>2, <2>3
    <2>5. \A r \in Rows : r \notin written => qty'[r] = qty[r] /\ version'[r] = version[r]
                                              /\ t.delta[r] = 0
      BY <1>5
    <2>6. NoLostUpdate'
      <3>1. \A r \in Rows : qty[r] = moved[r]
        BY <1>15 DEF AdjustInv, NoLostUpdate
      <3>2. \A r \in Rows : moved'[r] = moved[r] + t.delta[r]
        BY <1>5
      <3>3. \A r \in Rows : qty'[r] = moved'[r]
        BY <1>2, <1>3, <2>4, <2>5, <3>1, <3>2
      <3>4. QED BY <3>3 DEF NoLostUpdate
    <2>7. ASSUME NEW s \in Sessions PROVE UpToDate(session[s])'
      <3>1. CASE s # p
        <4>1. UpToDate(session[s]) /\ session'[s] = session[s] /\ session[s].ver \in [Rows -> Nat]
          BY <1>1, <1>9, <1>15, <3>1 DEF AdjustInv, Session
        <4>2. ASSUME NEW r \in Rows, session[s].delta[r] # 0
              PROVE  /\ session[s].ver[r] <= version'[r]
                     /\ session[s].ver[r] = version'[r] => session[s].base[r] = qty'[r]
          <5>1. /\ session[s].ver[r] \in Nat /\ version[r] \in Nat
                /\ session[s].ver[r] <= version[r]
                /\ session[s].ver[r] = version[r] => session[s].base[r] = qty[r]
            BY <1>3, <4>1, <4>2 DEF UpToDate
          <5>2. CASE r \in written
            BY <2>4, <5>1, <5>2
          <5>3. CASE r \notin written
            BY <2>5, <5>1, <5>3
          <5>4. QED BY <5>2, <5>3
        <4>3. QED BY <4>1, <4>2 DEF UpToDate
      <3>2. CASE s = p
        BY <1>8, <1>9, <3>2 DEF UpToDate, done, Free
      <3>3. QED BY <3>1, <3>2
    <2>8. \A r \in Rows : batch'[r] = NoBatch => version'[r] = 0
      BY <1>4, <1>7, <1>15, <2>5 DEF AdjustInv
    <2>9. \A r \in Rows : version'[r] >= version[r]
      BY <1>3, <2>4, <2>5
    <2>10. QED BY <2>6, <2>7, <2>8, <2>9 DEF AdjustInv
  <1>16. QED BY <1>14, <1>15

\* The insert of a row keeps the stock sound and the ledger: no request has
\* read the row that is created.
LEMMA InsertStep ==
    ASSUME StockInv, NEW p \in Sessions, NEW x \in Rows, Insert(p, x)
    PROVE  /\ StockInv'
           /\ AdjustInv => AdjustInv' /\ \A r \in Rows : version'[r] >= version[r]
  <1> DEFINE t == session[p]
             done == Free
  <1>1. t \in Session /\ Sound(t) /\ session \in [Sessions -> Session]
    BY DEF StockInv, TypeOK
  <1>2. t.new \in AnyBatch /\ t.arg \in Int
    BY <1>1, BoundsAssumption DEF Session, AnyBatch
  <1>3. /\ batch \in [Rows -> AnyBatch] /\ qty \in [Rows -> Int]
        /\ version \in [Rows -> Nat] /\ moved \in [Rows -> Int]
    BY DEF StockInv, TypeOK, AnyBatch
  <1>4. /\ batch[x] = NoBatch /\ t.new # NoBatch
        /\ t.arg < 0 => t.op \in Ops /\ t.op = "count" /\ t.new = CountBatch
    BY <1>1 DEF Insert, Sound
  <1>5. /\ batch' = [batch EXCEPT ![x] = t.new] /\ qty' = [qty EXCEPT ![x] = t.arg]
        /\ version' = [version EXCEPT ![x] = 0] /\ moved' = [moved EXCEPT ![x] = t.arg]
        /\ session' = [session EXCEPT ![p] = done]
    BY DEF Insert
  <1>6. done \in Session /\ Sound(done)' /\ UpToDate(done)'
    BY FreeSound
  <1>7. \A s \in Sessions : session'[s] = IF s = p THEN done ELSE session[s]
    BY <1>1, <1>5
  <1>8. \A s \in Sessions : Sound(session[s]) /\ session[s].delta[x] = 0
    BY <1>4 DEF StockInv, Sound
  <1> HIDE DEF t, done
  <1>9. \A r \in Rows : r # x => /\ batch'[r] = batch[r] /\ qty'[r] = qty[r]
                                 /\ version'[r] = version[r] /\ moved'[r] = moved[r]
    BY <1>3, <1>5
  <1>10. batch'[x] = t.new /\ qty'[x] = t.arg /\ version'[x] = 0 /\ moved'[x] = t.arg
    BY <1>3, <1>5
  <1>11. TypeOK'
    BY <1>1, <1>2, <1>3, <1>5, <1>6 DEF TypeOK, AnyBatch
  <1>12. NegativeWasCounted' /\ ("count" \notin Ops => NeverNegative')
    BY <1>2, <1>3, <1>4, <1>9, <1>10 DEF StockInv, NegativeWasCounted, NeverNegative
  <1>13. ASSUME NEW s \in Sessions PROVE Sound(session[s])'
    <2>1. CASE s # p
      BY <1>4, <1>7, <1>8, <1>9, <1>10, <2>1 DEF Sound
    <2>2. CASE s = p
      BY <1>6, <1>7, <2>2 DEF Sound, done, Free
    <2>3. QED BY <2>1, <2>2
  <1>14. StockInv'
    BY <1>11, <1>12, <1>13 DEF StockInv
  <1>15. ASSUME AdjustInv PROVE AdjustInv' /\ \A r \in Rows : version'[r] >= version[r]
    <2>1. version[x] = 0
      BY <1>4, <1>15 DEF AdjustInv
    <2>2. ASSUME NEW s \in Sessions PROVE UpToDate(session[s])'
      <3>1. CASE s # p
        BY <1>7, <1>8, <1>9, <1>15, <3>1 DEF AdjustInv, UpToDate
      <3>2. CASE s = p
        BY <1>6, <1>7, <3>2 DEF UpToDate, done, Free
      <3>3. QED BY <3>1, <3>2
    <2>3. NoLostUpdate'
      BY <1>9, <1>10, <1>15 DEF AdjustInv, NoLostUpdate
    <2>4. \A r \in Rows : batch'[r] = NoBatch => version'[r] = 0
      BY <1>4, <1>9, <1>10, <1>15 DEF AdjustInv
    <2>5. \A r \in Rows : version'[r] >= version[r]
      BY <1>3, <1>9, <1>10, <2>1
    <2>6. QED BY <2>2, <2>3, <2>4, <2>5 DEF AdjustInv
  <1>16. QED BY <1>14, <1>15

\* Every step keeps the stock sound; with versioned updates only, the ledger
\* too, and no version goes back.
LEMMA StockStep ==
    ASSUME StockInv, Next
    PROVE  /\ StockInv'
           /\ AdjustInv /\ Ops \subseteq {"in", "out"} =>
                 AdjustInv' /\ \A r \in Rows : version'[r] >= version[r]
  <1> DEFINE Goal == /\ StockInv'
                     /\ AdjustInv /\ Ops \subseteq {"in", "out"} =>
                           AdjustInv' /\ \A r \in Rows : version'[r] >= version[r]
  <1>a. TypeOK /\ NegativeWasCounted /\ version \in [Rows -> Nat]
    BY DEF StockInv, TypeOK
  <1>b. ASSUME NEW p \in Sessions, NEW t \in Session, Sound(t), UpToDate(t),
               session' = [session EXCEPT ![p] = t],
               UNCHANGED <<batch, qty, version, moved>>
        PROVE  Goal
    <2>1. StockInv' /\ (AdjustInv => AdjustInv')
      BY <1>b, QuietRequest
    <2>2. \A r \in Rows : version'[r] >= version[r]
      BY <1>a, <1>b
    <2>3. QED BY <2>1, <2>2
  <1>c. ASSUME NEW p \in Sessions, session[p].pc # "idle"
        PROVE  /\ session[p].op \in Ops /\ session[p].op \in ServiceNames
               /\ session[p].batch \in Batches /\ session[p].arg \in -MaxQty..MaxQty
               /\ session[p].attempt \in 1..MAX_RETRIES
               /\ session[p].arg < 0 => session[p].op = "count"
    <2>1. Sound(session[p]) /\ session[p] \in Session
      BY DEF StockInv, TypeOK
    <2>2. /\ session[p].op \in Ops /\ session[p].batch \in Batches
          /\ session[p].arg < 0 => session[p].op = "count"
      BY <1>c, <2>1 DEF Sound
    <2>3. session[p].arg \in -MaxQty..MaxQty /\ session[p].attempt \in 1..MAX_RETRIES
      BY <2>1 DEF Session
    <2>4. QED BY <2>2, <2>3, OpsAssumption
  <1>1. ASSUME NEW p \in Sessions, NEW op \in ServiceNames, NEW q \in -MaxQty..MaxQty,
               NEW b \in Batches, Begin(p, op, q, b)
        PROVE  Goal
    <2>1. /\ op \in Ops /\ 1 \in 1..MAX_RETRIES
          /\ q < 0 => op = "count"
          /\ Readable(op, q, b)
      BY <1>1, BoundsAssumption DEF Begin, MAX_RETRIES
    <2>2. LET t == Load(op, q, b, 1) IN t \in Session /\ Sound(t) /\ UpToDate(t)
      BY <1>a, <2>1, LoadType
    <2>3. /\ session' = [session EXCEPT ![p] = Load(op, q, b, 1)]
          /\ UNCHANGED <<batch, qty, version, moved>>
      BY <1>1 DEF Begin
    <2>4. QED BY <1>b, <2>2, <2>3
  <1>2. ASSUME NEW p \in Sessions, ReadAgain(p) PROVE Goal
    <2> DEFINE t == session[p]
               u == Load(t.op, t.arg, t.batch, t.attempt)
    <2>1. t.pc # "idle" /\ Readable(t.op, t.arg, t.batch)
      BY <1>2 DEF ReadAgain
    <2>2. u \in Session /\ Sound(u) /\ UpToDate(u)
      BY <1>a, <1>c, <2>1, LoadType
    <2>3. session' = [session EXCEPT ![p] = u] /\ UNCHANGED <<batch, qty, version, moved>>
      BY <1>2 DEF ReadAgain
    <2> HIDE DEF u
    <2>4. QED BY <1>b, <2>2, <2>3
  <1>3. ASSUME NEW p \in Sessions, Commit(p) PROVE Goal
    BY <1>3, CommitStep
  <1>4. ASSUME NEW p \in Sessions, NEW r \in Rows, Insert(p, r) PROVE Goal
    BY <1>4, InsertStep
  <1>5. ASSUME NEW p \in Sessions, Retry(p) PROVE Goal
    <2> DEFINE t == session[p]
               u == NextAttempt(t)
    <2>1. t.pc # "idle"
      BY <1>5 DEF Retry
    <2>2. /\ u \in Session /\ \A r \in Rows : u.delta[r] = 0
          /\ \/ u.pc = "idle" /\ u.op = "none" /\ u.arg = 0
             \/ u.op = t.op /\ u.batch = t.batch /\ u.arg = t.arg
          /\ u.new = NoBatch
      BY <1>c, <2>1, NextAttemptType
    <2>3. session' = [session EXCEPT ![p] = u] /\ UNCHANGED <<batch, qty, version, moved>>
      BY <1>5 DEF Retry
    <2> HIDE DEF u
    <2>4. Sound(u) /\ UpToDate(u)
      BY <1>c, <2>1, <2>2 DEF Sound, UpToDate
    <2>5. QED BY <1>b, <2>2, <2>3, <2>4
  <1>6. ASSUME NEW p \in Sessions, Fail(p) PROVE Goal
    <2> DEFINE u == Free
    <2>1. session' = [session EXCEPT ![p] = u] /\ UNCHANGED <<batch, qty, version, moved>>
      BY <1>6 DEF Fail
    <2>2. u \in Session /\ Sound(u) /\ UpToDate(u)
      BY FreeSound
    <2> HIDE DEF u
    <2>3. QED BY <1>b, <2>1, <2>2
  <1>7. QED BY <1>1, <1>2, <1>3, <1>4, <1>5, <1>6 DEF Next

-----------------------------------------------------------------------------
(* The theorems                                                            *)

\* The empty store satisfies both invariants.
LEMMA StockInit == Init => StockInv /\ AdjustInv
  <1> SUFFICES ASSUME Init PROVE StockInv /\ AdjustInv
    OBVIOUS
  <1> DEFINE t == Free
  <1>1. t \in Session /\ Sound(t) /\ UpToDate(t)
    BY FreeSound
  <1> HIDE DEF t
  <1>2. /\ batch \in [Rows -> Batches \union {CountBatch, NoBatch}] /\ qty \in [Rows -> Int]
        /\ version \in [Rows -> Nat] /\ moved \in [Rows -> Int]
        /\ \A r \in Rows : qty[r] = 0 /\ moved[r] = 0 /\ version[r] = 0
    BY DEF Init, Nothing
  <1>3. session = [p \in Sessions |-> t]
    BY DEF Init, t
  <1>4. TypeOK /\ NeverNegative /\ NegativeWasCounted /\ NoLostUpdate
    BY <1>1, <1>2, <1>3 DEF TypeOK, NeverNegative, NegativeWasCounted, NoLostUpdate
  <1>5. QED BY <1>1, <1>2, <1>3, <1>4 DEF StockInv, AdjustInv

\* Every step keeps stock and requests sound.
LEMMA StockKept == StockInv /\ [Next]_vars => StockInv'
  <1>1. CASE Next
    BY <1>1, StockStep
  <1>2. CASE UNCHANGED vars
    BY <1>2 DEF vars, StockInv, TypeOK, Sound, NeverNegative, NegativeWasCounted
  <1>3. QED BY <1>1, <1>2

\* Rows and requests keep their types, whichever services are in use.
THEOREM StockTypes == Spec => []TypeOK
  <1>1. StockInv => TypeOK
    BY DEF StockInv
  <1>2. QED BY <1>1, StockInit, StockKept, PTL DEF Spec

\* Negative stock comes from a stock count of a SKU without a row and from
\* nothing else, for any number of requests: although adjust_stock_count and
\* pick_from_stock write quantities by primary key alone, computed from rows that
\* may have changed since, a row that was received never falls below zero.
THEOREM NegativeStockWasCounted == Spec => []NegativeWasCounted
  <1>1. StockInv => NegativeWasCounted
    BY DEF StockInv
  <1>2. QED BY <1>1, StockInit, StockKept, PTL DEF Spec

\* Where no stock is counted, none is ever negative: adjust_inventory and
\* pick_from_stock, however they race, take out no more than there is.
THEOREM StockNeverNegative ==
    ASSUME "count" \notin Ops PROVE Spec => []NeverNegative
  <1>1. StockInv => NeverNegative
    BY DEF StockInv
  <1>2. QED BY <1>1, StockInit, StockKept, PTL DEF Spec

\* When adjust_inventory is the only writer, its versioned UPDATE loses no
\* movement, for any number of concurrent requests, and versions only grow.
THEOREM AdjustLosesNothing ==
    ASSUME Ops \subseteq {"in", "out"} PROVE Spec => []NoLostUpdate /\ VersionOnlyGrows
  <1>1. StockInv /\ AdjustInv /\ [Next]_vars =>
           /\ StockInv' /\ AdjustInv'
           /\ [\A r \in Rows : version'[r] >= version[r]]_vars
    <2>1. CASE Next
      BY <2>1, StockStep
    <2>2. CASE UNCHANGED vars
      BY <2>2 DEF vars, StockInv, AdjustInv, TypeOK, Sound, UpToDate, NeverNegative,
                      NegativeWasCounted, NoLostUpdate
    <2>3. QED BY <2>1, <2>2
  <1>2. AdjustInv => NoLostUpdate
    BY DEF AdjustInv
  <1>3. QED BY <1>1, <1>2, StockInit, PTL DEF Spec, VersionOnlyGrows
-----------------------------------------------------------------------------
(* First expiry first out                                                  *)

\* Batches are numbered in the order of their expiry.
LEMMA BatchNumbers == ASSUME TypeOK PROVE \A r \in Rows : batch[r] \in Nat
  <1>1. \A b \in AnyBatch : b \in Nat
    BY BatchAssumption DEF AnyBatch, NoBatch
  <1>2. batch \in [Rows -> AnyBatch]
    BY DEF TypeOK, AnyBatch
  <1>3. QED BY <1>1, <1>2

\* Before orders the rows.
LEMMA BeforeIsAnOrder ==
    ASSUME TypeOK
    PROVE  /\ \A r \in Rows : ~Before(r, r)
           /\ \A r, s \in Rows : r = s \/ Before(r, s) \/ Before(s, r)
           /\ \A r, s, t \in Rows : Before(r, s) /\ Before(s, t) => Before(r, t)
  <1>1. \A r \in Rows : batch[r] \in Nat /\ r \in Nat
    BY BatchNumbers, BoundsAssumption DEF Rows
  <1>2. QED BY <1>1 DEF Before

\* Of some rows one is the last.
LEMMA LastRow ==
    ASSUME TypeOK, NEW D \in SUBSET Rows, D # {}
    PROVE  \E m \in D : \A s \in D : s = m \/ Before(s, m)
  <1> DEFINE Behind(m) == {s \in D : Before(m, s)}
             C == {Behind(m) : m \in D}
  <1>1. C # {} /\ \A S \in C : S \in SUBSET Rows
    OBVIOUS
  <1>2. \A S \in C : IsFiniteSet(S)
    BY <1>1, RowsFinite
  <1>3. PICK S \in C : \A T \in C : Cardinality(S) <= Cardinality(T)
    <2> HIDE DEF C
    <2>1. QED BY <1>1, <1>2, SmallestSet
  <1>4. PICK m \in D : S = Behind(m)
    OBVIOUS
  <1>5. ASSUME NEW s \in Behind(m) PROVE FALSE
    <2>1. s \in D /\ Before(m, s)
      OBVIOUS
    <2>2. Behind(s) \subseteq Behind(m) \ {s}
      BY <2>1, BeforeIsAnOrder
    <2>3. Behind(s) \in C
      BY <2>1
    <2>4. IsFiniteSet(S) /\ s \in S /\ Behind(s) \subseteq S \ {s}
      BY <1>2, <1>4, <2>2
    <2>5. Cardinality(S) <= Cardinality(Behind(s))
      BY <1>3, <2>3
    <2> HIDE DEF Behind, C
    <2>6. /\ IsFiniteSet(S \ {s}) /\ Cardinality(S \ {s}) = Cardinality(S) - 1
          /\ Cardinality(S) \in Nat
      BY <2>4, FS_RemoveElement, FS_CardinalityType
    <2>7. Cardinality(Behind(s)) <= Cardinality(S \ {s}) /\ Cardinality(Behind(s)) \in Nat
      BY <2>4, <2>6, FS_Subset, FS_CardinalityType
    <2>8. QED BY <2>5, <2>6, <2>7
  <1>6. QED BY <1>4, <1>5, BeforeIsAnOrder

\* The rows of D come before all the others.
Leading(D) == \A r \in D, s \in PickBatches : Before(s, r) => s \in D

Least(x, y) == IF x < y THEN x ELSE y

\* The plan of pick_from_stock takes what it is asked for from the rows that
\* come first, as far as they have it.
LEMMA PickTakesAll ==
    ASSUME TypeOK, NEW q \in Nat,
           NEW E \in SUBSET PickBatches, Leading(E)
    PROVE  SumFunctionOnSet(PickDelta(q), E) = -Least(Total(E), q)
  <1> DEFINE d == PickDelta(q)
             Sum(D) == SumFunctionOnSet(d, D)
             C == {D \in SUBSET E : Leading(D) /\ Sum(D) # -Least(Total(D), q)}
  <1>1. /\ d \in [Rows -> Int]
        /\ \A r \in PickBatches : d[r] = -Picked(q, r)
        /\ PickBatches \subseteq Rows
    BY PickedIs, PickBatchesAre DEF PickDelta
  <1> SUFFICES ASSUME C # {} PROVE FALSE
    OBVIOUS
  <1>2. PICK D \in C : \A T \in C : Cardinality(D) <= Cardinality(T)
    <2>1. \A T \in C : IsFiniteSet(T)
      BY <1>1, RowsFinite
    <2> HIDE DEF C
    <2>2. QED BY <2>1, SmallestSet
  <1>3. /\ D \in SUBSET E /\ Leading(D) /\ Sum(D) # -Least(Total(D), q)
        /\ D \in SUBSET Rows /\ IsFiniteSet(D)
    BY <1>1, RowsFinite
  <1>4. D # {}
    <2>1. Sum({}) = 0 /\ Total({}) = 0
      BY SumEmpty DEF Total
    <2> DEFINE z == Least(Total({}), q)
    <2>2. z = 0
      BY <2>1 DEF Least
    <2> HIDE DEF z, C
    <2>3. z \in Int => -z = 0 - z
      OBVIOUS
    <2>4. Sum({}) = -z
      BY <2>1, <2>2, <2>3
    <2>5. QED BY <1>3, <2>4 DEF z
  <1>5. PICK m \in D : \A s \in D : s = m \/ Before(s, m)
    BY <1>3, <1>4, LastRow
  <1> DEFINE R == D \ {m}
  <1>6. Earlier(m) = R
    BY <1>1, <1>3, <1>5, BeforeIsAnOrder DEF Earlier, Leading
  <1>7. Leading(R)
    <2> SUFFICES ASSUME NEW r \in R, NEW s \in PickBatches, Before(s, r) PROVE s \in R
      BY DEF Leading
    <2>1. s \in D
      BY <1>3 DEF Leading
    <2>2. Before(r, m) /\ r \in Rows /\ m \in Rows
      BY <1>3, <1>5
    <2>3. s # m
      BY <2>2, BeforeIsAnOrder
    <2>4. QED BY <2>1, <2>3
  <1>8. R \notin C
    <2>1. Cardinality(R) = Cardinality(D) - 1 /\ Cardinality(D) \in Nat
      BY <1>3, FS_RemoveElement, FS_CardinalityType
    <2> HIDE DEF C, R
    <2>2. QED BY <1>2, <2>1
  <1>9. Sum(R) = -Least(Total(R), q)
    BY <1>3, <1>7, <1>8
  <1>10. \A r \in D : d[r] \in Int /\ qty[r] \in Int
    BY <1>1, <1>3 DEF TypeOK
  <1>11. Total(D) = qty[m] + Total(R)
    BY <1>3, <1>10, SumRemove DEF Total
  <1>12. Sum(D) = d[m] + Sum(R)
    <2> HIDE DEF d
    <2>1. QED BY <1>3, <1>10, SumRemove
  <1>13. d[m] = -Picked(q, m) /\ m \in PickBatches
    BY <1>1, <1>3
  <1>14. /\ Total(R) \in Nat /\ qty[m] \in Nat /\ Picked(q, m) \in Int
         /\ Total(R) >= q => Picked(q, m) = 0
         /\ Total(R) < q => Picked(q, m) = IF qty[m] < q - Total(R) THEN qty[m]
                                            ELSE q - Total(R)
    <2> HIDE DEF C, R
    <2>1. m \in PickBatches /\ Earlier(m) = R
      BY <1>6, <1>13
    <2>2. QED BY <2>1, PickedIs
  <1> HIDE DEF d, R, Sum
  <1>15. Sum(D) = -Least(Total(D), q)
    BY <1>9, <1>11, <1>12, <1>13, <1>14 DEF Least
  <1>16. QED BY <1>3, <1>15

\* It takes something from a row only if it empties the rows before it.
LEMMA PickInOrder ==
    ASSUME TypeOK, NEW q \in Nat, NEW r \in PickBatches, NEW s \in PickBatches,
           Before(r, s), Picked(q, s) # 0
    PROVE  Picked(q, r) = qty[r]
  <1>1. r \in Rows /\ s \in Rows
    BY PickBatchesAre
  <1> DEFINE e(x) == Total(Earlier(x))
  <1>2. e(s) < q
    BY <1>1, PickedIs
  <1>3. r \notin Earlier(r) /\ Earlier(r) \union {r} \subseteq Earlier(s)
    BY <1>1, BeforeIsAnOrder, PickBatchesAre DEF Earlier
  <1>4. Earlier(s) \in SUBSET PickBatches /\ Earlier(r) \in SUBSET PickBatches
    BY DEF Earlier
  <1>5. \A x \in PickBatches : x \in Rows /\ qty[x] \in Nat
    BY PickBatchesAre
  <1>6. Total(Earlier(r) \union {r}) = qty[r] + Total(Earlier(r))
    <2>1. IsFiniteSet(Earlier(r)) /\ \A y \in Earlier(r) \union {r} : qty[y] \in Int
      BY <1>1, <1>4, <1>5, RowsFinite
    <2>2. QED BY <1>3, <2>1, SumAdd DEF Total
  <1>7. Total(Earlier(r) \union {r}) <= Total(Earlier(s))
    <2>1. IsFiniteSet(Earlier(s)) /\ \A y \in Earlier(s) : qty[y] \in Nat
      BY <1>4, <1>5, RowsFinite
    <2>2. QED BY <1>3, <2>1, SumSubset DEF Total
  <1>8. qty[r] \in Nat /\ Total(Earlier(r)) \in Nat /\ Total(Earlier(s)) \in Nat
    BY <1>1, PickedIs
  <1>9. Total(Earlier(r)) < q /\ qty[r] < q - Total(Earlier(r))
    BY <1>2, <1>6, <1>7, <1>8
  <1>10. QED BY <1>1, <1>9, PickedIs

\* Sound stock is taken out first expiry first out.
LEMMA StockIsFefo == ASSUME TypeOK PROVE FefoOrder
  <1> DEFINE Ordered(d) == \A r, s \in Existing :
                              batch[r] < batch[s] /\ d[s] # 0 => qty[r] + d[r] <= 0
  <1> SUFFICES ASSUME NEW q \in 1..MaxQty
               PROVE  /\ Ordered(OutDelta(q))
                      /\ Ordered(PickDelta(q))
                      /\ SumFunctionOnSet(PickDelta(q), Rows)
                           = IF Total(PickBatches) < q THEN -Total(PickBatches) ELSE -q
    BY DEF FefoOrder
  <1>1. q \in Nat
    OBVIOUS
  <1>2. \A r \in Existing : r \in Rows /\ qty[r] \in Int /\ batch[r] \in Nat
    BY BatchNumbers DEF Existing, TypeOK
  <1>3. Ordered(OutDelta(q))
    <2> SUFFICES ASSUME NEW r \in Existing, NEW s \in Existing, batch[r] < batch[s],
                        OutDelta(q)[s] # 0
                 PROVE  qty[r] + OutDelta(q)[r] <= 0
      OBVIOUS
    <2>1. IsFirst(s)
      BY <1>2 DEF OutDelta
    <2>2. r \notin PickBatches
      BY <1>2, <2>1 DEF IsFirst, Before
    <2>3. qty[r] <= 0 /\ ~IsFirst(r)
      BY <1>2, <2>2 DEF PickBatches, IsFirst
    <2>4. QED BY <1>2, <2>3 DEF OutDelta
  <1>4. /\ \A r \in PickBatches : PickDelta(q)[r] = -Picked(q, r) /\ Picked(q, r) \in Int
        /\ \A r \in Rows : r \notin PickBatches => PickDelta(q)[r] = 0
    BY <1>1, PickedIs, PickBatchesAre DEF PickDelta
  <1>5. Ordered(PickDelta(q))
    <2> SUFFICES ASSUME NEW r \in Existing, NEW s \in Existing, batch[r] < batch[s],
                        PickDelta(q)[s] # 0
                 PROVE  qty[r] + PickDelta(q)[r] <= 0
      OBVIOUS
    <2>1. s \in PickBatches /\ Picked(q, s) # 0 /\ Before(r, s)
      BY <1>2, <1>4 DEF Before
    <2>2. CASE r \in PickBatches
      <3>1. Picked(q, r) = qty[r]
        BY <1>1, <2>1, <2>2, PickInOrder
      <3>2. QED BY <1>2, <1>4, <2>2, <3>1
    <2>3. CASE r \notin PickBatches
      BY <1>2, <1>4, <2>3 DEF PickBatches
    <2>4. QED BY <2>2, <2>3
  <1>6. SumFunctionOnSet(PickDelta(q), Rows) = -Least(Total(PickBatches), q)
    <2> DEFINE d == PickDelta(q)
               P == PickBatches
               Rest == Rows \ P
    <2>1. SumFunctionOnSet(d, P) = -Least(Total(P), q)
      BY <1>1, PickTakesAll DEF Leading
    <2>2. P \in SUBSET Rows /\ Rest \in SUBSET Rows
      BY PickBatchesAre
    <2>3. \A r \in Rest : d[r] = 0
      BY <1>4
    <2>4. \A r \in P : d[r] \in Int
      BY <1>4
    <2>5. P \union Rest = Rows /\ P \intersect Rest = {}
      BY <2>2
    <2>6. IsFiniteSet(P) /\ IsFiniteSet(Rest)
      BY <2>2, RowsFinite
    <2>7. \A r \in P \union Rest : d[r] \in Int
      BY <2>3, <2>4
    <2> HIDE DEF d, P, Rest
    <2>8. SumFunctionOnSet(d, Rest) = 0
      BY <2>3, <2>6, SumZero
    <2>9. SumFunctionOnSet(d, P \union Rest)
            = SumFunctionOnSet(d, P) + SumFunctionOnSet(d, Rest)
      BY <2>5, <2>6, <2>7, SumUnion
    <2>10. SumFunctionOnSet(d, P) \in Int
      BY <2>4, <2>6, SumType
    <2>11. SumFunctionOnSet(d, Rows) = -Least(Total(P), q)
      BY <2>1, <2>5, <2>8, <2>9, <2>10
    <2>12. QED BY <2>11 DEF d, P
  <1>7. QED BY <1>3, <1>5, <1>6 DEF Least

\* Whatever racing requests have left in the rows, adjust_inventory and
\* pick_from_stock plan to take stock out first expiry first out, and
\* pick_from_stock plans to take all it was asked for or all there is: for any
\* number of rows, batches and requests.
THEOREM StockGoesOutFefo == Spec => []FefoOrder
  <1>1. StockInv => FefoOrder
    BY StockIsFefo DEF StockInv
  <1>2. QED BY <1>1, StockInit, StockKept, PTL DEF Spec
-----------------------------------------------------------------------------
(* Duplicate rows of a batch, and the ledger                               *)

BatchNos == Batches \union {CountBatch}

\* A request of adjust_inventory writes one row, by no more than it asks for.
OneRow(t) ==
    t.op \in {"in", "out"} =>
        /\ t.arg > 0
        /\ \A r, s \in Rows : t.delta[r] # 0 /\ t.delta[s] # 0 => r = s
        /\ \A r \in Rows : t.delta[r] \in -MaxQty..MaxQty

\* The requests that are going to INSERT a row of batch b.
Adding(b) == {p \in Sessions : session[p].new = b}

\* A request that found a row of a batch inserts none, so the rows of a batch and
\* the inserts still to come are as many as the requests at most.
RaceInv ==
    /\ \A p \in Sessions : OneRow(session[p])
    /\ \A b \in BatchNos : RowsOf(b) # {} =>
          Cardinality(RowsOf(b)) + Cardinality(Adding(b)) <= Cardinality(Sessions)

\* Of a set of one element at most.
LEMMA AtMostOne ==
    ASSUME NEW S, IsFiniteSet(S), Cardinality(S) <= 1, NEW x \in S, NEW y \in S
    PROVE  x = y
  <1>1. /\ IsFiniteSet(S \ {x}) /\ Cardinality(S \ {x}) = Cardinality(S) - 1
        /\ Cardinality(S) \in Nat
    BY FS_RemoveElement, FS_CardinalityType
  <1>2. Cardinality(S \ {x}) = 0
    BY <1>1, FS_CardinalityType
  <1>3. S \ {x} = {}
    BY <1>1, <1>2, FS_EmptySet
  <1>4. QED BY <1>3

\* A set that lost nothing but x, and one that gained nothing but x.
LEMMA OneLess ==
    ASSUME NEW S, IsFiniteSet(S), NEW x \in S
    PROVE  Cardinality(S) \in Nat /\ Cardinality(S \ {x}) = Cardinality(S) - 1
  BY FS_RemoveElement, FS_CardinalityType

\* What a request plans to write and to insert when its reads raise nothing.
LEMMA LoadFresh ==
    ASSUME TypeOK, NEW op \in ServiceNames, NEW q \in -MaxQty..MaxQty,
           NEW b \in Batches, NEW n \in 1..MAX_RETRIES,
           Readable(op, q, b), op \in {"in", "out"} => q > 0
    PROVE  /\ OneRow(Load(op, q, b, n))
           /\ Load(op, q, b, n).new \in BatchNos => RowsOf(Load(op, q, b, n).new) = {}
  <1> DEFINE d == Delta(op, q, b)
             t == [pc |-> "loaded", op |-> op, arg |-> q, batch |-> b,
                   attempt |-> n, base |-> Seen(qty, d), ver |-> Seen(version, d),
                   delta |-> d, new |-> NewBatch(op, q, b)]
  <1>0. NoBatch \notin BatchNos /\ q \in Int /\ MaxQty \in Nat /\ q <= MaxQty /\ -MaxQty <= q
    BY BatchAssumption, BoundsAssumption DEF BatchNos, NoBatch
  <1>1. /\ t.op = op /\ t.arg = q /\ t.batch = b /\ t.attempt = n /\ t.delta = d
        /\ t.new = NewBatch(op, q, b)
    OBVIOUS
  <1>2. Load(op, q, b, n) = IF TooSmall(op, q) THEN NextAttempt(t) ELSE t
    BY DEF Load
  <1>3. op = "in" => \A r, s \in Rows : d[r] # 0 /\ d[s] # 0 => r = s
    <2> SUFFICES ASSUME op = "in", NEW r \in Rows, NEW s \in Rows, d[r] # 0, d[s] # 0
                 PROVE  r = s
      OBVIOUS
    <2>1. r \in RowsOf(b) /\ s \in RowsOf(b)
      BY DEF Delta, InDelta
    <2>2. Cardinality(RowsOf(b)) <= 1
      BY DEF Readable
    <2>3. RowsOf(b) \in SUBSET Rows
      BY DEF RowsOf
    <2>4. QED BY <2>1, <2>2, <2>3, RowsFinite, AtMostOne
  <1>4. op = "out" => \A r, s \in Rows : d[r] # 0 /\ d[s] # 0 => r = s
    <2> SUFFICES ASSUME op = "out", NEW r \in Rows, NEW s \in Rows, d[r] # 0, d[s] # 0
                 PROVE  r = s
      OBVIOUS
    <2>1. IsFirst(r) /\ IsFirst(s)
      BY DEF Delta, OutDelta
    <2>2. r = s \/ (Before(r, s) /\ Before(s, r))
      BY <2>1 DEF IsFirst
    <2>3. QED BY <2>2, BeforeIsAnOrder
  <1>5. op \in {"in", "out"} => \A r \in Rows : d[r] \in -MaxQty..MaxQty
    BY <1>0 DEF Delta, InDelta, OutDelta
  <1>6. NewBatch(op, q, b) \in BatchNos => RowsOf(NewBatch(op, q, b)) = {}
    <2>1. Existing = {} => RowsOf(CountBatch) = {}
      BY <1>0 DEF Existing, RowsOf, BatchNos
    <2>2. QED BY <1>0, <2>1 DEF NewBatch
  <1> HIDE DEF d, t
  <1>7. CASE TooSmall(op, q)
    <2> DEFINE u == NextAttempt(t)
    <2>1. /\ \A r \in Rows : u.delta[r] = 0
          /\ (u.pc = "idle" /\ u.op = "none") \/ (u.op = op /\ u.batch = b /\ u.arg = q)
      BY <1>1, NextAttemptType
    <2>2. u.new = NoBatch /\ (u.op # "none" => u.arg = q)
      BY <1>1 DEF NextAttempt, Free
    <2>3. u = Load(op, q, b, n)
      BY <1>2, <1>7
    <2> HIDE DEF u
    <2>4. OneRow(u)
      BY <1>0, <2>1, <2>2 DEF OneRow
    <2>5. QED BY <1>0, <2>2, <2>3, <2>4
  <1>8. CASE ~TooSmall(op, q)
    <2>1. OneRow(t)
      BY <1>1, <1>3, <1>4, <1>5 DEF OneRow
    <2>2. QED BY <1>1, <1>2, <1>6, <1>8, <2>1
  <1>9. QED BY <1>7, <1>8

\* The set of the requests adding to a batch is finite, and its size a number.
LEMMA AddingType ==
    ASSUME NEW b PROVE IsFiniteSet(Adding(b)) /\ Cardinality(Adding(b)) \in Nat
                       /\ Cardinality(Adding(b)) <= Cardinality(Sessions)
                       /\ Cardinality(Sessions) \in Nat
  <1>1. Adding(b) \in SUBSET Sessions
    BY DEF Adding
  <1>2. QED BY <1>1, SessionsAssumption, FS_Subset, FS_CardinalityType

\* A step that creates no row, of a request that adds none to a batch that has one.
LEMMA QuietRace ==
    ASSUME StockInv, RaceInv, NEW p \in Sessions, NEW t \in Session, OneRow(t),
           t.new \in BatchNos => RowsOf(t.new) = {},
           session' = [session EXCEPT ![p] = t], UNCHANGED batch
    PROVE  RaceInv'
  <1>1. session \in [Sessions -> Session]
    BY DEF StockInv, TypeOK
  <1>2. \A s \in Sessions : session'[s] = IF s = p THEN t ELSE session[s]
    BY <1>1
  <1>3. \A s \in Sessions : OneRow(session'[s])
    BY <1>2 DEF RaceInv
  <1>4. \A s \in Sessions : OneRow(session[s])'
    BY <1>3 DEF OneRow
  <1>5. ASSUME NEW b \in BatchNos, RowsOf(b)' # {}
        PROVE  Cardinality(RowsOf(b)') + Cardinality(Adding(b)') <= Cardinality(Sessions)
    <2>1. RowsOf(b)' = RowsOf(b)
      BY DEF RowsOf
    <2>2. Adding(b)' \in SUBSET Adding(b)
      BY <1>2, <1>5, <2>1 DEF Adding
    <2>3. Cardinality(RowsOf(b)) + Cardinality(Adding(b)) <= Cardinality(Sessions)
      BY <1>5, <2>1 DEF RaceInv
    <2> DEFINE A == Adding(b)
               B == Adding(b)'
               R == RowsOf(b)
    <2>4. /\ IsFiniteSet(A) /\ B \in SUBSET A /\ IsFiniteSet(R)
          /\ Cardinality(Sessions) \in Nat
      BY <2>2, AddingType, RowsFinite DEF RowsOf
    <2> HIDE DEF A, B, R
    <2>5. Cardinality(B) <= Cardinality(A) /\ Cardinality(A) \in Nat /\ Cardinality(B) \in Nat
          /\ Cardinality(R) \in Nat
      BY <2>4, FS_Subset, FS_CardinalityType
    <2>6. QED BY <2>1, <2>3, <2>4, <2>5 DEF A, B, R
  <1>6. QED BY <1>4, <1>5 DEF RaceInv, BatchNos

\* An insert turns a request that was going to add a row into that row.
LEMMA InsertRace ==
    ASSUME StockInv, RaceInv, NEW p \in Sessions, NEW x \in Rows, Insert(p, x)
    PROVE  RaceInv'
  <1> DEFINE c == session[p].new
             done == Free
  <1>1. session \in [Sessions -> Session] /\ batch \in [Rows -> AnyBatch]
    BY DEF StockInv, TypeOK, AnyBatch
  <1>2. /\ batch[x] = NoBatch /\ c # NoBatch /\ batch' = [batch EXCEPT ![x] = c]
        /\ session' = [session EXCEPT ![p] = done]
    BY DEF Insert
  <1>3. done.op = "none" /\ done.new = NoBatch
    BY DEF Free
  <1> HIDE DEF done
  <1>4. \A s \in Sessions : session'[s] = IF s = p THEN done ELSE session[s]
    BY <1>1, <1>2
  <1>5. \A s \in Sessions : OneRow(session[s])'
    <2>1. OneRow(done)
      BY <1>3 DEF OneRow
    <2>2. \A s \in Sessions : OneRow(session'[s])
      BY <1>4, <2>1 DEF RaceInv
    <2>3. QED BY <2>2 DEF OneRow
  <1>6. ASSUME NEW b \in BatchNos, RowsOf(b)' # {}
        PROVE  Cardinality(RowsOf(b)') + Cardinality(Adding(b)') <= Cardinality(Sessions)
    <2> DEFINE A == Adding(b)
               B == Adding(b)'
               R == RowsOf(b)
               S == RowsOf(b)'
    <2>0. b # NoBatch
      BY BatchAssumption DEF BatchNos, NoBatch
    <2>1. /\ IsFiniteSet(A) /\ IsFiniteSet(R)
          /\ Cardinality(Sessions) \in Nat /\ Cardinality(A) <= Cardinality(Sessions)
      BY AddingType, RowsFinite DEF RowsOf
    <2>2. R # {} => Cardinality(R) + Cardinality(A) <= Cardinality(Sessions)
      BY DEF RaceInv
    <2>3. CASE b # c
      <3>1. S = R
        BY <1>1, <1>2, <2>0, <2>3 DEF RowsOf
      <3>2. B = A
        BY <1>3, <1>4, <2>0, <2>3 DEF Adding
      <3>3. QED BY <1>6, <2>2, <3>1, <3>2
    <2>4. CASE b = c
      <3>1. S = R \union {x} /\ x \notin R
        BY <1>1, <1>2, <2>0, <2>4 DEF RowsOf
      <3>2. B = A \ {p} /\ p \in A
        BY <1>3, <1>4, <2>0, <2>4 DEF Adding
      <3> HIDE DEF A, B, R, S, c
      <3>3. Cardinality(S) = Cardinality(R) + 1 /\ Cardinality(R) \in Nat
        BY <2>1, <3>1, FS_AddElement, FS_CardinalityType
      <3>4. Cardinality(B) = Cardinality(A) - 1 /\ Cardinality(A) \in Nat
        BY <2>1, <3>2, OneLess
      <3>5. R = {} => Cardinality(R) = 0
        BY FS_EmptySet
      <3>6. Cardinality(S) + Cardinality(B) <= Cardinality(Sessions)
        BY <2>1, <2>2, <3>3, <3>4, <3>5
      <3>7. QED BY <3>6 DEF B, S
    <2>5. QED BY <2>3, <2>4
  <1>7. QED BY <1>5, <1>6 DEF RaceInv, BatchNos

\* What a step other than a commit or an insert does: a request reads or ends.
LEMMA OtherSteps ==
    ASSUME StockInv, RaceInv, NEW p \in Sessions
    PROVE  /\ ReadAgain(p) \/ Retry(p) \/ Fail(p)
              \/ (\E op \in ServiceNames, q \in -MaxQty..MaxQty, b \in Batches : Begin(p, op, q, b))
              => \E t \in Session :
                    /\ OneRow(t) /\ UpToDate(t)
                    /\ t.new \in BatchNos => RowsOf(t.new) = {}
                    /\ \A r \in Rows : t.delta[r] # 0 => t.base[r] = qty[r]
                    /\ session' = [session EXCEPT ![p] = t]
                    /\ UNCHANGED <<batch, qty, version, moved>>
  <1> DEFINE Fits(t) == /\ OneRow(t) /\ UpToDate(t)
                        /\ t.new \in BatchNos => RowsOf(t.new) = {}
                        /\ \A r \in Rows : t.delta[r] # 0 => t.base[r] = qty[r]
             Goal == \E t \in Session :
                        /\ Fits(t)
                        /\ session' = [session EXCEPT ![p] = t]
                        /\ UNCHANGED <<batch, qty, version, moved>>
  <1>a. /\ TypeOK /\ NegativeWasCounted /\ NoBatch \notin BatchNos
        /\ session[p] \in Session /\ Sound(session[p]) /\ OneRow(session[p])
    BY BatchAssumption DEF StockInv, RaceInv, TypeOK, BatchNos, NoBatch
  <1>b. session[p].pc # "idle" =>
               /\ session[p].op \in Ops /\ session[p].op \in ServiceNames
               /\ session[p].batch \in Batches /\ session[p].arg \in -MaxQty..MaxQty
               /\ session[p].attempt \in 1..MAX_RETRIES
               /\ session[p].arg < 0 => session[p].op = "count"
    BY <1>a, OpsAssumption DEF Sound, Session
  <1>c. ASSUME NEW op \in Ops, NEW q \in -MaxQty..MaxQty, NEW b \in Batches,
               NEW n \in 1..MAX_RETRIES, Readable(op, q, b), op \in {"in", "out"} => q > 0,
               q < 0 => op = "count"
        PROVE  Load(op, q, b, n) \in Session /\ Fits(Load(op, q, b, n))
    <2>1. op \in ServiceNames
      BY OpsAssumption
    <2> DEFINE t == Load(op, q, b, n)
    <2>2. t \in Session /\ UpToDate(t)
      BY <1>a, <1>c, LoadType
    <2>3. OneRow(t) /\ (t.new \in BatchNos => RowsOf(t.new) = {})
      BY <1>a, <1>c, <2>1, LoadFresh
    <2>4. \A r \in Rows : t.delta[r] # 0 => t.base[r] = qty[r]
      <3> DEFINE d == Delta(op, q, b)
                 u == [pc |-> "loaded", op |-> op, arg |-> q, batch |-> b,
                       attempt |-> n, base |-> Seen(qty, d), ver |-> Seen(version, d),
                       delta |-> d, new |-> NewBatch(op, q, b)]
      <3>1. /\ u.op = op /\ u.arg = q /\ u.batch = b /\ u.attempt = n /\ u.delta = d
            /\ u.base = Seen(qty, d)
        OBVIOUS
      <3>2. t = IF TooSmall(op, q) THEN NextAttempt(u) ELSE u
        BY DEF Load
      <3> HIDE DEF d, u, t
      <3>3. CASE TooSmall(op, q)
        <4>1. \A r \in Rows : NextAttempt(u).delta[r] = 0
          BY <2>1, <3>1, NextAttemptType
        <4>2. QED BY <3>2, <3>3, <4>1
      <3>4. CASE ~TooSmall(op, q)
        BY <3>1, <3>2, <3>4 DEF Seen
      <3>5. QED BY <3>3, <3>4
    <2>5. QED BY <2>2, <2>3, <2>4
  <1>d. ASSUME NEW t \in Session, \A r \in Rows : t.delta[r] = 0, t.new = NoBatch,
               t.op \in {"in", "out"} => t.arg > 0
        PROVE  Fits(t)
    <2>1. UpToDate(t)
      BY <1>d DEF UpToDate
    <2>2. OneRow(t)
      <3>1. 0 \in -MaxQty..MaxQty
        BY BoundsAssumption
      <3>2. QED BY <1>d, <3>1 DEF OneRow
    <2>3. QED BY <1>a, <1>d, <2>1, <2>2
  <1>1. ASSUME NEW op \in ServiceNames, NEW q \in -MaxQty..MaxQty, NEW b \in Batches,
               Begin(p, op, q, b)
        PROVE  Goal
    <2>1. op \in Ops /\ 1 \in 1..MAX_RETRIES /\ Readable(op, q, b)
          /\ (op \in {"in", "out"} => q > 0) /\ (q < 0 => op = "count")
      BY <1>1, BoundsAssumption DEF Begin, MAX_RETRIES
    <2> DEFINE t == Load(op, q, b, 1)
    <2>2. t \in Session /\ Fits(t)
      BY <1>c, <2>1
    <2>3. session' = [session EXCEPT ![p] = t] /\ UNCHANGED <<batch, qty, version, moved>>
      BY <1>1 DEF Begin
    <2> HIDE DEF t, Fits
    <2>4. QED BY <2>2, <2>3
  <1>2. ASSUME ReadAgain(p) PROVE Goal
    <2> DEFINE s == session[p]
               t == Load(s.op, s.arg, s.batch, s.attempt)
    <2>1. s.pc # "idle" /\ Readable(s.op, s.arg, s.batch)
      BY <1>2 DEF ReadAgain
    <2>2. s.op \in {"in", "out"} => s.arg > 0
      BY <1>a DEF OneRow
    <2>3. t \in Session /\ Fits(t)
      BY <1>b, <1>c, <2>1, <2>2
    <2>4. session' = [session EXCEPT ![p] = t] /\ UNCHANGED <<batch, qty, version, moved>>
      BY <1>2 DEF ReadAgain
    <2> HIDE DEF t, Fits
    <2>5. QED BY <2>3, <2>4
  <1>3. ASSUME Retry(p) PROVE Goal
    <2> DEFINE s == session[p]
               t == NextAttempt(s)
    <2>1. s.pc # "idle" /\ (s.op \in {"in", "out"} => s.arg > 0)
      BY <1>3, <1>a DEF Retry, OneRow
    <2>2. t \in Session /\ \A r \in Rows : t.delta[r] = 0
      BY <1>b, <2>1, NextAttemptType
    <2>3. t.new = NoBatch /\ (t.op \in {"in", "out"} => t.arg > 0)
      BY <2>1 DEF NextAttempt, Free
    <2>4. session' = [session EXCEPT ![p] = t] /\ UNCHANGED <<batch, qty, version, moved>>
      BY <1>3 DEF Retry
    <2> HIDE DEF t
    <2>5. Fits(t)
      BY <1>d, <2>2, <2>3
    <2> HIDE DEF Fits
    <2>6. QED BY <2>2, <2>4, <2>5
  <1>4. ASSUME Fail(p) PROVE Goal
    <2> DEFINE t == Free
    <2>1. session' = [session EXCEPT ![p] = t] /\ UNCHANGED <<batch, qty, version, moved>>
      BY <1>4 DEF Fail
    <2>2. t \in Session /\ t.op = "none" /\ \A r \in Rows : t.delta[r] = 0
      BY FreeType
    <2>3. t.new = NoBatch
      BY DEF Free
    <2> HIDE DEF t
    <2>4. Fits(t)
      BY <1>d, <2>2, <2>3
    <2> HIDE DEF Fits
    <2>5. QED BY <2>1, <2>2, <2>4
  <1>5. QED BY <1>1, <1>2, <1>3, <1>4

\* A commit creates no row.
LEMMA CommitRace ==
    ASSUME StockInv, RaceInv, NEW p \in Sessions, Commit(p) PROVE RaceInv'
  <1> DEFINE t == Free
  <1>1. t \in Session /\ t.op = "none"
    BY FreeType
  <1>2. t.new = NoBatch /\ NoBatch \notin BatchNos
    BY BatchAssumption DEF Free, BatchNos, NoBatch
  <1>3. session' = [session EXCEPT ![p] = t] /\ UNCHANGED batch
    BY DEF Commit
  <1> HIDE DEF t
  <1>4. OneRow(t)
    BY <1>1 DEF OneRow
  <1>5. QED BY <1>1, <1>2, <1>3, <1>4, QuietRace

\* Every step keeps the bound on the rows of a batch.
LEMMA RaceKept == StockInv /\ RaceInv /\ [Next]_vars => RaceInv'
  <1> SUFFICES ASSUME StockInv, RaceInv, [Next]_vars PROVE RaceInv'
    OBVIOUS
  <1>1. ASSUME NEW p \in Sessions, Commit(p) PROVE RaceInv'
    BY <1>1, CommitRace
  <1>2. ASSUME NEW p \in Sessions, NEW r \in Rows, Insert(p, r) PROVE RaceInv'
    BY <1>2, InsertRace
  <1>3. ASSUME NEW p \in Sessions,
               ReadAgain(p) \/ Retry(p) \/ Fail(p)
               \/ (\E op \in ServiceNames, q \in -MaxQty..MaxQty, b \in Batches : Begin(p, op, q, b))
        PROVE  RaceInv'
    <2>1. PICK t \in Session : /\ OneRow(t)
                               /\ t.new \in BatchNos => RowsOf(t.new) = {}
                               /\ session' = [session EXCEPT ![p] = t] /\ UNCHANGED batch
      BY <1>3, OtherSteps
    <2>2. QED BY <2>1, QuietRace
  <1>4. CASE UNCHANGED vars
    <2>1. UNCHANGED <<batch, session>>
      BY <1>4 DEF vars
    <2>2. QED BY <2>1 DEF RaceInv, OneRow, RowsOf, Adding
  <1>5. QED BY <1>1, <1>2, <1>3, <1>4 DEF Next

\* In the empty store no batch has a row.
LEMMA RaceInit == Init => RaceInv
  <1> SUFFICES ASSUME Init PROVE RaceInv
    OBVIOUS
  <1> DEFINE t == Free
  <1>1. t.op = "none"
    BY DEF Free
  <1>2. \A p \in Sessions : session[p] = t
    BY DEF Init
  <1> HIDE DEF t
  <1>3. \A p \in Sessions : OneRow(session[p])
    BY <1>1, <1>2 DEF OneRow
  <1>4. \A b \in BatchNos : RowsOf(b) = {}
    BY BatchAssumption DEF Init, RowsOf, BatchNos, NoBatch
  <1>5. QED BY <1>3, <1>4 DEF RaceInv

\* A batch never has more rows than there are concurrent requests, whichever
\* services are in use: a duplicate row is made by a race and by nothing else,
\* although no constraint of the table makes (location, sku, batch_no) unique.
THEOREM DuplicatesOnlyFromRaces == Spec => []DuplicatesNeedRace
  <1>1. RaceInv => DuplicatesNeedRace
    <2> SUFFICES ASSUME RaceInv, NEW b \in BatchNos
                 PROVE  Cardinality(RowsOf(b)) <= Cardinality(Sessions)
      BY DEF DuplicatesNeedRace, BatchNos
    <2> DEFINE R == RowsOf(b)
               A == Adding(b)
    <2>1. /\ IsFiniteSet(R) /\ Cardinality(A) \in Nat /\ Cardinality(Sessions) \in Nat
          /\ R # {} => Cardinality(R) + Cardinality(A) <= Cardinality(Sessions)
      BY RowsFinite, AddingType DEF RowsOf, RaceInv
    <2> HIDE DEF R, A
    <2>2. Cardinality(R) \in Nat /\ (R = {} => Cardinality(R) = 0)
      BY <2>1, FS_CardinalityType, FS_EmptySet
    <2>3. Cardinality(R) <= Cardinality(Sessions)
      BY <2>1, <2>2
    <2>4. QED BY <2>3 DEF R
  <1>2. QED BY <1>1, StockInit, StockKept, RaceInit, RaceKept, PTL DEF Spec

\* What a write of one row x of batch c does to the stock: every other batch
\* keeps its own.
LEMMA StockWrite ==
    ASSUME TypeOK, TypeOK', NEW x \in Rows, NEW c \in BatchNos, batch'[x] = c,
           batch[x] \in {c, NoBatch},
           \A r \in Rows : r # x => batch'[r] = batch[r] /\ qty'[r] = qty[r]
    PROVE  /\ \A b \in BatchNos : Total(RowsOf(b)) \in Int
           /\ \A b \in BatchNos : b # c => Total(RowsOf(b))' = Total(RowsOf(b))
           /\ Total(RowsOf(c))' = qty'[x] + Total(RowsOf(c) \ {x})
           /\ Total(RowsOf(c)) = Total(RowsOf(c) \ {x})
                                 + (IF batch[x] = c THEN qty[x] ELSE 0)
           /\ Total(RowsOf(c) \ {x}) \in Int
  <1>0. \A b \in BatchNos : b # NoBatch
    BY BatchAssumption DEF BatchNos, NoBatch
  <1>1. \A r \in Rows : qty[r] \in Int /\ qty'[r] \in Int
    BY DEF TypeOK
  <1>2. \A b : RowsOf(b) \in SUBSET Rows
    BY DEF RowsOf
  <1>3. ASSUME NEW b \in BatchNos PROVE Total(RowsOf(b)) \in Int
    <2>1. IsFiniteSet(RowsOf(b)) /\ \A r \in RowsOf(b) : qty[r] \in Int
      BY <1>1, <1>2, RowsFinite
    <2>2. QED BY <2>1, SumType DEF Total
  <1>4. ASSUME NEW b \in BatchNos, b # c PROVE Total(RowsOf(b))' = Total(RowsOf(b))
    <2> DEFINE R == RowsOf(b)
    <2>1. RowsOf(b)' = R /\ x \notin R
      BY <1>0, <1>4 DEF RowsOf
    <2>2. IsFiniteSet(R) /\ \A r \in R : qty[r] \in Int /\ qty[r] = qty'[r]
      BY <1>1, <1>2, <2>1, RowsFinite
    <2>3. Total(RowsOf(b))' = SumFunctionOnSet(qty', R)
      BY <2>1 DEF Total
    <2> HIDE DEF R
    <2>4. SumFunctionOnSet(qty, R) = SumFunctionOnSet(qty', R)
      BY <2>2, SumSame
    <2>5. QED BY <2>3, <2>4 DEF R, Total
  <1> DEFINE R == RowsOf(c) \ {x}
  <1>5. IsFiniteSet(R) /\ x \notin R /\ R \in SUBSET Rows
    BY <1>2, RowsFinite
  <1>6. \A r \in R : qty[r] \in Int /\ qty[r] = qty'[r]
    BY <1>1, <1>5
  <1>7. RowsOf(c)' = R \union {x}
    BY <1>0 DEF RowsOf
  <1>8. Total(RowsOf(c))' = SumFunctionOnSet(qty', R \union {x})
    BY <1>7 DEF Total
  <1>9. RowsOf(c) = IF batch[x] = c THEN R \union {x} ELSE R
    BY <1>0 DEF RowsOf
  <1> HIDE DEF R
  <1>10. SumFunctionOnSet(qty', R \union {x}) = qty'[x] + SumFunctionOnSet(qty', R)
    BY <1>1, <1>5, <1>6, SumAdd
  <1>11. SumFunctionOnSet(qty, R \union {x}) = qty[x] + SumFunctionOnSet(qty, R)
    BY <1>1, <1>5, <1>6, SumAdd
  <1>12. SumFunctionOnSet(qty, R) = SumFunctionOnSet(qty', R)
    BY <1>5, <1>6, SumSame
  <1>13. Total(R) \in Int
    BY <1>5, <1>6, SumType DEF Total
  <1>14. Total(RowsOf(c))' = qty'[x] + Total(R)
    BY <1>8, <1>10, <1>12 DEF Total
  <1>15. Total(RowsOf(c)) = Total(R) + (IF batch[x] = c THEN qty[x] ELSE 0)
    <2>1. CASE batch[x] = c
      BY <1>1, <1>9, <1>11, <1>13, <2>1 DEF Total
    <2>2. CASE batch[x] # c
      BY <1>9, <1>13, <2>2
    <2>3. QED BY <2>1, <2>2
  <1>16. QED BY <1>3, <1>4, <1>13, <1>14, <1>15 DEF R

\* A step that writes no row leaves the stock alone.
LEMMA StockQuiet ==
    ASSUME UNCHANGED <<batch, qty>> PROVE StockOf' = StockOf
  <1>1. \A b : RowsOf(b)' = RowsOf(b)
    BY DEF RowsOf
  <1>2. \A b : Total(RowsOf(b))' = Total(RowsOf(b))
    BY <1>1 DEF Total
  <1>3. QED BY <1>2 DEF StockOf

\* The committed UPDATE of adjust_inventory is one adjustment of one batch, or
\* none.
LEMMA CommitLedger ==
    ASSUME StockInv, StockInv', AdjustInv, RaceInv, Ops \subseteq {"in", "out"},
           NEW p \in Sessions, Commit(p)
    PROVE  Ledger!Next \/ StockOf' = StockOf
  <1> DEFINE t == session[p]
             written == {r \in Rows : t.delta[r] # 0}
  <1>1. t \in Session /\ Sound(t) /\ UpToDate(t) /\ OneRow(t) /\ TypeOK /\ TypeOK'
        /\ NeverNegative
    BY DEF StockInv, AdjustInv, RaceInv, TypeOK
  <1>2. /\ t.pc = "loaded" /\ UNCHANGED batch /\ (Optimistic(t.op) => Current(t))
        /\ qty' = [r \in Rows |-> IF r \in written THEN t.base[r] + t.delta[r] ELSE qty[r]]
    BY DEF Commit
  <1>3. t.op \in {"in", "out"}
    BY <1>1, <1>2 DEF Sound
  <1>4. \A r \in written : t.base[r] = qty[r] /\ t.base[r] + t.delta[r] >= 0 /\ batch[r] # NoBatch
    <2>1. t.base \in [Rows -> Int] /\ t.delta \in [Rows -> Int]
      BY <1>1 DEF Session
    <2>2. QED BY <1>1, <1>2, <1>3, <2>1 DEF Optimistic, Current, UpToDate, Sound
  <1>5. CASE written = {}
    <2>1. qty' = qty
      BY <1>1, <1>2, <1>5 DEF TypeOK
    <2>2. QED BY <1>2, <2>1, StockQuiet
  <1>6. CASE written # {}
    <2>1. PICK x \in Rows : t.delta[x] # 0
      BY <1>6
    <2>a. PICK c : c = batch[x]
      OBVIOUS
    <2>b. PICK d : d = t.delta[x]
      OBVIOUS
    <2>2. /\ c \in BatchNos /\ batch'[x] = c
          /\ \A r \in Rows : r # x => batch'[r] = batch[r] /\ qty'[r] = qty[r]
          /\ qty'[x] = qty[x] + d
      <3>1. \A r \in Rows : r # x => t.delta[r] = 0
        BY <1>1, <1>3, <2>1 DEF OneRow
      <3>2. c \in BatchNos
        BY <1>1, <1>4, <2>1, <2>a DEF TypeOK, BatchNos
      <3>3. QED BY <1>2, <1>4, <2>1, <2>a, <2>b, <3>1, <3>2
    <2>3. /\ d \in -MaxQty..MaxQty /\ d # 0 /\ qty[x] \in Nat /\ qty[x] + d >= 0
          /\ MaxQty \in Nat
      BY <1>1, <1>3, <1>4, <2>1, <2>b, BoundsAssumption DEF OneRow, TypeOK, NeverNegative
    <2> DEFINE S(b) == Total(RowsOf(b))
               T(b) == Total(RowsOf(b))'
               rest == Total(RowsOf(c) \ {x})
    <2>4. /\ \A b \in BatchNos : S(b) \in Int
          /\ \A b \in BatchNos : b # c => T(b) = S(b)
          /\ T(c) = qty'[x] + rest /\ S(c) = rest + qty[x]
      <3>1. batch'[x] = c /\ c \in BatchNos /\ batch[x] \in {c, NoBatch}
        BY <2>2, <2>a
      <3>2. QED BY <1>1, <2>2, <2>a, <3>1, StockWrite
    <2>5. rest \in Nat
      <3>1. RowsOf(c) \ {x} \in SUBSET Rows
        BY DEF RowsOf
      <3>2. QED BY <1>1, <3>1, TotalType DEF NeverNegative
    <2>6. StockOf = [b \in BatchNos |-> S(b)] /\ StockOf' = [b \in BatchNos |-> T(b)]
      BY DEF StockOf, BatchNos
    <2> HIDE DEF S, T, rest, t
    <2>7. T(c) = S(c) + d
      BY <2>2, <2>3, <2>4, <2>5
    <2>8. StockOf[c] = S(c)
      BY <2>2, <2>6
    <2>9. StockOf' = [StockOf EXCEPT ![c] = StockOf[c] + d]
      BY <2>2, <2>4, <2>6, <2>7
    <2>10. CASE d > 0
      <3>1. d \in 1..MaxQty
        BY <2>3, <2>10
      <3>2. Ledger!In(c, d)
        BY <2>9 DEF Ledger!In
      <3>3. QED BY <2>2, <3>1, <3>2 DEF Ledger!Next, BatchNos
    <2>11. CASE d < 0
      <3> DEFINE e == 0 - d
      <3>1. e \in 1..MaxQty /\ S(c) + d = S(c) - e /\ e <= S(c)
        BY <2>2, <2>3, <2>4, <2>5, <2>11
      <3> HIDE DEF e
      <3>2. Ledger!Out(c, e)
        BY <2>8, <2>9, <3>1 DEF Ledger!Out
      <3>3. QED BY <2>2, <3>1, <3>2 DEF Ledger!Next, BatchNos
    <2>12. QED BY <2>3, <2>10, <2>11
  <1>7. QED BY <1>5, <1>6

\* The INSERT of adjust_inventory adds its quantity to the stock of the batch,
\* whether or not the batch has got a row since.
LEMMA InsertLedger ==
    ASSUME StockInv, StockInv', RaceInv, Ops \subseteq {"in", "out"},
           NEW p \in Sessions, NEW x \in Rows, Insert(p, x)
    PROVE  Ledger!Next
  <1> DEFINE t == session[p]
  <1>1. t \in Session /\ Sound(t) /\ OneRow(t) /\ TypeOK /\ TypeOK'
    BY DEF StockInv, RaceInv, TypeOK
  <1>2. /\ t.pc = "loaded" /\ t.new # NoBatch /\ batch[x] = NoBatch
        /\ batch' = [batch EXCEPT ![x] = t.new] /\ qty' = [qty EXCEPT ![x] = t.arg]
    BY DEF Insert
  <1>3. t.op \in {"in", "out"}
    BY <1>1, <1>2 DEF Sound
  <1>4. PICK c \in BatchNos, q \in 1..MaxQty : c = t.new /\ q = t.arg
    BY <1>1, <1>2, <1>3, BoundsAssumption DEF Session, OneRow, BatchNos
  <1>5. /\ batch \in [Rows -> AnyBatch] /\ qty \in [Rows -> Int]
    BY <1>1 DEF TypeOK, AnyBatch
  <1>6. /\ batch'[x] = c /\ qty'[x] = q
        /\ \A r \in Rows : r # x => batch'[r] = batch[r] /\ qty'[r] = qty[r]
    BY <1>2, <1>4, <1>5
  <1>7. c # batch[x]
    BY <1>2, <1>4
  <1> DEFINE S(b) == Total(RowsOf(b))
             T(b) == Total(RowsOf(b))'
             rest == Total(RowsOf(c) \ {x})
  <1>8. /\ \A b \in BatchNos : S(b) \in Int
        /\ \A b \in BatchNos : b # c => T(b) = S(b)
        /\ T(c) = q + rest /\ S(c) = rest + 0 /\ rest \in Int
    <2>1. /\ \A b \in BatchNos : S(b) \in Int
          /\ \A b \in BatchNos : b # c => T(b) = S(b)
          /\ T(c) = qty'[x] + rest /\ rest \in Int
          /\ S(c) = rest + (IF batch[x] = c THEN qty[x] ELSE 0)
      <3>1. batch[x] \in {c, NoBatch} /\ batch'[x] = c
            /\ \A r \in Rows : r # x => batch'[r] = batch[r] /\ qty'[r] = qty[r]
        BY <1>2, <1>6
      <3>2. QED BY <1>1, <1>4, <3>1, StockWrite
    <2> HIDE DEF S, T, rest
    <2>2. QED BY <1>6, <1>7, <2>1
  <1>9. StockOf = [b \in BatchNos |-> S(b)] /\ StockOf' = [b \in BatchNos |-> T(b)]
    BY DEF StockOf, BatchNos
  <1> HIDE DEF S, T, rest, t
  <1>10. T(c) = S(c) + q
    BY <1>4, <1>8
  <1>11. StockOf' = [StockOf EXCEPT ![c] = StockOf[c] + q]
    BY <1>4, <1>8, <1>9, <1>10
  <1>12. Ledger!In(c, q)
    BY <1>11 DEF Ledger!In
  <1>13. QED BY <1>4, <1>12 DEF Ledger!Next, BatchNos

\* adjust_inventory implements the ledger for any number of concurrent requests,
\* batches and rows: however their reads, updates, inserts and retries are
\* interleaved, the stock of the batches changes as if the requests that succeed
\* were served one after the other, and none takes out more than there is.
THEOREM AdjustImplementsLedger ==
    ASSUME Ops \subseteq {"in", "out"} PROVE Spec => ImplementsLedger
  <1> DEFINE Inv == StockInv /\ AdjustInv /\ RaceInv
  <1>1. Init => Inv /\ Ledger!Init
    <2> SUFFICES ASSUME Init PROVE Ledger!Init
      BY StockInit, RaceInit
    <2>1. \A b \in BatchNos : RowsOf(b) = {}
      BY BatchAssumption DEF Init, RowsOf, BatchNos, NoBatch
    <2>2. \A b \in BatchNos : Total(RowsOf(b)) = 0
      BY <2>1, SumEmpty DEF Total
    <2>3. QED BY <2>2 DEF Ledger!Init, StockOf, BatchNos
  <1>2. Inv /\ [Next]_vars => Inv' /\ [Ledger!Next]_StockOf
    <2> SUFFICES ASSUME Inv, [Next]_vars PROVE Inv' /\ [Ledger!Next]_StockOf
      OBVIOUS
    <2>1. StockInv' /\ RaceInv'
      BY StockKept, RaceKept
    <2>2. AdjustInv'
      <3>1. CASE Next
        BY <3>1, StockStep
      <3>2. CASE UNCHANGED vars
        BY <3>2 DEF vars, AdjustInv, UpToDate, NoLostUpdate
      <3>3. QED BY <3>1, <3>2
    <2>3. ASSUME NEW p \in Sessions, Commit(p) PROVE [Ledger!Next]_StockOf
      BY <2>1, <2>3, CommitLedger
    <2>4. ASSUME NEW p \in Sessions, NEW r \in Rows, Insert(p, r)
          PROVE  [Ledger!Next]_StockOf
      BY <2>1, <2>4, InsertLedger
    <2>5. ASSUME NEW p \in Sessions,
                 ReadAgain(p) \/ Retry(p) \/ Fail(p)
                 \/ (\E op \in ServiceNames, q \in -MaxQty..MaxQty, b \in Batches : Begin(p, op, q, b))
          PROVE  [Ledger!Next]_StockOf
      BY <2>5, OtherSteps, StockQuiet
    <2>6. ASSUME UNCHANGED vars PROVE [Ledger!Next]_StockOf
      BY <2>6, StockQuiet DEF vars
    <2>7. QED BY <2>1, <2>2, <2>3, <2>4, <2>5, <2>6 DEF Next
  <1>3. QED BY <1>1, <1>2, PTL DEF Spec, ImplementsLedger, Ledger!Spec

\* One request at a time loses no update, whichever services are in use: what
\* adjust_stock_count and pick_from_stock lose, they lose to concurrent requests.
THEOREM SerialLosesNothing ==
    ASSUME NEW only, Sessions = {only} PROVE Spec => []NoLostUpdate
  <1> DEFINE Fresh(t) == \A r \in Rows : t.delta[r] # 0 => t.base[r] = qty[r]
             Inv == StockInv /\ RaceInv /\ Fresh(session[only]) /\ NoLostUpdate
  <1>1. Init => Inv
    <2> SUFFICES ASSUME Init PROVE Fresh(session[only]) /\ NoLostUpdate
      BY StockInit, RaceInit
    <2> DEFINE t == Free
    <2>1. session[only] = t /\ \A r \in Rows : t.delta[r] = 0
      BY FreeType DEF Init
    <2> HIDE DEF t
    <2>2. QED BY <2>1 DEF Init, NoLostUpdate
  <1>2. Inv /\ [Next]_vars => Inv'
    <2> SUFFICES ASSUME Inv, [Next]_vars
                 PROVE  Fresh(session[only])' /\ NoLostUpdate'
      BY StockKept, RaceKept
    <2> DEFINE Goal == Fresh(session[only])' /\ NoLostUpdate'
               t == session[only]
    <2>1. /\ session \in [Sessions -> Session] /\ t \in Session /\ Sound(t)
          /\ qty \in [Rows -> Int] /\ moved \in [Rows -> Int] /\ t.delta \in [Rows -> Int]
          /\ \A r \in Rows : qty[r] = moved[r]
      BY DEF StockInv, TypeOK, Session, NoLostUpdate
    <2>2. ASSUME NEW u, session' = [session EXCEPT ![only] = u], \A r \in Rows : u.delta[r] = 0
          PROVE  Fresh(session[only])'
      <3>1. session'[only] = u
        BY <2>1, <2>2
      <3>2. QED BY <2>2, <3>1
    <2>3. CASE Commit(only)
      <3> DEFINE u == Free
      <3>1. session' = [session EXCEPT ![only] = u] /\ \A r \in Rows : u.delta[r] = 0
        BY <2>3, FreeType DEF Commit
      <3>2. \A r \in Rows : /\ qty'[r] = IF t.delta[r] # 0 THEN t.base[r] + t.delta[r] ELSE qty[r]
                            /\ moved'[r] = moved[r] + t.delta[r]
        BY <2>3 DEF Commit
      <3> HIDE DEF u
      <3>3. NoLostUpdate'
        BY <2>1, <3>2 DEF NoLostUpdate
      <3>4. QED BY <2>2, <3>1, <3>3
    <2>4. ASSUME NEW x \in Rows, Insert(only, x) PROVE Goal
      <3> DEFINE u == Free
      <3>1. session' = [session EXCEPT ![only] = u] /\ \A r \in Rows : u.delta[r] = 0
        BY <2>4, FreeType DEF Insert
      <3>2. qty' = [qty EXCEPT ![x] = t.arg] /\ moved' = [moved EXCEPT ![x] = t.arg]
        BY <2>4 DEF Insert
      <3> HIDE DEF u
      <3>3. NoLostUpdate'
        BY <2>1, <3>2 DEF NoLostUpdate
      <3>4. QED BY <2>2, <3>1, <3>3
    <2>5. ASSUME ReadAgain(only) \/ Retry(only) \/ Fail(only)
                 \/ (\E op \in ServiceNames, q \in -MaxQty..MaxQty, b \in Batches :
                       Begin(only, op, q, b))
          PROVE  Goal
      <3>1. PICK u \in Session : /\ Fresh(u) /\ session' = [session EXCEPT ![only] = u]
                                 /\ UNCHANGED <<batch, qty, version, moved>>
        BY <2>5, OtherSteps
      <3>2. session'[only] = u /\ UNCHANGED <<qty, moved>>
        BY <2>1, <3>1
      <3>3. QED BY <2>1, <3>1, <3>2 DEF NoLostUpdate
    <2>6. CASE UNCHANGED vars
      BY <2>1, <2>6 DEF vars, NoLostUpdate
    <2>7. QED BY <2>3, <2>4, <2>5, <2>6 DEF Next
  <1>3. Inv => NoLostUpdate
    OBVIOUS
  <1>4. QED BY <1>1, <1>2, <1>3, PTL DEF Spec
=============================================================================
