------------------------ MODULE OrderLifecycleProofs ------------------------
(***************************************************************************)
(* Proofs about OrderLifecycle for any set of orders, requests and tasks.  *)
(***************************************************************************)
EXTENDS OrderLifecycle, TLAPS

\* What the session t of process p holds: an update was validated on the
\* status its session read; a task's session holds the rows and the target
\* that belong to the task.
Shape(p, t) ==
    /\ t.pc = "committed" => t.op = "update"
    /\ t.op = "update" =>
          /\ p \in Sessions
          /\ \A o \in Rows(t) : t.target \in ORDER_STATES[STATUS_REVERSE(t.seen[o])]
    /\ t.op = "delete" => p \in Sessions
    /\ p \in Tasks /\ t.pc = "loaded" =>
          /\ t.target = TaskTarget[p]
          /\ p = "auto_complete_picked_orders" =>
                \A o \in Rows(t) : t.seen[o] = "picking"

TxnShape == \A p \in Procs : Shape(p, txn[p])

\* What a session read has its trail in the history, and a session that has
\* committed its update finds the new status there.
SeenTrail ==
    \A p \in Procs, o \in Orders :
        /\ Trail(log[o], txn[p].seen[o])
        /\ txn[p].pc = "committed" /\ o \in Rows(txn[p]) => Logged(log[o], txn[p].target)

TypeInv == TypeOK /\ TxnShape

HistoryInv == SeenTrail /\ CompletedWasPicked /\ AnnouncedWasCommitted

-----------------------------------------------------------------------------
(* Type correctness                                                        *)

\* The session every process starts with is well typed and well shaped.
LEMMA IdleType == Idle \in Txn /\ \A p : Shape(p, Idle)
  BY DEF Idle, Txn, Shape, Rows

\* The target of a legal transition is a status, and never PENDING.
LEMMA TargetType ==
    ASSUME NEW s \in OrderStatus, NEW t,
           validate_transition(STATUS_REVERSE(s), t)
    PROVE  t \in OrderStatus /\ STATUS_MAP(t) = t /\ t # "pending"
  BY DEF validate_transition, STATUS_REVERSE, STATUS_MAP, ORDER_STATES, OrderStatus

\* A history entry written by update_order_status or by a task is well typed.
LEMMA EntryType ==
    /\ \A s \in OrderStatus, t \in OrderStatus :
          [from |-> STATUS_REVERSE(s), to |-> t] \in LogEntry
    /\ [from |-> "blank", to |-> "pending"] \in LogEntry
    /\ \A task \in TaskNames, s \in OrderStatus : TaskEntries(task, s) \in Seq(LogEntry)
  BY DEF LogEntry, LogNames, OrderStatus, STATUS_REVERSE, TaskEntries, TaskLog, TaskNames

\* Replacing one process's session by a well-formed one keeps the others'.
LEMMA TxnUpdate ==
    ASSUME TypeInv, NEW q \in Procs, NEW r \in Txn, Shape(q, r),
           txn' = [txn EXCEPT ![q] = r]
    PROVE  txn' \in [Procs -> Txn] /\ TxnShape'
  BY DEF TypeInv, TypeOK, TxnShape

\* The record a request puts in txn when it has read order o.
LEMMA LoadedType ==
    ASSUME NEW o \in Orders, NEW s \in OrderStatus
    PROVE  [Idle.seen EXCEPT ![o] = s] \in [Orders -> OrderStatus \union {"unread"}]
  BY DEF Idle

\* The rows of a session that has read something were read with a status.
LEMMA RowsType ==
    ASSUME NEW t \in Txn, NEW o \in Rows(t)
    PROVE  o \in Orders /\ t.seen[o] \in OrderStatus
  BY DEF Txn, Rows

\* A session in an update carries a status as its target for the rows it has.
LEMMA UpdateTarget ==
    ASSUME TypeInv, NEW p \in Procs, txn[p].op = "update", NEW o \in Rows(txn[p])
    PROVE  /\ txn[p].target \in OrderStatus
           /\ txn[p].target # "pending"
           /\ validate_transition(STATUS_REVERSE(txn[p].seen[o]), txn[p].target)
  <1>1. txn[p] \in Txn /\ Shape(p, txn[p])
    BY DEF TypeInv, TypeOK, TxnShape
  <1>2. txn[p].seen[o] \in OrderStatus
    BY <1>1, RowsType
  <1>3. validate_transition(STATUS_REVERSE(txn[p].seen[o]), txn[p].target)
    BY <1>1 DEF Shape, validate_transition
  <1>4. QED BY <1>2, <1>3, TargetType

\* Every step preserves the types and the shape of the sessions.
LEMMA TypeStep == TypeInv /\ [Next]_vars => TypeInv'
  <1> SUFFICES ASSUME TypeInv, [Next]_vars PROVE TypeInv'
    OBVIOUS
  <1> USE DEF TypeInv
  <1>a. age \in [Orders -> Ages] /\ idle \in [Orders -> Idles]
    BY DEF TypeOK
  <1>b. status \in [Orders -> OrderStatus \union {Absent}]
    BY DEF TypeOK
  <1>c. log \in [Orders -> Seq(LogEntry)]
    BY DEF TypeOK
  <1>d. emitted \in [Orders -> SUBSET OrderStatus]
    BY DEF TypeOK
  <1>1. ASSUME NEW o \in Orders, CreateOrder(o) PROVE TypeInv'
    <2>1. log' \in [Orders -> Seq(LogEntry)]
      BY <1>1, <1>c, EntryType DEF CreateOrder
    <2>2. emitted' \in [Orders -> SUBSET OrderStatus]
      <3>1. "pending" \in OrderStatus
        BY DEF OrderStatus
      <3>2. QED BY <1>1, <1>d, <3>1 DEF CreateOrder
    <2>3. status' \in [Orders -> OrderStatus \union {Absent}]
      BY <1>1, <1>b DEF CreateOrder, OrderStatus
    <2>4. QED BY <1>1, <2>1, <2>2, <2>3 DEF TypeOK, CreateOrder, TxnShape
  <1>2. ASSUME NEW o \in Orders, NEW children \in SUBSET Orders, SplitOrder(o, children)
        PROVE TypeInv'
    <2>1. TypeOK'
      BY <1>2 DEF TypeOK, SplitOrder, OrderStatus, Absent
    <2>2. QED BY <1>2, <2>1 DEF SplitOrder, TxnShape
  <1>3. ASSUME NEW o \in Orders, Grow(o) PROVE TypeInv'
    <2>1. age' \in [Orders -> Ages]
      BY <1>3, <1>a, BoundsAssumption DEF Grow, Ages
    <2>2. QED BY <1>3, <2>1 DEF TypeOK, Grow, TxnShape
  <1>8. ASSUME NEW o \in Orders, Rest(o) PROVE TypeInv'
    <2>1. idle' \in [Orders -> Idles]
      BY <1>8, <1>a, BoundsAssumption DEF Rest, Idles
    <2>2. QED BY <1>8, <2>1 DEF TypeOK, Rest, TxnShape
  <1>4. ASSUME NEW p \in Sessions, SessionStep(p) PROVE TypeInv'
    <2>0. p \in Procs /\ Idle \in Txn /\ Shape(p, Idle) /\ txn[p] \in Txn /\ p \notin Tasks
      BY IdleType, TasksAssumption, SessionsAssumption DEF Procs, TypeOK
    <2>1. ASSUME NEW o \in Orders, NEW t \in OrderStatus, BeginUpdate(p, o, t)
          PROVE TypeInv'
      <3> DEFINE r == [pc |-> "loaded", op |-> "update",
                       seen |-> [Idle.seen EXCEPT ![o] = status[o]],
                       target |-> STATUS_MAP(t)]
      <3>1. status[o] \in OrderStatus /\ STATUS_MAP(t) = t
        BY <2>1, TargetType DEF TypeOK, BeginUpdate, Absent
      <3>2. r \in Txn
        BY <3>1, LoadedType DEF Txn
      <3>3. \A x \in Rows(r) : x = o
        BY DEF Rows, Idle
      <3>4. Shape(p, r)
        BY <2>0, <2>1, <3>1, <3>3, LoadedType DEF Shape, BeginUpdate, validate_transition, Idle
      <3>5. QED BY <2>0, <2>1, <3>2, <3>4, TxnUpdate DEF TypeOK, BeginUpdate
    <2>2. ASSUME NEW o \in Orders, BeginDelete(p, o) PROVE TypeInv'
      <3> DEFINE r == [pc |-> "loaded", op |-> "delete",
                       seen |-> [Idle.seen EXCEPT ![o] = status[o]],
                       target |-> "none"]
      <3>1. status[o] \in OrderStatus
        BY <2>2 DEF TypeOK, BeginDelete, Absent
      <3>2. r \in Txn
        BY <3>1, LoadedType DEF Txn
      <3>3. Shape(p, r)
        BY <2>0 DEF Shape
      <3>4. QED BY <2>0, <2>2, <3>2, <3>3, TxnUpdate DEF TypeOK, BeginDelete
    <2>3. CASE CommitUpdate(p)
      <3> DEFINE r == [pc |-> "committed", op |-> "update",
                       seen |-> txn[p].seen, target |-> txn[p].target]
      <3>1. r \in Txn /\ Shape(p, r)
        BY <2>0, <2>3 DEF Txn, CommitUpdate, TxnShape, Shape, Rows
      <3>2. \A o \in Rows(txn[p]) :
               /\ txn[p].target \in OrderStatus
               /\ [from |-> STATUS_REVERSE(txn[p].seen[o]), to |-> txn[p].target] \in LogEntry
        BY <2>0, <2>3, UpdateTarget, RowsType, EntryType DEF CommitUpdate
      <3>3. txn' \in [Procs -> Txn] /\ TxnShape'
        BY <2>0, <2>3, <3>1, TxnUpdate DEF CommitUpdate
      <3> DEFINE rows == Rows(txn[p])
                 entry(o) == [from |-> STATUS_REVERSE(txn[p].seen[o]), to |-> txn[p].target]
      <3>a. /\ status' = [o \in Orders |-> IF o \in rows THEN txn[p].target ELSE status[o]]
            /\ idle' = [o \in Orders |-> IF o \in rows THEN 0 ELSE idle[o]]
        BY <2>3 DEF CommitUpdate
      <3>b. log' = [o \in Orders |-> IF o \in rows THEN Append(log[o], entry(o)) ELSE log[o]]
        BY <2>3 DEF CommitUpdate
      <3>c. \A o \in rows : txn[p].target \in OrderStatus /\ entry(o) \in LogEntry
        BY <3>2
      <3> HIDE DEF rows, entry
      <3>4. status' \in [Orders -> OrderStatus \union {Absent}] /\ idle' \in [Orders -> Idles]
        BY <3>a, <3>c, <1>a, <1>b DEF Idles
      <3>5. log' \in [Orders -> Seq(LogEntry)]
        BY <3>b, <3>c, <1>c
      <3>6. QED BY <2>3, <3>3, <3>4, <3>5 DEF TypeOK, CommitUpdate
    <2>4. CASE PostCommit(p)
      <3>1. txn[p].op = "update"
        BY <2>0, <2>4 DEF PostCommit, TxnShape, Shape
      <3>2. \A o \in Rows(txn[p]) : txn[p].target \in OrderStatus
        BY <2>0, <3>1, UpdateTarget
      <3>3. emitted' \in [Orders -> SUBSET OrderStatus]
        BY <2>4, <3>2, <1>d DEF PostCommit
      <3>4. txn' \in [Procs -> Txn] /\ TxnShape'
        BY <2>0, <2>4, TxnUpdate DEF PostCommit
      <3>5. QED BY <2>4, <3>3, <3>4 DEF TypeOK, PostCommit
    <2>5. CASE CommitDelete(p)
      <3>1. txn' \in [Procs -> Txn] /\ TxnShape'
        BY <2>0, <2>5, TxnUpdate DEF CommitDelete
      <3>2. deleted' \in [Orders -> BOOLEAN] /\ idle' \in [Orders -> Idles]
        BY <2>5 DEF TypeOK, CommitDelete, Idles
      <3>3. QED BY <2>5, <3>1, <3>2 DEF TypeOK, CommitDelete
    <2>6. CASE Rollback(p)
      BY <2>0, <2>6, TxnUpdate DEF TypeOK, Rollback
    <2>7. QED BY <1>4, <2>1, <2>2, <2>3, <2>4, <2>5, <2>6 DEF SessionStep
  <1>5. ASSUME NEW task \in Tasks, TaskStep(task) PROVE TypeInv'
    <2>0. /\ task \in Procs /\ task \in TaskNames
          /\ Idle \in Txn /\ Shape(task, Idle) /\ txn[task] \in Txn
      BY IdleType, TasksAssumption DEF Procs, TypeOK
    <2>1. CASE BeginTask(task)
      <3> DEFINE seen == [o \in Orders |-> IF Due(task, o) THEN status[o] ELSE "unread"]
                 r == [pc |-> "loaded", op |-> task, seen |-> seen,
                       target |-> TaskTarget[task]]
      <3>1. \A o \in Orders : Due(task, o) => /\ status[o] \in OrderStatus
                                              /\ task = "auto_complete_picked_orders" => status[o] = "picking"
        BY <2>0 DEF Due, InStatus, TaskNames, OrderStatus
      <3>2. TaskTarget[task] \in OrderStatus \union {"none"}
        BY <2>0 DEF TaskTarget, TaskNames, OrderStatus
      <3>3. seen \in [Orders -> OrderStatus \union {"unread"}]
        BY <3>1
      <3>4. r \in Txn
        BY <2>0, <3>2, <3>3 DEF Txn
      <3>5. Shape(task, r)
        BY <2>0, <3>1 DEF Shape, Rows, TaskNames
      <3>6. QED BY <2>0, <2>1, <3>4, <3>5, TxnUpdate DEF TypeOK, BeginTask
    <2>2. CASE CommitTask(task)
      <3>1. txn[task].target \in OrderStatus \union {"none"}
        BY <2>0 DEF Txn
      <3>2. \A o \in Rows(txn[task]) : TaskEntries(task, txn[task].seen[o]) \in Seq(LogEntry)
        BY <2>0, RowsType, EntryType
      <3>3. status' \in [Orders -> OrderStatus \union {Absent}] /\ idle' \in [Orders -> Idles]
        BY <2>2, <3>1, <1>a, <1>b DEF CommitTask, Idles
      <3>4. log' \in [Orders -> Seq(LogEntry)]
        BY <2>2, <3>2, <1>c DEF CommitTask
      <3>5. QED BY <2>0, <2>2, <3>3, <3>4, TxnUpdate DEF TypeOK, CommitTask
    <2>3. CASE Rollback(task)
      BY <2>0, <2>3, TxnUpdate DEF TypeOK, Rollback
    <2>4. QED BY <1>5, <2>1, <2>2, <2>3 DEF TaskStep
  <1>6. CASE UNCHANGED vars
    BY <1>6 DEF TypeOK, vars, TxnShape
  <1>7. QED BY <1>1, <1>2, <1>3, <1>4, <1>5, <1>6, <1>8 DEF Next

\* The inductive invariant: every session keeps a decision that was legal for
\* the status it read, and the rows stay well typed.
LEMMA TypeCorrect == Spec => []TypeInv
  <1>1. Init => TypeInv
    BY IdleType DEF Init, TypeInv, TypeOK, TxnShape, Ages, Idles, OrderStatus, Absent, NoParent
  <1>2. QED BY <1>1, TypeStep, PTL DEF Spec

\* Type correctness of the order store: whatever the requests and tasks read
\* before they write, the columns, histories and sessions stay well typed.
THEOREM OrderTypes == Spec => []TypeOK
  <1>1. TypeInv => TypeOK
    BY DEF TypeInv
  <1>2. QED BY <1>1, TypeCorrect, PTL

-----------------------------------------------------------------------------
(* The history                                                             *)

\* Every entry of the history g is still there, at its place, in h.
Grown(g, h) ==
    /\ g \in Seq(LogEntry) /\ h \in Seq(LogEntry)
    /\ Len(g) <= Len(h)
    /\ \A i \in 1..Len(g) : h[i] = g[i]

\* What a history shows, a longer one still shows.
LEMMA TrailKept ==
    ASSUME NEW g, NEW h, Grown(g, h), NEW s
    PROVE  /\ Logged(g, s) => Logged(h, s)
           /\ \A t : LoggedInOrder(g, s, t) => LoggedInOrder(h, s, t)
           /\ Trail(g, s) => Trail(h, s)
  <1>1. \A u : Logged(g, u) => Logged(h, u)
    BY DEF Grown, Logged
  <1>2. \A u, t : LoggedInOrder(g, u, t) => LoggedInOrder(h, u, t)
    BY DEF Grown, LoggedInOrder
  <1>3. QED BY <1>1, <1>2 DEF Trail

\* Appending the entry of a legal transition keeps the history and completes
\* the trail of the new status.
LEMMA TrailExtended ==
    ASSUME NEW g \in Seq(LogEntry), NEW e \in LogEntry,
           NEW s \in OrderStatus, Trail(g, s),
           validate_transition(STATUS_REVERSE(s), e.to)
    PROVE  /\ Grown(g, Append(g, e))
           /\ Logged(Append(g, e), e.to)
           /\ Trail(Append(g, e), e.to)
  <1> DEFINE h == Append(g, e)
  <1>1. /\ h \in Seq(LogEntry) /\ Len(h) = Len(g) + 1 /\ Len(g) \in Nat
        /\ h[Len(h)] = e /\ \A i \in 1..Len(g) : h[i] = g[i]
    OBVIOUS
  <1> HIDE DEF h
  <1>2. Grown(g, h)
    BY <1>1 DEF Grown
  <1>3. Logged(h, e.to)
    BY <1>1 DEF Logged
  <1>4. \A u : Logged(g, u) => LoggedInOrder(h, u, e.to)
    BY <1>1 DEF Logged, LoggedInOrder
  <1>5. LoggedInOrder(g, "processing", "picking") => Logged(g, "picking")
    BY DEF Logged, LoggedInOrder
  <1>6. e.to = "picking" => s = "processing"
    BY DEF validate_transition, STATUS_REVERSE, ORDER_STATES, OrderStatus
  <1>7. e.to = "completed" => s = "picking"
    BY DEF validate_transition, STATUS_REVERSE, ORDER_STATES, OrderStatus
  <1>8. LoggedInOrder(g, "processing", "picking") => LoggedInOrder(h, "processing", "picking")
    BY <1>2, TrailKept
  <1>9. Trail(h, e.to)
    BY <1>3, <1>4, <1>5, <1>6, <1>7, <1>8 DEF Trail
  <1>10. QED BY <1>2, <1>3, <1>9 DEF h

\* Replacing one process's session keeps what the others saw.
LEMMA SeenUpdate ==
    ASSUME TypeInv, SeenTrail, \A o \in Orders : Grown(log[o], log'[o]),
           NEW q \in Procs, NEW r, txn' = [txn EXCEPT ![q] = r],
           \A o \in Orders : Trail(log'[o], r.seen[o]),
           r.pc = "committed" => \A o \in Rows(r) : Logged(log'[o], r.target)
    PROVE  SeenTrail'
  <1> SUFFICES ASSUME NEW p \in Procs, NEW o \in Orders
               PROVE  /\ Trail(log'[o], txn'[p].seen[o])
                      /\ txn'[p].pc = "committed" /\ o \in Rows(txn'[p])
                            => Logged(log'[o], txn'[p].target)
    BY DEF SeenTrail
  <1>1. CASE p = q
    BY <1>1 DEF TypeInv, TypeOK
  <1>2. CASE p # q
    <2>1. txn'[p] = txn[p]
      BY <1>2 DEF TypeInv, TypeOK
    <2>2. QED BY <2>1, TrailKept DEF SeenTrail
  <1>3. QED BY <1>1, <1>2

\* A session that has read nothing needs no trail.
LEMMA IdleTrail ==
    /\ \A h : \A o \in Orders : Trail(h, Idle.seen[o])
    /\ Idle.pc # "committed"
  BY DEF Idle, Trail

\* A history that did not change has kept its entries.
LEMMA SameGrown == ASSUME TypeInv, NEW o \in Orders PROVE Grown(log[o], log[o])
  BY DEF Grown, TypeInv, TypeOK

\* A history to which entries were appended has kept its entries.
LEMMA ConcatGrown ==
    ASSUME NEW h \in Seq(LogEntry), NEW k \in Seq(LogEntry) PROVE Grown(h, h \o k)
  <1>1. Len(h) \in Nat /\ Len(k) \in Nat /\ Len(h \o k) = Len(h) + Len(k)
    OBVIOUS
  <1>2. \A i \in 1..Len(h) : (h \o k)[i] = h[i]
    OBVIOUS
  <1>3. h \o k \in Seq(LogEntry)
    OBVIOUS
  <1>4. QED BY <1>1, <1>2, <1>3 DEF Grown

\* A step that leaves histories, statuses and announcements alone.
LEMMA QuietStep ==
    ASSUME TypeInv, HistoryInv, NEW q \in Procs, NEW r,
           UNCHANGED <<status, log, emitted>>,
           txn' = [txn EXCEPT ![q] = r], r.pc # "committed",
           \A o \in Orders : Trail(log[o], r.seen[o])
    PROVE  HistoryInv'
  <1>1. \A o \in Orders : Grown(log[o], log'[o])
    BY SameGrown
  <1>2. SeenTrail'
    BY <1>1, SeenUpdate DEF HistoryInv
  <1>3. QED BY <1>2 DEF HistoryInv, CompletedWasPicked, AnnouncedWasCommitted

\* A step that moves the rows of q's session from what the session saw to a
\* legal next status and appends the entry of that transition.
LEMMA MoveStep ==
    ASSUME TypeInv, HistoryInv, NEW q \in Procs, NEW r, NEW tgt, NEW entry,
           UNCHANGED emitted,
           \A o \in Rows(txn[q]) :
              /\ entry[o] \in LogEntry /\ entry[o].to = tgt
              /\ validate_transition(STATUS_REVERSE(txn[q].seen[o]), tgt),
           log' = [o \in Orders |-> IF o \in Rows(txn[q]) THEN Append(log[o], entry[o])
                                                          ELSE log[o]],
           status' = [o \in Orders |-> IF o \in Rows(txn[q]) THEN tgt ELSE status[o]],
           txn' = [txn EXCEPT ![q] = r],
           \/ r = Idle
           \/ r.seen = txn[q].seen /\ r.target = tgt
    PROVE  HistoryInv'
  <1>1. ASSUME NEW o \in Rows(txn[q])
        PROVE  /\ o \in Orders
               /\ Grown(log[o], log'[o])
               /\ Logged(log'[o], tgt)
               /\ Trail(log'[o], tgt)
    <2>1. o \in Orders /\ txn[q].seen[o] \in OrderStatus
      BY RowsType DEF TypeInv, TypeOK
    <2>2. log[o] \in Seq(LogEntry) /\ Trail(log[o], txn[q].seen[o])
      BY <2>1 DEF TypeInv, TypeOK, HistoryInv, SeenTrail
    <2>3. log'[o] = Append(log[o], entry[o])
      BY <2>1
    <2>4. QED BY <2>1, <2>2, <2>3, TrailExtended
  <1>2. \A o \in Orders : Grown(log[o], log'[o])
    BY <1>1, SameGrown
  <1>3. SeenTrail'
    <2>1. \A o \in Orders : Trail(log'[o], r.seen[o])
      BY <1>2, IdleTrail, TrailKept DEF HistoryInv, SeenTrail
    <2>2. r.pc = "committed" => \A o \in Rows(r) : Logged(log'[o], r.target)
      BY <1>1, IdleTrail DEF Rows
    <2>3. QED BY <1>2, <2>1, <2>2, SeenUpdate DEF HistoryInv
  <1>4. CompletedWasPicked'
    BY <1>1, <1>2, TrailKept DEF HistoryInv, CompletedWasPicked
  <1>5. AnnouncedWasCommitted'
    BY <1>2, TrailKept DEF HistoryInv, AnnouncedWasCommitted
  <1>6. QED BY <1>3, <1>4, <1>5 DEF HistoryInv

\* Every step keeps the trails, whatever the sessions had read.
LEMMA HistoryStep == TypeInv /\ HistoryInv /\ [Next]_vars => HistoryInv'
  <1> SUFFICES ASSUME TypeInv, HistoryInv, [Next]_vars PROVE HistoryInv'
    OBVIOUS
  <1>a. \A o \in Orders : log[o] \in Seq(LogEntry) /\ Grown(log[o], log[o])
    BY SameGrown DEF TypeInv, TypeOK
  <1>b. \A o \in Orders : \A s : s \notin {"processing", "picking", "completed"} => Trail(log'[o], s)
    BY DEF Trail
  <1>1. ASSUME NEW o \in Orders, CreateOrder(o) PROVE HistoryInv'
    <2> DEFINE e == [from |-> "blank", to |-> "pending"]
    <2>1. e \in LogEntry /\ log' = [log EXCEPT ![o] = Append(log[o], e)]
      BY <1>1, EntryType DEF CreateOrder
    <2>2. Grown(log[o], Append(log[o], e)) /\ Logged(Append(log[o], e), "pending")
      BY <1>a, <2>1 DEF Grown, Logged
    <2>3. \A x \in Orders : Grown(log[x], log'[x])
      BY <1>a, <2>1, <2>2 DEF TypeInv, TypeOK
    <2>4. SeenTrail'
      BY <1>1, <2>3, TrailKept DEF CreateOrder, HistoryInv, SeenTrail
    <2>5. CompletedWasPicked'
      <3>1. \A x \in Orders : x # o => status'[x] = status[x]
        BY <1>1 DEF CreateOrder, TypeInv, TypeOK
      <3>2. status'[o] = "pending"
        BY <1>1 DEF CreateOrder, TypeInv, TypeOK
      <3>3. QED BY <1>b, <2>3, <3>1, <3>2, TrailKept DEF HistoryInv, CompletedWasPicked
    <2>6. AnnouncedWasCommitted'
      <3>1. Logged(log'[o], "pending")
        BY <2>1, <2>2 DEF TypeInv, TypeOK
      <3>2. \A x \in Orders : \A v \in emitted'[x] : v \in emitted[x] \/ (x = o /\ v = "pending")
        BY <1>1 DEF CreateOrder, TypeInv, TypeOK
      <3>3. QED BY <2>3, <3>1, <3>2, TrailKept DEF HistoryInv, AnnouncedWasCommitted
    <2>7. QED BY <2>4, <2>5, <2>6 DEF HistoryInv
  <1>2. ASSUME NEW o \in Orders, NEW children \in SUBSET Orders, SplitOrder(o, children)
        PROVE HistoryInv'
    <2>1. \A x \in Orders : status'[x] = status[x] \/ status'[x] = "pending"
      BY <1>2 DEF SplitOrder
    <2>2. UNCHANGED <<log, emitted, txn>>
      BY <1>2 DEF SplitOrder
    <2>3. CompletedWasPicked'
      BY <1>b, <2>1, <2>2 DEF HistoryInv, CompletedWasPicked
    <2>4. QED BY <2>2, <2>3 DEF HistoryInv, SeenTrail, AnnouncedWasCommitted
  <1>3. ASSUME NEW o \in Orders, Grow(o) \/ Rest(o) PROVE HistoryInv'
    BY <1>3 DEF Grow, Rest, HistoryInv, SeenTrail, CompletedWasPicked, AnnouncedWasCommitted
  <1>4. ASSUME NEW p \in Sessions, SessionStep(p) PROVE HistoryInv'
    <2>0. p \in Procs /\ txn[p] \in Txn
      BY DEF Procs, TypeInv, TypeOK
    <2>1. ASSUME NEW o \in Orders, NEW t \in OrderStatus, BeginUpdate(p, o, t)
          PROVE HistoryInv'
      <3>1. \A x \in Orders : Trail(log[x], [Idle.seen EXCEPT ![o] = status[o]][x])
        BY IdleTrail DEF HistoryInv, CompletedWasPicked, Idle
      <3>2. QED BY <2>0, <2>1, <3>1, QuietStep DEF BeginUpdate
    <2>2. ASSUME NEW o \in Orders, BeginDelete(p, o) PROVE HistoryInv'
      <3>1. \A x \in Orders : Trail(log[x], [Idle.seen EXCEPT ![o] = status[o]][x])
        BY IdleTrail DEF HistoryInv, CompletedWasPicked, Idle
      <3>2. QED BY <2>0, <2>2, <3>1, QuietStep DEF BeginDelete
    <2>3. CASE CommitUpdate(p)
      <3> DEFINE entry == [o \in Rows(txn[p]) |->
                              [from |-> STATUS_REVERSE(txn[p].seen[o]), to |-> txn[p].target]]
      <3>1. \A o \in Rows(txn[p]) :
               /\ entry[o] \in LogEntry /\ entry[o].to = txn[p].target
               /\ validate_transition(STATUS_REVERSE(txn[p].seen[o]), txn[p].target)
        BY <2>0, <2>3, UpdateTarget, RowsType, EntryType DEF CommitUpdate
      <3>2. log' = [o \in Orders |-> IF o \in Rows(txn[p]) THEN Append(log[o], entry[o])
                                                           ELSE log[o]]
        BY <2>3 DEF CommitUpdate
      <3> DEFINE r == [pc |-> "committed", op |-> "update",
                       seen |-> txn[p].seen, target |-> txn[p].target]
      <3>3. /\ status' = [o \in Orders |-> IF o \in Rows(txn[p]) THEN txn[p].target ELSE status[o]]
            /\ txn' = [txn EXCEPT ![p] = r]
            /\ UNCHANGED emitted
        BY <2>3 DEF CommitUpdate
      <3>4. r.seen = txn[p].seen /\ r.target = txn[p].target
        OBVIOUS
      <3> HIDE DEF entry, r
      <3>5. QED BY <2>0, <3>1, <3>2, <3>3, <3>4, MoveStep
    <2>4. CASE PostCommit(p)
      <3>1. SeenTrail'
        BY <1>a, <2>0, <2>4, SeenUpdate, IdleTrail DEF PostCommit, HistoryInv
      <3>2. \A o \in Rows(txn[p]) : o \in Orders /\ Logged(log[o], txn[p].target)
        BY <2>0, <2>4 DEF PostCommit, HistoryInv, SeenTrail, Rows
      <3>3. \A o \in Orders : \A s \in emitted'[o] :
               s \in emitted[o] \/ (o \in Rows(txn[p]) /\ s = txn[p].target)
        BY <2>4 DEF PostCommit
      <3>4. AnnouncedWasCommitted'
        BY <2>4, <3>2, <3>3 DEF PostCommit, HistoryInv, AnnouncedWasCommitted
      <3>5. QED BY <2>4, <3>1, <3>4 DEF PostCommit, HistoryInv, CompletedWasPicked
    <2>5. CASE CommitDelete(p)
      BY <2>0, <2>5, QuietStep, IdleTrail DEF CommitDelete
    <2>6. CASE Rollback(p)
      BY <2>0, <2>6, QuietStep, IdleTrail DEF Rollback
    <2>7. QED BY <1>4, <2>1, <2>2, <2>3, <2>4, <2>5, <2>6 DEF SessionStep
  <1>5. ASSUME NEW task \in Tasks, TaskStep(task) PROVE HistoryInv'
    <2>0. task \in Procs /\ task \in TaskNames /\ txn[task] \in Txn /\ Shape(task, txn[task])
      BY TasksAssumption DEF Procs, TypeInv, TypeOK, TxnShape
    <2>1. CASE BeginTask(task)
      <3> DEFINE seen == [o \in Orders |-> IF Due(task, o) THEN status[o] ELSE "unread"]
                 r == [pc |-> "loaded", op |-> task, seen |-> seen,
                       target |-> TaskTarget[task]]
      <3>1. \A o \in Orders : Trail(log[o], seen[o])
        BY DEF HistoryInv, CompletedWasPicked, Trail
      <3>2. txn' = [txn EXCEPT ![task] = r] /\ UNCHANGED <<status, log, emitted>>
        BY <2>1 DEF BeginTask
      <3>3. r.pc # "committed" /\ r.seen = seen
        OBVIOUS
      <3> HIDE DEF seen, r
      <3>4. QED BY <2>0, <3>1, <3>2, <3>3, QuietStep
    <2>2. CASE CommitTask(task) /\ task = "auto_complete_picked_orders"
      <3> DEFINE entry == [o \in Rows(txn[task]) |-> [from |-> "picking", to |-> "completed"]]
      <3>1. txn[task].target = "completed" /\ \A o \in Rows(txn[task]) : txn[task].seen[o] = "picking"
        BY <2>0, <2>2 DEF CommitTask, Shape, TaskTarget
      <3>2. \A o \in Rows(txn[task]) :
               /\ entry[o] \in LogEntry /\ entry[o].to = "completed"
               /\ validate_transition(STATUS_REVERSE(txn[task].seen[o]), "completed")
        BY <3>1 DEF LogEntry, LogNames, OrderStatus, validate_transition, STATUS_REVERSE, ORDER_STATES
      <3>3. \A o \in Rows(txn[task]) : TaskEntries(task, txn[task].seen[o]) = <<entry[o]>>
        BY <2>2, <3>1 DEF TaskEntries, TaskLog
      <3>4. \A o \in Rows(txn[task]) : log[o] \o <<entry[o]>> = Append(log[o], entry[o])
        BY <1>a, <3>2, RowsType, <2>0
      <3>5. log' = [o \in Orders |-> IF o \in Rows(txn[task]) THEN Append(log[o], entry[o])
                                                              ELSE log[o]]
        BY <2>2, <3>3, <3>4 DEF CommitTask
      <3>6. status' = [o \in Orders |-> IF o \in Rows(txn[task]) THEN "completed" ELSE status[o]]
        BY <2>2, <3>1 DEF CommitTask
      <3>7. txn' = [txn EXCEPT ![task] = Idle] /\ UNCHANGED emitted
        BY <2>2 DEF CommitTask
      <3> HIDE DEF entry
      <3>8. QED BY <2>0, <3>2, <3>5, <3>6, <3>7, MoveStep
    <2>3. CASE CommitTask(task) /\ task # "auto_complete_picked_orders"
      <3>1. txn[task].target \in {"none", "cancelled", "confirmed"}
        BY <2>0, <2>3 DEF CommitTask, Shape, TaskTarget, TaskNames
      <3>2. \A o \in Orders : status'[o] = status[o] \/ status'[o] \in {"cancelled", "confirmed"}
        BY <2>3, <3>1 DEF CommitTask
      <3>3. \A o \in Rows(txn[task]) :
               /\ o \in Orders
               /\ TaskEntries(task, txn[task].seen[o]) \in Seq(LogEntry)
        BY <2>0, RowsType, EntryType
      <3>4. \A o \in Orders : o \in Rows(txn[task]) =>
               Grown(log[o], log[o] \o TaskEntries(task, txn[task].seen[o]))
        BY <1>a, <3>3, ConcatGrown
      <3>5. \A o \in Orders : Grown(log[o], log'[o])
        BY <1>a, <2>3, <3>4 DEF CommitTask
      <3>6. SeenTrail'
        BY <2>0, <2>3, <3>5, SeenUpdate, IdleTrail DEF CommitTask, HistoryInv
      <3>7. CompletedWasPicked'
        BY <1>b, <3>2, <3>5, TrailKept DEF HistoryInv, CompletedWasPicked
      <3>8. AnnouncedWasCommitted'
        BY <2>3, <3>5, TrailKept DEF CommitTask, HistoryInv, AnnouncedWasCommitted
      <3>9. QED BY <3>6, <3>7, <3>8 DEF HistoryInv
    <2>4. CASE Rollback(task)
      BY <2>0, <2>4, QuietStep, IdleTrail DEF Rollback
    <2>5. QED BY <1>5, <2>1, <2>2, <2>3, <2>4 DEF TaskStep
  <1>6. CASE UNCHANGED vars
    BY <1>6 DEF vars, HistoryInv, SeenTrail, CompletedWasPicked, AnnouncedWasCommitted
  <1>7. QED BY <1>1, <1>2, <1>3, <1>4, <1>5, <1>6 DEF Next

\* The histories and what the sessions read of them, in every state.
LEMMA HistoryHolds == Spec => []HistoryInv
  <1>1. Init => HistoryInv
    BY IdleTrail DEF Init, HistoryInv, SeenTrail, CompletedWasPicked, AnnouncedWasCommitted,
                     Trail, Absent, Rows, Idle
  <1>2. TypeInv /\ HistoryInv /\ [Next]_vars => HistoryInv'
    BY HistoryStep
  <1>3. QED BY <1>1, <1>2, TypeCorrect, PTL DEF Spec

\* For any number of orders, requests and tasks, and although every writer
\* decides on an unlocked read: a completed order's history shows processing,
\* then picking, then completed.
THEOREM HistoryCorrect == Spec => []CompletedWasPicked
  <1>1. HistoryInv => CompletedWasPicked
    BY DEF HistoryInv
  <1>2. QED BY <1>1, HistoryHolds, PTL

\* For any number of orders, requests and tasks no webhook or outbox row
\* announces a status that the history lacks, although update_order_status
\* records the event in another transaction than the status.
THEOREM AnnouncementsCorrect == Spec => []AnnouncedWasCommitted
  <1>1. HistoryInv => AnnouncedWasCommitted
    BY DEF HistoryInv
  <1>2. QED BY <1>1, HistoryHolds, PTL

-----------------------------------------------------------------------------
(* The draft stage                                                         *)

\* No step takes an order that has left PENDING back to it.
LEMMA DraftStep ==
    ASSUME TypeInv, Next, NEW o \in Orders, status[o] \notin {Absent, "pending"}
    PROVE  status'[o] # "pending"
  <1>a. status \in [Orders -> OrderStatus \union {Absent}]
    BY DEF TypeInv, TypeOK
  <1>1. ASSUME NEW c \in Orders, CreateOrder(c) PROVE status'[o] # "pending"
    BY <1>1, <1>a DEF CreateOrder
  <1>2. ASSUME NEW c \in Orders, NEW children \in SUBSET Orders, SplitOrder(c, children)
        PROVE status'[o] # "pending"
    BY <1>2 DEF SplitOrder
  <1>3. ASSUME NEW c \in Orders, Grow(c) \/ Rest(c) PROVE status'[o] # "pending"
    BY <1>3 DEF Grow, Rest
  <1>4. ASSUME NEW p \in Sessions, SessionStep(p) PROVE status'[o] # "pending"
    <2>1. CASE CommitUpdate(p)
      <3>1. o \in Rows(txn[p]) => txn[p].target # "pending"
        BY <2>1, UpdateTarget DEF CommitUpdate, Procs
      <3>2. QED BY <2>1, <3>1 DEF CommitUpdate
    <2>2. CASE UNCHANGED status
      BY <2>2
    <2>3. QED BY <1>4, <2>1, <2>2 DEF SessionStep, BeginUpdate, BeginDelete, PostCommit,
                                      CommitDelete, Rollback
  <1>5. ASSUME NEW task \in Tasks, TaskStep(task) PROVE status'[o] # "pending"
    <2>1. CASE CommitTask(task)
      <3>1. txn[task].target = TaskTarget[task] /\ task \in TaskNames
        BY <2>1, TasksAssumption DEF CommitTask, TypeInv, TxnShape, Shape, Procs
      <3>2. txn[task].target # "pending"
        BY <3>1 DEF TaskTarget, TaskNames
      <3>3. QED BY <2>1, <3>2 DEF CommitTask
    <2>2. CASE UNCHANGED status
      BY <2>2
    <2>3. QED BY <1>5, <2>1, <2>2 DEF TaskStep, BeginTask, Rollback
  <1>6. QED BY <1>1, <1>2, <1>3, <1>4, <1>5 DEF Next

\* The draft stage is entered once, whatever stale reads the writers of the
\* order store act on.
THEOREM DraftOnce == Spec => DraftIsLeftOnce
  <1>1. TypeInv /\ [Next]_vars =>
           [\A o \in Orders :
              status[o] \notin {Absent, "pending"} => status'[o] # "pending"]_vars
    BY DraftStep
  <1>2. QED BY <1>1, TypeCorrect, PTL DEF Spec, DraftIsLeftOnce

-----------------------------------------------------------------------------
(* Decisions                                                               *)

\* An open session has read no row in a terminal status.
SawOpen(t) == t.pc = "loaded" => \A o \in Rows(t) : t.seen[o] \notin Terminal

OpenInv == \A p \in Procs : SawOpen(txn[p])

\* Process p ends a session in which it had read o as open.
Decided(p, o) ==
    /\ txn[p].pc = "loaded" /\ txn'[p] # txn[p]
    /\ o \in Rows(txn[p])
    /\ txn[p].seen[o] \notin Terminal

\* Order o exists and gets another status, or it is soft-deleted.
Written(o) ==
    \/ status[o] # Absent /\ status'[o] # status[o]
    \/ deleted'[o] # deleted[o]

\* Every read that opens a session filters terminal rows out, and every write
\* is the commit of such a session.
LEMMA OpenStep ==
    ASSUME TypeInv, OpenInv, Next
    PROVE  OpenInv' /\ \A o \in Orders : Written(o) => \E p \in Procs : Decided(p, o)
  <1> DEFINE Goal == OpenInv' /\ \A o \in Orders : Written(o) => \E p \in Procs : Decided(p, o)
  <1>a. /\ status \in [Orders -> OrderStatus \union {Absent}]
        /\ deleted \in [Orders -> BOOLEAN]
        /\ txn \in [Procs -> Txn]
    BY DEF TypeInv, TypeOK
  <1>b. ASSUME NEW q \in Procs, NEW r, txn' = [txn EXCEPT ![q] = r], SawOpen(r)
        PROVE  OpenInv' /\ txn'[q] = r
    BY <1>b, <1>a DEF OpenInv
  <1>c. SawOpen(Idle) /\ Idle.pc # "loaded"
    BY DEF SawOpen, Idle
  <1>d. ASSUME NEW q \in Procs, NEW r, txn' = [txn EXCEPT ![q] = r], r.pc # "loaded",
               txn[q].pc = "loaded",
               \A o \in Orders : Written(o) => o \in Rows(txn[q])
        PROVE  Goal
    <2>1. SawOpen(r)
      BY <1>d DEF SawOpen
    <2>2. OpenInv' /\ txn'[q] = r
      BY <1>b, <1>d, <2>1
    <2>3. txn'[q] # txn[q]
      BY <1>d, <2>2
    <2>4. \A o \in Orders : Written(o) => Decided(q, o)
      BY <1>d, <2>3 DEF Decided, OpenInv, SawOpen
    <2>5. QED BY <2>2, <2>4
  <1>e. ASSUME NEW q \in Procs, NEW r, txn' = [txn EXCEPT ![q] = r], SawOpen(r),
               UNCHANGED <<status, deleted>>
        PROVE  Goal
    BY <1>b, <1>e DEF Written
  <1>1. ASSUME NEW c \in Orders, CreateOrder(c) PROVE Goal
    BY <1>1, <1>a DEF CreateOrder, OpenInv, Written
  <1>2. ASSUME NEW c \in Orders, NEW children \in SUBSET Orders, SplitOrder(c, children)
        PROVE Goal
    BY <1>2 DEF SplitOrder, OpenInv, Written
  <1>3. ASSUME NEW c \in Orders, Grow(c) \/ Rest(c) PROVE Goal
    BY <1>3 DEF Grow, Rest, OpenInv, Written
  <1>4. ASSUME NEW p \in Sessions, SessionStep(p) PROVE Goal
    <2>0. p \in Procs
      BY DEF Procs
    <2>1. ASSUME NEW o \in Orders, NEW t \in OrderStatus, BeginUpdate(p, o, t) PROVE Goal
      <3> DEFINE r == [pc |-> "loaded", op |-> "update",
                       seen |-> [Idle.seen EXCEPT ![o] = status[o]],
                       target |-> STATUS_MAP(t)]
      <3>1. status[o] \notin Terminal
        BY <2>1 DEF BeginUpdate, validate_transition, STATUS_REVERSE, ORDER_STATES, Terminal
      <3>2. SawOpen(r)
        BY <3>1 DEF SawOpen, Rows, Idle
      <3>3. txn' = [txn EXCEPT ![p] = r] /\ UNCHANGED <<status, deleted>>
        BY <2>1 DEF BeginUpdate
      <3> HIDE DEF r
      <3>4. QED BY <1>e, <2>0, <3>2, <3>3
    <2>2. ASSUME NEW o \in Orders, BeginDelete(p, o) PROVE Goal
      <3> DEFINE r == [pc |-> "loaded", op |-> "delete",
                       seen |-> [Idle.seen EXCEPT ![o] = status[o]],
                       target |-> "none"]
      <3>1. status[o] \notin Terminal
        BY <2>2 DEF BeginDelete, STATUS_REVERSE, Terminal
      <3>2. SawOpen(r)
        BY <3>1 DEF SawOpen, Rows, Idle
      <3>3. txn' = [txn EXCEPT ![p] = r] /\ UNCHANGED <<status, deleted>>
        BY <2>2 DEF BeginDelete
      <3> HIDE DEF r
      <3>4. QED BY <1>e, <2>0, <3>2, <3>3
    <2>3. CASE CommitUpdate(p)
      <3> DEFINE r == [pc |-> "committed", op |-> "update",
                       seen |-> txn[p].seen, target |-> txn[p].target]
      <3>1. /\ r.pc # "loaded" /\ txn[p].pc = "loaded"
            /\ txn' = [txn EXCEPT ![p] = r]
        BY <2>3 DEF CommitUpdate
      <3>2. \A o \in Orders : Written(o) => o \in Rows(txn[p])
        BY <2>3 DEF CommitUpdate, Written
      <3> HIDE DEF r
      <3>3. QED BY <1>d, <2>0, <3>1, <3>2
    <2>4. CASE PostCommit(p)
      BY <1>e, <1>c, <2>0, <2>4 DEF PostCommit
    <2>5. CASE CommitDelete(p)
      <3>1. \A o \in Orders : Written(o) => o \in Rows(txn[p])
        BY <2>5, <1>a DEF CommitDelete, Written
      <3>2. txn[p].pc = "loaded" /\ txn' = [txn EXCEPT ![p] = Idle]
        BY <2>5 DEF CommitDelete
      <3>3. QED BY <1>c, <1>d, <2>0, <3>1, <3>2
    <2>6. CASE Rollback(p)
      BY <1>e, <1>c, <2>0, <2>6 DEF Rollback
    <2>7. QED BY <1>4, <2>1, <2>2, <2>3, <2>4, <2>5, <2>6 DEF SessionStep
  <1>5. ASSUME NEW task \in Tasks, TaskStep(task) PROVE Goal
    <2>0. task \in Procs /\ task \in TaskNames
      BY TasksAssumption DEF Procs
    <2>1. CASE BeginTask(task)
      <3> DEFINE seen == [o \in Orders |-> IF Due(task, o) THEN status[o] ELSE "unread"]
                 r == [pc |-> "loaded", op |-> task, seen |-> seen,
                       target |-> TaskTarget[task]]
      <3>1. \A o \in Orders : Due(task, o) => status[o] \notin Terminal
        BY <2>0 DEF Due, InStatus, TaskNames, Terminal
      <3>2. SawOpen(r)
        BY <3>1 DEF SawOpen, Rows
      <3>3. txn' = [txn EXCEPT ![task] = r] /\ UNCHANGED <<status, deleted>>
        BY <2>1 DEF BeginTask
      <3> HIDE DEF r
      <3>4. QED BY <1>e, <2>0, <3>2, <3>3
    <2>2. CASE CommitTask(task)
      <3>1. \A o \in Orders : Written(o) => o \in Rows(txn[task])
        BY <2>2 DEF CommitTask, Written
      <3>2. txn[task].pc = "loaded" /\ txn' = [txn EXCEPT ![task] = Idle]
        BY <2>2 DEF CommitTask
      <3>3. QED BY <1>c, <1>d, <2>0, <3>1, <3>2
    <2>3. CASE Rollback(task)
      BY <1>e, <1>c, <2>0, <2>3 DEF Rollback
    <2>4. QED BY <1>5, <2>1, <2>2, <2>3 DEF TaskStep
  <1>6. QED BY <1>1, <1>2, <1>3, <1>4, <1>5 DEF Next

\* Whoever changes the status of an order or soft-deletes it has read it in a
\* status that is not terminal, for any number of writers: the checks of
\* update_order_status, delete_order and the tasks leave no hole but the time
\* between a read and its commit.
THEOREM DecidedOpen == Spec => DecidedWhileOpen
  <1>1. Init => OpenInv
    <2>1. SawOpen(Idle)
      BY DEF SawOpen, Idle
    <2>2. QED BY <2>1 DEF Init, OpenInv
  <1>2. TypeInv /\ OpenInv /\ [Next]_vars => OpenInv'
    <2>1. CASE Next
      BY <2>1, OpenStep
    <2>2. CASE UNCHANGED vars
      BY <2>2 DEF vars, OpenInv
    <2>3. QED BY <2>1, <2>2
  <1>3. TypeInv /\ OpenInv /\ [Next]_vars =>
           [\A o \in Orders :
              \/ status[o] # Absent /\ status'[o] # status[o]
              \/ deleted'[o] # deleted[o]
              => \E p \in Procs : /\ txn[p].pc = "loaded" /\ txn'[p] # txn[p]
                                 /\ o \in Rows(txn[p])
                                 /\ txn[p].seen[o] \notin Terminal]_vars
    BY OpenStep DEF Decided, Written
  <1>4. QED BY <1>1, <1>2, <1>3, TypeCorrect, PTL DEF Spec, DecidedWhileOpen

-----------------------------------------------------------------------------
(* One writer at a time                                                    *)

\* An open session's rows are still as it read them, and not terminal.
Fresh(t, s) ==
    t.pc = "loaded" => \A o \in Rows(t) : t.seen[o] = s[o] /\ s[o] \notin Terminal

FreshInv == \A p \in Procs : Fresh(txn[p], status)

\* Steps of a lone writer keep its session fresh and leave terminal orders be.
LEMMA SerialStep ==
    ASSUME \A p, q \in Procs : p = q, TypeInv, FreshInv, Next
    PROVE  /\ FreshInv'
           /\ \A o \in Orders : status[o] \in Terminal => status'[o] = status[o]
  <1> DEFINE Goal == /\ FreshInv'
                     /\ \A o \in Orders : status[o] \in Terminal => status'[o] = status[o]
  <1>a. status \in [Orders -> OrderStatus \union {Absent}] /\ txn \in [Procs -> Txn]
    BY DEF TypeInv, TypeOK
  <1>b. ASSUME NEW p \in Procs, txn[p].pc = "loaded", NEW o \in Rows(txn[p])
        PROVE  o \in Orders /\ status[o] \in OrderStatus \ Terminal
    BY <1>a, <1>b, RowsType DEF FreshInv, Fresh
  <1>c. ASSUME NEW q \in Procs, NEW r, txn' = [txn EXCEPT ![q] = r], Fresh(r, status')
        PROVE  FreshInv'
    BY <1>c, <1>a DEF FreshInv
  <1>d. Absent \notin Terminal /\ Absent \notin OrderStatus /\ Fresh(Idle, status')
    BY DEF Absent, Terminal, OrderStatus, Fresh, Idle
  <1>1. ASSUME NEW c \in Orders, CreateOrder(c) PROVE Goal
    <2>1. \A o \in Orders : status[o] # Absent => status'[o] = status[o]
      BY <1>1, <1>a DEF CreateOrder
    <2>2. QED BY <1>1, <1>b, <1>d, <2>1 DEF CreateOrder, FreshInv, Fresh
  <1>2. ASSUME NEW c \in Orders, NEW children \in SUBSET Orders, SplitOrder(c, children)
        PROVE Goal
    <2>1. \A o \in Orders : status[o] # Absent => status'[o] = status[o]
      BY <1>2 DEF SplitOrder
    <2>2. QED BY <1>2, <1>b, <1>d, <2>1 DEF SplitOrder, FreshInv, Fresh
  <1>3. ASSUME NEW c \in Orders, Grow(c) \/ Rest(c) PROVE Goal
    BY <1>3 DEF Grow, Rest, FreshInv
  <1>4. ASSUME NEW p \in Sessions, SessionStep(p) PROVE Goal
    <2>0. p \in Procs
      BY DEF Procs
    <2>1. ASSUME NEW o \in Orders, NEW t \in OrderStatus, BeginUpdate(p, o, t) PROVE Goal
      <3> DEFINE r == [pc |-> "loaded", op |-> "update",
                       seen |-> [Idle.seen EXCEPT ![o] = status[o]],
                       target |-> STATUS_MAP(t)]
      <3>1. status[o] \notin Terminal
        BY <2>1 DEF BeginUpdate, validate_transition, STATUS_REVERSE, ORDER_STATES, Terminal
      <3>2. Fresh(r, status)
        BY <3>1 DEF Fresh, Rows, Idle
      <3>3. txn' = [txn EXCEPT ![p] = r] /\ UNCHANGED <<status, deleted>>
        BY <2>1 DEF BeginUpdate
      <3> HIDE DEF r
      <3>4. QED BY <1>c, <2>0, <3>2, <3>3
    <2>2. ASSUME NEW o \in Orders, BeginDelete(p, o) PROVE Goal
      <3> DEFINE r == [pc |-> "loaded", op |-> "delete",
                       seen |-> [Idle.seen EXCEPT ![o] = status[o]],
                       target |-> "none"]
      <3>1. status[o] \notin Terminal
        BY <2>2 DEF BeginDelete, STATUS_REVERSE, Terminal
      <3>2. Fresh(r, status)
        BY <3>1 DEF Fresh, Rows, Idle
      <3>3. txn' = [txn EXCEPT ![p] = r] /\ UNCHANGED <<status, deleted>>
        BY <2>2 DEF BeginDelete
      <3> HIDE DEF r
      <3>4. QED BY <1>c, <2>0, <3>2, <3>3
    <2>3. CASE CommitUpdate(p)
      <3> DEFINE r == [pc |-> "committed", op |-> "update",
                       seen |-> txn[p].seen, target |-> txn[p].target]
      <3>1. Fresh(r, status') /\ txn' = [txn EXCEPT ![p] = r] /\ UNCHANGED deleted
        BY <2>3 DEF CommitUpdate, Fresh
      <3>2. \A o \in Orders : o \notin Rows(txn[p]) => status'[o] = status[o]
        BY <2>3 DEF CommitUpdate
      <3>3. txn[p].pc = "loaded"
        BY <2>3 DEF CommitUpdate
      <3> HIDE DEF r
      <3>4. FreshInv'
        BY <1>c, <2>0, <3>1
      <3>5. QED BY <1>b, <2>0, <3>1, <3>2, <3>3, <3>4
    <2>4. CASE PostCommit(p)
      BY <1>c, <1>d, <2>0, <2>4 DEF PostCommit
    <2>5. CASE CommitDelete(p)
      BY <1>c, <1>d, <2>0, <2>5 DEF CommitDelete
    <2>6. CASE Rollback(p)
      BY <1>c, <1>d, <2>0, <2>6 DEF Rollback
    <2>7. QED BY <1>4, <2>1, <2>2, <2>3, <2>4, <2>5, <2>6 DEF SessionStep
  <1>5. ASSUME NEW task \in Tasks, TaskStep(task) PROVE Goal
    <2>0. task \in Procs /\ task \in TaskNames
      BY TasksAssumption DEF Procs
    <2>1. CASE BeginTask(task)
      <3> DEFINE seen == [o \in Orders |-> IF Due(task, o) THEN status[o] ELSE "unread"]
                 r == [pc |-> "loaded", op |-> task, seen |-> seen,
                       target |-> TaskTarget[task]]
      <3>1. \A o \in Orders : Due(task, o) => status[o] \notin Terminal
        BY <2>0 DEF Due, InStatus, TaskNames, Terminal
      <3>2. Fresh(r, status)
        BY <3>1 DEF Fresh, Rows
      <3>3. txn' = [txn EXCEPT ![task] = r] /\ UNCHANGED <<status, deleted>>
        BY <2>1 DEF BeginTask
      <3> HIDE DEF r
      <3>4. QED BY <1>c, <2>0, <3>2, <3>3
    <2>2. CASE CommitTask(task)
      <3>1. \A o \in Orders : o \notin Rows(txn[task]) => status'[o] = status[o]
        BY <2>2 DEF CommitTask
      <3>2. txn[task].pc = "loaded" /\ txn' = [txn EXCEPT ![task] = Idle] /\ UNCHANGED deleted
        BY <2>2 DEF CommitTask
      <3>3. QED BY <1>b, <1>c, <1>d, <2>0, <3>1, <3>2
    <2>3. CASE Rollback(task)
      BY <1>c, <1>d, <2>0, <2>3 DEF Rollback
    <2>4. QED BY <1>5, <2>1, <2>2, <2>3 DEF TaskStep
  <1>6. QED BY <1>1, <1>2, <1>3, <1>4, <1>5 DEF Next

\* With a single writer, so that no read is stale at its commit, terminal
\* orders are final: the guards of update_order_status and of the tasks are
\* right, and what breaks them with two writers is the missing lock alone.
THEOREM SerialTerminal ==
    ASSUME \A p, q \in Procs : p = q
    PROVE  Spec => TerminalIsFinal
  <1>1. Init => FreshInv
    <2>1. Fresh(Idle, status)
      BY DEF Idle, Fresh
    <2>2. QED BY <2>1 DEF Init, FreshInv
  <1>2. TypeInv /\ FreshInv /\ [Next]_vars => FreshInv'
    <2>1. CASE Next
      BY <2>1, SerialStep
    <2>2. CASE UNCHANGED vars
      BY <2>2 DEF vars, FreshInv
    <2>3. QED BY <2>1, <2>2
  <1>3. TypeInv /\ FreshInv /\ [Next]_vars =>
           [\A o \in Orders : status[o] \in Terminal => status'[o] = status[o]]_vars
    BY SerialStep
  <1>4. QED BY <1>1, <1>2, <1>3, TypeCorrect, PTL DEF Spec, TerminalIsFinal
=============================================================================
