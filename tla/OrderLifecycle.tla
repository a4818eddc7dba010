--------------------------- MODULE OrderLifecycle ---------------------------
(***************************************************************************)
(* The order rows of the OMS and everything that writes them: the REST     *)
(* service (src/oms/service.py), order splitting (src/oms/merge.py) and    *)
(* the periodic tasks (src/tasks/orders.py, src/tasks/inventory.py).       *)
(*                                                                         *)
(* Every writer is a database session that SELECTs rows, decides on what   *)
(* it read, and commits later.  No SELECT takes a row lock and the version *)
(* column of Order is never used, so two sessions may decide on the same   *)
(* status and both commit.  A session is therefore two steps (Begin* reads *)
(* and validates, Commit* writes); a request that fails validation changes *)
(* nothing and is not a step.                                              *)
(***************************************************************************)
EXTENDS Naturals, Sequences

CONSTANTS
    Orders,      \* order ids
    Sessions,    \* concurrent HTTP requests
    Tasks,       \* the periodic tasks that run
    MaxHistory,  \* bound: histories this long are not flagged stale again
    MaxAge,      \* bound: how far the age of a draft is followed
    MaxIdle      \* bound: how far the idle time of an order is followed

VARIABLES
    status,      \* Order.status as the ORM enum value, or "absent"
    deleted,     \* Order.is_deleted
    age,         \* time since created_at, as the milestones of Ages
    idle,        \* time since updated_at, as the milestones of Idles
    log,         \* OrderStatusLog rows of an order, by created_at
    parent,      \* the order a split child's order_no derives from
    emitted,     \* the statuses announced by committed webhook and outbox rows
    txn          \* per process: the open session

vars == <<status, deleted, age, idle, log, parent, emitted, txn>>

-----------------------------------------------------------------------------
(* The state machine of src/oms/service.py.                                *)

OrderStatus == {"pending", "confirmed", "processing", "picking",
                "completed", "cancelled", "failed"}

ORDER_STATES ==
    [draft      |-> {"confirmed", "cancelled"},
     confirmed  |-> {"processing", "cancelled"},
     processing |-> {"picking", "cancelled"},
     picking    |-> {"completed", "cancelled"},
     completed  |-> {},
     cancelled  |-> {},
     failed     |-> {}]

\* Column value to schema name; only PENDING is called differently.
STATUS_REVERSE(s) == IF s = "pending" THEN "draft" ELSE s
STATUS_MAP(s)     == IF s = "draft" THEN "pending" ELSE s

Terminal == {"completed", "cancelled", "failed"}

\* Mutant: the table is not consulted.
any_transition(current, target) == target # current

validate_transition(current, target) == target \in ORDER_STATES[current]

-----------------------------------------------------------------------------
(* Time is kept only as far as the tasks' cutoffs tell it apart.           *)
(*   age : 0 = under a day, 1 = at least one day, 2 = over seven days,     *)
(*         3 = at least eight days (timedelta.days > 7)                    *)
(*   idle: 0 = updated today, 1 = before last midnight, 2 = over 48 hours  *)
Ages  == 0..3
Idles == 0..2

TaskNames == {"process_stale_orders", "auto_complete_picked_orders",
              "cancel_abandoned_drafts", "cancel_expired_orders",
              "process_pending_orders"}

ASSUME TasksAssumption    == Tasks \subseteq TaskNames
ASSUME SessionsAssumption == Sessions \cap TaskNames = {}
ASSUME BoundsAssumption   == /\ MaxHistory \in Nat
                             /\ MaxAge \in Ages
                             /\ MaxIdle \in Idles

Procs == Sessions \union Tasks

Absent   == "absent"
NoParent == "none"
ASSUME OrdersAssumption == NoParent \notin Orders

LogNames == OrderStatus \union {"blank", "draft", "flagged_stale"}
LogEntry == [from : LogNames, to : LogNames]

\* seen[o] is the status the session read, "unread" for rows it did not select
Txn == [pc     : {"idle", "loaded", "committed"},
        op     : {"none", "update", "delete"} \union TaskNames,
        seen   : [Orders -> OrderStatus \union {"unread"}],
        target : OrderStatus \union {"none"}]

Idle == [pc |-> "idle", op |-> "none",
         seen |-> [o \in Orders |-> "unread"], target |-> "none"]

\* The rows a session selected.
Rows(t) == {o \in Orders : t.seen[o] # "unread"}

-----------------------------------------------------------------------------
Init ==
    /\ status  = [o \in Orders |-> Absent]
    /\ deleted = [o \in Orders |-> FALSE]
    /\ age     = [o \in Orders |-> 0]
    /\ idle    = [o \in Orders |-> 0]
    /\ log     = [o \in Orders |-> <<>>]
    /\ parent  = [o \in Orders |-> NoParent]
    /\ emitted = [o \in Orders |-> {}]
    /\ txn     = [p \in Procs |-> Idle]

\* Mutant: the schema's name of the status is written to the column.
CreateOrderUnmapped(o) ==
    /\ status[o] = Absent
    /\ status' = [status EXCEPT ![o] = "draft"]
    /\ UNCHANGED <<deleted, age, idle, log, parent, emitted, txn>>

\* create_order: order, items, history entry and outbox event in one commit.
CreateOrder(o) ==
    /\ status[o] = Absent
    /\ status' = [status EXCEPT ![o] = "pending"]
    /\ log' = [log EXCEPT ![o] = Append(@, [from |-> "blank", to |-> "pending"])]
    /\ emitted' = [emitted EXCEPT ![o] = @ \union {"pending"}]
    /\ UNCHANGED <<deleted, age, idle, parent, txn>>

\* split_order: children are numbered <order_no>-SP1.., so a parent that was
\* split before makes the unique index reject the INSERT and nothing changes.
\* The parent's status is not looked at; children get no history entry.
SplitOrder(o, children) ==
    /\ status[o] # Absent
    /\ children # {}
    /\ \A c \in children : status[c] = Absent
    /\ \A c \in Orders : parent[c] # o
    /\ status' = [c \in Orders |-> IF c \in children THEN "pending" ELSE status[c]]
    /\ parent' = [c \in Orders |-> IF c \in children THEN o ELSE parent[c]]
    /\ UNCHANGED <<deleted, age, idle, log, emitted, txn>>

-----------------------------------------------------------------------------
(* PUT /orders/{id}/status                                                 *)

\* Mutant: the events are dispatched before the change is committed.
BeginUpdateAnnounced(p, o, target) ==
    /\ txn[p].pc = "idle"
    /\ status[o] # Absent
    /\ validate_transition(STATUS_REVERSE(status[o]), target)
    /\ txn' = [txn EXCEPT ![p] =
                  [pc |-> "loaded", op |-> "update",
                   seen |-> [Idle.seen EXCEPT ![o] = status[o]],
                   target |-> STATUS_MAP(target)]]
    /\ emitted' = [emitted EXCEPT ![o] = @ \union {STATUS_MAP(target)}]
    /\ UNCHANGED <<status, deleted, age, idle, log, parent>>

\* The SELECT and validate_transition of update_order_status.
BeginUpdate(p, o, target) ==
    /\ txn[p].pc = "idle"
    /\ status[o] # Absent
    /\ validate_transition(STATUS_REVERSE(status[o]), target)
    /\ txn' = [txn EXCEPT ![p] =
                  [pc |-> "loaded", op |-> "update",
                   seen |-> [Idle.seen EXCEPT ![o] = status[o]],
                   target |-> STATUS_MAP(target)]]
    /\ UNCHANGED <<status, deleted, age, idle, log, parent, emitted>>

\* db.commit(): UPDATE orders ... WHERE id, without looking at the row again.
CommitUpdate(p) ==
    /\ txn[p].pc = "loaded"
    /\ txn[p].op = "update"
    /\ LET rows == Rows(txn[p]) IN
       /\ status' = [o \in Orders |-> IF o \in rows THEN txn[p].target
                                                    ELSE status[o]]
       /\ idle' = [o \in Orders |-> IF o \in rows THEN 0 ELSE idle[o]]
       /\ log' = [o \in Orders |->
                    IF o \in rows
                    THEN Append(log[o], [from |-> STATUS_REVERSE(txn[p].seen[o]),
                                         to   |-> txn[p].target])
                    ELSE log[o]]
    /\ txn' = [txn EXCEPT ![p] =
                  [pc |-> "committed", op |-> "update",
                   seen |-> txn[p].seen, target |-> txn[p].target]]
    /\ UNCHANGED <<deleted, age, parent, emitted>>

\* After the commit: notification, both dispatch_event calls, and the commit
\* of get_db that makes their rows durable.  There is no row for the status when
\* no target subscribes to its events, an exception is swallowed, or the
\* process dies.
PostCommit(p) ==
    /\ txn[p].pc = "committed"
    /\ \/ emitted' = [o \in Orders |-> IF o \in Rows(txn[p])
                                       THEN emitted[o] \union {txn[p].target}
                                       ELSE emitted[o]]
       \/ UNCHANGED emitted
    /\ txn' = [txn EXCEPT ![p] = Idle]
    /\ UNCHANGED <<status, deleted, age, idle, log, parent>>

-----------------------------------------------------------------------------
(* DELETE /orders/{id}                                                     *)

\* Mutant: delete_order does not look at the status.
BeginDeleteUnchecked(p, o) ==
    /\ txn[p].pc = "idle"
    /\ status[o] # Absent
    /\ txn' = [txn EXCEPT ![p] =
                  [pc |-> "loaded", op |-> "delete",
                   seen |-> [Idle.seen EXCEPT ![o] = status[o]],
                   target |-> "none"]]
    /\ UNCHANGED <<status, deleted, age, idle, log, parent, emitted>>

BeginDelete(p, o) ==
    /\ txn[p].pc = "idle"
    /\ status[o] # Absent
    /\ STATUS_REVERSE(status[o]) \notin Terminal
    /\ txn' = [txn EXCEPT ![p] =
                  [pc |-> "loaded", op |-> "delete",
                   seen |-> [Idle.seen EXCEPT ![o] = status[o]],
                   target |-> "none"]]
    /\ UNCHANGED <<status, deleted, age, idle, log, parent, emitted>>

\* Only the soft-delete columns are written (and updated_at, by onupdate).
CommitDelete(p) ==
    /\ txn[p].pc = "loaded"
    /\ txn[p].op = "delete"
    /\ deleted' = [o \in Orders |-> o \in Rows(txn[p]) \/ deleted[o]]
    /\ idle' = [o \in Orders |-> IF o \in Rows(txn[p]) THEN 0 ELSE idle[o]]
    /\ txn' = [txn EXCEPT ![p] = Idle]
    /\ UNCHANGED <<status, age, log, parent, emitted>>

-----------------------------------------------------------------------------
(* The periodic tasks: one SELECT, one commit for all rows selected.  None *)
(* of them looks at is_deleted.  When a task runs is left open, and if it  *)
(* ever does: src/celery_app.py, which beat and the workers are started    *)
(* with, has no schedule, and the tasks are coroutines that the worker     *)
(* would have to await.  They are modelled as written, for a worker that   *)
(* runs them, and nothing is claimed that needs them to run.               *)

InStatus ==
    [process_stale_orders        |-> {"processing", "picking"},
     auto_complete_picked_orders |-> {"picking"},
     cancel_abandoned_drafts     |-> {"pending"},
     cancel_expired_orders       |-> {"pending"},
     process_pending_orders      |-> {"pending"}]

\* The cutoff on updated_at of the tasks on orders in work, and on created_at
\* of the tasks on drafts.
MinIdle ==
    [process_stale_orders        |-> 1,
     auto_complete_picked_orders |-> 2,
     cancel_abandoned_drafts     |-> 0,
     cancel_expired_orders       |-> 0,
     process_pending_orders      |-> 0]

MinAge ==
    [process_stale_orders        |-> 0,
     auto_complete_picked_orders |-> 0,
     cancel_abandoned_drafts     |-> 2,
     cancel_expired_orders       |-> 3,
     process_pending_orders      |-> 1]

\* Mutant: auto_complete_picked_orders takes orders in processing, too.
DueInProcessing(task, o) ==
    /\ status[o] \in InStatus["process_stale_orders"]
    /\ idle[o] >= MinIdle[task]

Due(task, o) ==
    /\ status[o] \in InStatus[task]
    /\ idle[o] >= MinIdle[task]
    /\ age[o] >= MinAge[task]

\* The status a task writes; process_stale_orders writes none.
TaskTarget ==
    [process_stale_orders        |-> "none",
     auto_complete_picked_orders |-> "completed",
     cancel_abandoned_drafts     |-> "cancelled",
     cancel_expired_orders       |-> "cancelled",
     process_pending_orders      |-> "confirmed"]

\* The to_status of the history entry a task adds; the two tasks of
\* src/tasks/inventory.py add no entry.
TaskLog ==
    [process_stale_orders        |-> "flagged_stale",
     auto_complete_picked_orders |-> "completed",
     cancel_abandoned_drafts     |-> "cancelled"]

TaskEntries(task, seen) ==
    IF task \in DOMAIN TaskLog THEN <<[from |-> seen, to |-> TaskLog[task]]>>
                               ELSE <<>>

BeginTask(task) ==
    /\ txn[task].pc = "idle"
    /\ \E o \in Orders : Due(task, o)
    /\ txn' = [txn EXCEPT ![task] =
                  [pc |-> "loaded", op |-> task,
                   seen |-> [o \in Orders |-> IF Due(task, o) THEN status[o]
                                                              ELSE "unread"],
                   target |-> TaskTarget[task]]]
    /\ UNCHANGED <<status, deleted, age, idle, log, parent, emitted>>

\* MaxHistory bounds the re-flagging, which leaves updated_at alone and so
\* selects the same row again on every run of the task.
CommitTask(task) ==
    /\ txn[task].pc = "loaded"
    /\ LET rows == Rows(txn[task])
           writes == txn[task].target # "none"
       IN
       /\ task = "process_stale_orders" =>
             \A o \in rows : Len(log[o]) < MaxHistory
       /\ status' = [o \in Orders |-> IF o \in rows /\ writes
                                      THEN txn[task].target ELSE status[o]]
       /\ idle' = [o \in Orders |-> IF o \in rows /\ writes THEN 0 ELSE idle[o]]
       /\ log' = [o \in Orders |->
                    IF o \in rows
                    THEN log[o] \o TaskEntries(task, txn[task].seen[o])
                    ELSE log[o]]
    /\ txn' = [txn EXCEPT ![task] = Idle]
    /\ UNCHANGED <<deleted, age, parent, emitted>>

\* A database error or a killed worker before the commit: rollback.
Rollback(p) ==
    /\ txn[p].pc = "loaded"
    /\ txn' = [txn EXCEPT ![p] = Idle]
    /\ UNCHANGED <<status, deleted, age, idle, log, parent, emitted>>

-----------------------------------------------------------------------------
(* Time, kept while a cutoff can read it: created_at matters to drafts,    *)
(* updated_at to orders in work.                                           *)

Grow(o) ==
    /\ status[o] = "pending"
    /\ age[o] < MaxAge
    /\ age' = [age EXCEPT ![o] = @ + 1]
    /\ UNCHANGED <<status, deleted, idle, log, parent, emitted, txn>>

Rest(o) ==
    /\ status[o] \in {"processing", "picking"}
    /\ idle[o] < MaxIdle
    /\ idle' = [idle EXCEPT ![o] = @ + 1]
    /\ UNCHANGED <<status, deleted, age, log, parent, emitted, txn>>

-----------------------------------------------------------------------------
SessionStep(p) ==
    \/ \E o \in Orders :
          \/ \E t \in OrderStatus : BeginUpdate(p, o, t)
          \/ BeginDelete(p, o)
    \/ CommitUpdate(p)
    \/ PostCommit(p)
    \/ CommitDelete(p)
    \/ Rollback(p)

TaskStep(task) ==
    \/ BeginTask(task)
    \/ CommitTask(task)
    \/ Rollback(task)

Next ==
    \/ \E o \in Orders :
          \/ CreateOrder(o)
          \/ \E children \in SUBSET Orders : SplitOrder(o, children)
          \/ Grow(o)
          \/ Rest(o)
    \/ \E p \in Sessions : SessionStep(p)
    \/ \E task \in Tasks : TaskStep(task)

Spec == Init /\ [][Next]_vars

-----------------------------------------------------------------------------
(* Properties                                                              *)

\* Every variable has its type; a session keeps what it read until it ends.
TypeOK ==
    /\ status  \in [Orders -> OrderStatus \union {Absent}]
    /\ deleted \in [Orders -> BOOLEAN]
    /\ age     \in [Orders -> Ages]
    /\ idle    \in [Orders -> Idles]
    /\ log     \in [Orders -> Seq(LogEntry)]
    /\ parent  \in [Orders -> Orders \union {NoParent}]
    /\ emitted \in [Orders -> SUBSET OrderStatus]
    /\ txn     \in [Procs -> Txn]

\* The history h has an entry that ends in s.
Logged(h, s) == \E i \in 1..Len(h) : h[i].to = s

\* The history h has an entry that ends in s and a later one that ends in t.
LoggedInOrder(h, s, t) ==
    \E i, j \in 1..Len(h) : i < j /\ h[i].to = s /\ h[j].to = t

\* What the history h must show before its order can be in status s.
Trail(h, s) ==
    /\ s = "processing" => Logged(h, "processing")
    /\ s = "picking"    => LoggedInOrder(h, "processing", "picking")
    /\ s = "completed"  => /\ LoggedInOrder(h, "processing", "picking")
                           /\ LoggedInOrder(h, "picking", "completed")

\* However requests and tasks interleave (update_order_status and the tasks
\* commit what they decided on an older read), an order that is "completed"
\* has been through "processing", then "picking", then "completed" in its
\* recorded history: a stale read can repeat or undo a step, never skip one.
CompletedWasPicked == \A o \in Orders : Trail(log[o], status[o])

\* No webhook announces a status the order's history does not contain: the
\* dispatch_event calls of update_order_status come after its commit.
AnnouncedWasCommitted ==
    \A o \in Orders : \A s \in emitted[o] : Logged(log[o], s)

\* A terminal status ("# terminal" in ORDER_STATES) is never left.
TerminalIsFinal ==
    [][\A o \in Orders : status[o] \in Terminal => status'[o] = status[o]]_vars

\* A session decides on an open order only: whoever changes the status of an
\* order or soft-deletes it has read it in a status that is not terminal
\* (validate_transition, delete_order, the tasks' filters).  What makes it write
\* over a terminal status is nothing but the age of its read.
DecidedWhileOpen ==
    [][\A o \in Orders :
          \/ status[o] # Absent /\ status'[o] # status[o]
          \/ deleted'[o] # deleted[o]
          => \E p \in Procs : /\ txn[p].pc = "loaded" /\ txn'[p] # txn[p]
                             /\ o \in Rows(txn[p])
                             /\ txn[p].seen[o] \notin Terminal]_vars

\* No order returns to PENDING: the draft stage is entered once, whatever the
\* sessions had read.
DraftIsLeftOnce ==
    [][\A o \in Orders :
          status[o] \notin {Absent, "pending"} => status'[o] # "pending"]_vars

=============================================================================
