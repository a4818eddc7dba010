------------------------------- MODULE Outbox -------------------------------
(***************************************************************************)
(* The transactional outbox: the table of src/core/outbox.py and the task  *)
(* dispatch_outbox_events of src/tasks/outbox.py.  src/celeryconf.py has   *)
(* it started every minute, so one execution may still be sending when the *)
(* next begins; Workers are the executions that can overlap.               *)
(*                                                                         *)
(* Every database session of the module is one atomic step.  The row locks *)
(* of FOR UPDATE SKIP LOCKED end with the session of the poll, before the  *)
(* first POST, so no lock is held between two steps.                       *)
(*                                                                         *)
(* As the repository stands none of this runs: beat is started with        *)
(* src/celery_app.py, which has no schedule, the task is a coroutine that  *)
(* the worker does not await, and _get_session returns the session factory *)
(* instead of a session, so that dispatch_pending_events raises before it  *)
(* selects anything.  The module is the code behind those three faults, as *)
(* it is written: SessionOpens = FALSE is the third of them.               *)
(***************************************************************************)
EXTENDS Naturals, FiniteSets

CONSTANTS
    Events,       \* event ids, numbered by created_at
    Workers,      \* overlapping executions of the task
    Poison,       \* events the endpoint rejects every time
    BatchSize,    \* dispatch_pending_events(batch_size): 100 in the task
    SessionOpens  \* whether "async with _get_session()" yields a session

ASSUME EventsAssumption == Events \subseteq Nat
ASSUME PoisonAssumption == Poison \subseteq Events
ASSUME BatchAssumption  == BatchSize \in Nat \ {0}
ASSUME WiringAssumption == SessionOpens \in BOOLEAN

VARIABLES
    row,          \* outbox_events: status, retry_count, scheduled_at
    accepted,     \* events the endpoint has answered 2xx at least once
    worker        \* per execution: what the running task holds in memory

vars == <<row, accepted, worker>>

MaxRetries == 5

Row == [status    : {"absent", "pending", "dispatched", "failed"},
        retry     : 0..MaxRetries,
        scheduled : BOOLEAN]    \* scheduled_at lies in the future

Worker == [pc   : {"idle", "sending", "failing"},
           todo : SUBSET Events,   \* rest of the polled batch
           sent : SUBSET Events]   \* dispatched_ids

Resting == [pc |-> "idle", todo |-> {}, sent |-> {}]

Init ==
    /\ row = [e \in Events |-> [status |-> "absent", retry |-> 0, scheduled |-> FALSE]]
    /\ accepted = {}
    /\ worker = [w \in Workers |-> Resting]

-----------------------------------------------------------------------------
\* append_event and the commit of the caller's transaction.
Append(e) ==
    /\ row[e].status = "absent"
    /\ row' = [row EXCEPT ![e] = [status |-> "pending", retry |-> 0,
                                  scheduled |-> FALSE]]
    /\ UNCHANGED <<accepted, worker>>

\* The rows dispatch_pending_events may select, and its LIMIT in created_at
\* order.
Due == {e \in Events : row[e].status = "pending" /\ ~row[e].scheduled}

Batch == {e \in Due : Cardinality({x \in Due : x < e}) < BatchSize}

\* dispatch_pending_events
Poll(w) ==
    /\ SessionOpens
    /\ worker[w].pc = "idle"
    /\ Due # {}
    /\ worker' = [worker EXCEPT ![w] = [pc |-> "sending", todo |-> Batch, sent |-> {}]]
    /\ UNCHANGED <<row, accepted>>

\* The event the loop of dispatch_outbox_events is at.
Current(w, e) ==
    /\ e \in worker[w].todo
    /\ \A x \in worker[w].todo : e <= x

\* client.post answered 2xx: dispatched_ids.append(event.id).
PostAccepted(w, e) ==
    /\ worker[w].pc = "sending"
    /\ Current(w, e)
    /\ e \notin Poison
    /\ accepted' = accepted \union {e}
    /\ worker' = [worker EXCEPT ![w] = [pc   |-> "sending",
                                        todo |-> worker[w].todo \ {e},
                                        sent |-> worker[w].sent \union {e}]]
    /\ UNCHANGED row

\* client.post or raise_for_status raised: refused or unreachable, or
\* accepted with the answer lost (timeout=10).
PostRaised(w, e) ==
    /\ worker[w].pc = "sending"
    /\ Current(w, e)
    /\ \/ UNCHANGED accepted
       \/ e \notin Poison /\ accepted' = accepted \union {e}
    /\ worker' = [worker EXCEPT ![w] = [pc   |-> "failing",
                                        todo |-> worker[w].todo,
                                        sent |-> worker[w].sent]]
    /\ UNCHANGED row

\* Mutants: any row becomes failed; or goes back to the queue, counted.
mark_failed_unguarded(r) == [status |-> "failed", retry |-> r.retry, scheduled |-> TRUE]
mark_failed_requeue(r) ==
    [status |-> IF r.retry < MaxRetries THEN "pending" ELSE "failed",
     retry |-> IF r.retry < MaxRetries THEN r.retry + 1 ELSE r.retry,
     scheduled |-> TRUE]

\* What mark_failed makes of a row: both UPDATEs ask for DISPATCHED.
mark_failed(r) ==
    IF r.status # "dispatched" THEN r
    ELSE IF r.retry < MaxRetries
         THEN [status |-> "failed", retry |-> r.retry + 1, scheduled |-> TRUE]
         ELSE [status |-> "failed", retry |-> r.retry, scheduled |-> r.scheduled]

MarkFailed(w, e) ==
    /\ worker[w].pc = "failing"
    /\ Current(w, e)
    /\ row' = [row EXCEPT ![e] = mark_failed(row[e])]
    /\ worker' = [worker EXCEPT ![w] = [pc   |-> "sending",
                                        todo |-> worker[w].todo \ {e},
                                        sent |-> worker[w].sent]]
    /\ UNCHANGED accepted

\* Mutant: a status the enum does not have.
mark_published(ids) ==
    [e \in Events |-> IF e \in ids
                      THEN [status |-> "published", retry |-> row[e].retry,
                            scheduled |-> row[e].scheduled]
                      ELSE row[e]]

\* mark_dispatched: an UPDATE of the ids, whatever the rows' status is now.
mark_dispatched(ids) ==
    [e \in Events |-> IF e \in ids
                      THEN [status |-> "dispatched", retry |-> row[e].retry,
                            scheduled |-> row[e].scheduled]
                      ELSE row[e]]

MarkDispatched(w) ==
    /\ worker[w].pc = "sending"
    /\ worker[w].todo = {}
    /\ row' = mark_dispatched(worker[w].sent)
    /\ worker' = [worker EXCEPT ![w] = Resting]
    /\ UNCHANGED accepted

\* The worker is killed, or a session raises out of the task: what it had in
\* memory is gone.  There is no self.retry; the next beat polls again.
Crash(w) ==
    /\ worker[w].pc # "idle"
    /\ worker' = [worker EXCEPT ![w] = Resting]
    /\ UNCHANGED <<row, accepted>>

\* Sixty seconds pass: scheduled_at <= now().
BackoffOver(e) ==
    /\ row[e].scheduled
    /\ row' = [row EXCEPT ![e] = [status |-> row[e].status, retry |-> row[e].retry,
                                  scheduled |-> FALSE]]
    /\ UNCHANGED <<accepted, worker>>

-----------------------------------------------------------------------------
\* What an execution of the task does next.
Advance(w) ==
    \/ Poll(w)
    \/ \E e \in Events : PostAccepted(w, e) \/ PostRaised(w, e) \/ MarkFailed(w, e)
    \/ MarkDispatched(w)

CrashFree ==
    \/ \E e \in Events : Append(e) \/ BackoffOver(e)
    \/ \E w \in Workers : Advance(w)

Next == CrashFree \/ \E w \in Workers : Crash(w)

Spec == Init /\ [][Next]_vars

\* The best scheduling that the schedule of src/celeryconf.py could give, were it
\* in force: the task is started again and again and an execution goes on by
\* itself, workers are not killed for ever, the endpoint does not refuse a
\* deliverable event for ever.  The deployment gives none of it: nothing is shown
\* to hold under this assumption, and only a counterexample is looked for.
Fairness ==
    /\ \A w \in Workers : WF_vars(Advance(w))
    /\ \A e \in Events : SF_vars(\E w \in Workers : PostAccepted(w, e))
    /\ \A e \in Events : WF_vars(BackoffOver(e))
    /\ <>[][CrashFree]_vars

FairSpec == Spec /\ Fairness

-----------------------------------------------------------------------------
(* Properties                                                              *)

\* Rows, and what the executions hold, have their types; retry_count never
\* passes the cap of mark_failed.
TypeOK ==
    /\ row \in [Events -> Row]
    /\ accepted \subseteq Events
    /\ worker \in [Workers -> Worker]

Recorded == {e \in Events : row[e].status # "absent"}
Retired  == {e \in Events : row[e].status \in {"dispatched", "failed"}}

Contract == INSTANCE OutboxContract
                WITH recorded <- Recorded, retired <- Retired,
                     Deliverable <- Events \ Poison

\* The outbox is at-least-once: a row leaves PENDING only after the endpoint
\* has accepted the event, whatever crashes, lost answers and overlapping
\* executions do to mark_dispatched and mark_failed.
ImplementsContract == Contract!Spec

\* Every deliverable event that was recorded is accepted in the end.  Stated to
\* be refuted: Fairness is more than the deployment gives, so an event that is not
\* accepted under it is not accepted without it.
EventuallyAccepted == Contract!Delivery

\* A row that can still be polled carries no trace of an attempt, whatever
\* failed before: retry_count and scheduled_at, which mark_failed writes and the
\* poll reads, never delay or end the sending of an event.
PendingIsUntouched ==
    \A e \in Events : row[e].status = "pending" => row[e].retry = 0 /\ ~row[e].scheduled

\* No two executions work on the same event ("FOR UPDATE SKIP LOCKED to
\* prevent multiple workers from picking up the same events").
NoDoubleDispatch ==
    \A v, w \in Workers : v # w => worker[v].todo \intersect worker[w].todo = {}
=============================================================================
