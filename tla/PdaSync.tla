------------------------------ MODULE PdaSync ------------------------------
(***************************************************************************)
(* The offline queue of a PDA: SyncQueueService (src/core/offline.py) on   *)
(* the device, process_pda_sync_queue (src/tasks/sync.py) that pushes it,  *)
(* and sync_push (src/api/v1/mobile.py), which appends to the outbox.      *)
(* Executions of the task overlap, crash, and lose answers.                *)
(*                                                                         *)
(* sync_push reports an item it could not append in an answer of status    *)
(* 200, and leaves the commit to get_db, which depending on the version of *)
(* FastAPI runs before or after the answer is sent: either may happen here. *)
(***************************************************************************)
EXTENDS Naturals, Sequences, FiniteSets

CONSTANTS
    Executions,      \* executions of the task that can overlap
    MaxRecords,      \* bound: records of the queue
    BatchSize        \* get_pending(limit): 50 in the code

ASSUME PdaAssumption == {MaxRecords, BatchSize} \subseteq Nat \ {0}

VARIABLES
    queue,       \* the statuses of the records, in the order of their ids
    job,         \* per execution: records to push, and the pushed ones
    server,      \* records whose event is in the outbox
    masked       \* records answered with 200 whose transaction then failed

pda_vars == <<queue, job, server, masked>>

Ids(S) == {i \in DOMAIN queue : queue[i] \in S}
NoJob == [on |-> FALSE, todo |-> {}, pushed |-> {}]

PdaInit ==
    /\ queue = <<>>
    /\ job = [x \in Executions |-> NoJob]
    /\ server = {}
    /\ masked = {}

\* The application on the device records a mutation.
Record ==
    /\ Len(queue) < MaxRecords
    /\ queue' = Append(queue, "pending")
    /\ UNCHANGED <<job, server, masked>>

\* The first BatchSize pending records by id.
get_pending(q) ==
    {i \in DOMAIN q : /\ q[i] = "pending"
                      /\ Cardinality({j \in 1..i : q[j] = "pending"}) <= BatchSize}

\* SyncQueueService() inserts its sample record every time: the table has no
\* key that INSERT OR IGNORE could run into.  Then get_pending.
process_pda_sync_queue(x) ==
    /\ ~job[x].on
    /\ Len(queue) < MaxRecords
    /\ queue' = Append(queue, "pending")
    /\ job' = [job EXCEPT ![x] = [on |-> TRUE, todo |-> get_pending(queue'),
                                  pushed |-> {}]]
    /\ UNCHANGED <<server, masked>>

Current(x) == CHOOSE i \in job[x].todo : \A j \in job[x].todo : i <= j

Pushed(x, i) ==
    [job EXCEPT ![x] = [on |-> TRUE, todo |-> job[x].todo \ {i},
                        pushed |-> job[x].pushed \union {i}]]
Failed(x, i) ==
    [job EXCEPT ![x] = [on |-> TRUE, todo |-> job[x].todo \ {i},
                        pushed |-> job[x].pushed]]

\* sync_push appends, get_db commits, and the device hears of it.
PushAccepted(x) ==
    /\ job[x].todo # {}
    /\ server' = server \union {Current(x)}
    /\ job' = Pushed(x, Current(x))
    /\ UNCHANGED <<queue, masked>>

\* The append or the commit fails after the 200 has been decided on.
PushMasked(x) ==
    /\ job[x].todo # {}
    /\ masked' = masked \union {Current(x)}
    /\ job' = Pushed(x, Current(x))
    /\ UNCHANGED <<queue, server>>

\* Mutant: raise_for_status is not called.
PushRaisesUnseen(x) ==
    /\ job[x].todo # {}
    /\ server' \in {server, server \union {Current(x)}}
    /\ job' = Pushed(x, Current(x))
    /\ UNCHANGED <<queue, masked>>

\* No answer, or an error: mark_failed, although the server may have it.
PushRaises(x) ==
    /\ job[x].todo # {}
    /\ server' \in {server, server \union {Current(x)}}
    /\ queue' = [queue EXCEPT ![Current(x)] = "failed"]
    /\ job' = Failed(x, Current(x))
    /\ UNCHANGED masked

\* mark_synced(pushed_ids), whatever the records say by now.
mark_synced(x) ==
    /\ job[x].on
    /\ job[x].todo = {}
    /\ queue' = [i \in DOMAIN queue |-> IF i \in job[x].pushed THEN "synced"
                                        ELSE queue[i]]
    /\ job' = [job EXCEPT ![x] = NoJob]
    /\ UNCHANGED <<server, masked>>

\* Pushed records that are not marked yet will be pushed again.
CrashTask(x) ==
    /\ job[x].on
    /\ job' = [job EXCEPT ![x] = NoJob]
    /\ UNCHANGED <<queue, server, masked>>

PdaNext ==
    \/ Record
    \/ \E x \in Executions :
          \/ process_pda_sync_queue(x)
          \/ PushAccepted(x) \/ PushMasked(x) \/ PushRaises(x)
          \/ mark_synced(x) \/ CrashTask(x)

PdaSpec == PdaInit /\ [][PdaNext]_pda_vars

-----------------------------------------------------------------------------
PdaTypeOK ==
    /\ queue \in Seq({"pending", "synced", "failed"})
    /\ \A x \in Executions : job[x].todo \union job[x].pushed \subseteq DOMAIN queue

\* A record the device believes to be synced is in the outbox of the server,
\* with overlapping and crashing executions and lost answers; the exception
\* is a transaction that failed behind an answer of status 200.
SyncedIsOnServer == Ids({"synced"}) \subseteq server \union masked

=============================================================================
