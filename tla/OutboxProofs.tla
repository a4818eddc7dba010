---------------------------- MODULE OutboxProofs ----------------------------
(***************************************************************************)
(* Proofs about Outbox for any events, executions, batch size and wiring.  *)
(***************************************************************************)
EXTENDS Outbox, TLAPS

\* What an execution holds was recorded; what it will mark was accepted.
Held(k) == k.todo \subseteq Recorded /\ k.sent \subseteq accepted

HeldInv == \A w \in Workers : Held(worker[w])

DeliveryInv ==
    /\ TypeOK
    /\ HeldInv
    /\ accepted \subseteq Recorded
    /\ Retired \subseteq accepted

-----------------------------------------------------------------------------
(* Type correctness                                                        *)

\* What mark_failed makes of a row is a row, and only a dispatched one changes.
LEMMA MarkFailedType ==
    ASSUME NEW r \in Row
    PROVE  /\ mark_failed(r) \in Row
           /\ mark_failed(r) = r \/ (r.status = "dispatched" /\ mark_failed(r).status = "failed")
  BY DEF mark_failed, Row, MaxRetries

\* Replacing one execution's record keeps the type of all.
LEMMA WorkerUpdate ==
    ASSUME worker \in [Workers -> Worker], NEW w \in Workers, NEW k \in Worker,
           worker' = [worker EXCEPT ![w] = k]
    PROVE  worker' \in [Workers -> Worker] /\ \A v \in Workers : worker'[v] = IF v = w THEN k ELSE worker[v]
  OBVIOUS

\* Every step keeps the types.
LEMMA TypeStep == TypeOK /\ [Next]_vars => TypeOK'
  <1> SUFFICES ASSUME TypeOK, [Next]_vars PROVE TypeOK'
    OBVIOUS
  <1>a. row \in [Events -> Row]
    BY DEF TypeOK
  <1>b. worker \in [Workers -> Worker] /\ accepted \subseteq Events
    BY DEF TypeOK
  <1>c. \A e \in Events : /\ row[e] \in Row
                          /\ row[e].status \in {"absent", "pending", "dispatched", "failed"}
                          /\ row[e].retry \in 0..MaxRetries
                          /\ row[e].scheduled \in BOOLEAN
    BY <1>a DEF Row
  <1>1. ASSUME NEW e \in Events, Append(e) PROVE TypeOK'
    <2>1. [status |-> "pending", retry |-> 0, scheduled |-> FALSE] \in Row
      BY DEF Row, MaxRetries
    <2>2. row' \in [Events -> Row]
      BY <1>1, <1>a, <2>1 DEF Append
    <2>3. QED BY <1>1, <1>b, <2>2 DEF Append, TypeOK
  <1>2. ASSUME NEW e \in Events, BackoffOver(e) PROVE TypeOK'
    <2>1. [status |-> row[e].status, retry |-> row[e].retry, scheduled |-> FALSE] \in Row
      BY <1>c DEF Row
    <2>2. row' \in [Events -> Row]
      BY <1>2, <1>a, <2>1 DEF BackoffOver
    <2>3. QED BY <1>2, <1>b, <2>2 DEF BackoffOver, TypeOK
  <1>3. ASSUME NEW w \in Workers, Advance(w) \/ Crash(w) PROVE TypeOK'
    <2>0. /\ worker[w] \in Worker
          /\ worker[w].todo \in SUBSET Events
          /\ worker[w].sent \in SUBSET Events
      BY <1>b DEF Worker
    <2>1. CASE Poll(w)
      <3>1. [pc |-> "sending", todo |-> Batch, sent |-> {}] \in Worker
        BY DEF Worker, Batch, Due
      <3>2. QED BY <1>a, <1>b, <2>1, <3>1, WorkerUpdate DEF Poll, TypeOK
    <2>2. ASSUME NEW e \in Events, PostAccepted(w, e) PROVE TypeOK'
      <3>1. [pc |-> "sending", todo |-> worker[w].todo \ {e},
             sent |-> worker[w].sent \union {e}] \in Worker
        BY <2>0 DEF Worker
      <3>2. QED BY <1>a, <1>b, <2>2, <3>1, WorkerUpdate DEF PostAccepted, TypeOK
    <2>3. ASSUME NEW e \in Events, PostRaised(w, e) PROVE TypeOK'
      <3>1. [pc |-> "failing", todo |-> worker[w].todo, sent |-> worker[w].sent] \in Worker
        BY <2>0 DEF Worker
      <3>2. QED BY <1>a, <1>b, <2>3, <3>1, WorkerUpdate DEF PostRaised, TypeOK
    <2>4. ASSUME NEW e \in Events, MarkFailed(w, e) PROVE TypeOK'
      <3>1. [pc |-> "sending", todo |-> worker[w].todo \ {e}, sent |-> worker[w].sent] \in Worker
        BY <2>0 DEF Worker
      <3>2. row' \in [Events -> Row]
        BY <1>a, <1>c, <2>4, MarkFailedType DEF MarkFailed
      <3>3. QED BY <1>b, <2>4, <3>1, <3>2, WorkerUpdate DEF MarkFailed, TypeOK
    <2>5. CASE MarkDispatched(w)
      <3>1. \A e \in Events : [status |-> "dispatched", retry |-> row[e].retry,
                               scheduled |-> row[e].scheduled] \in Row
        BY <1>c DEF Row
      <3>2. row' \in [Events -> Row]
        BY <1>c, <2>5, <3>1 DEF MarkDispatched, mark_dispatched
      <3>3. Resting \in Worker
        BY DEF Resting, Worker
      <3>4. QED BY <1>b, <2>5, <3>2, <3>3, WorkerUpdate DEF MarkDispatched, TypeOK
    <2>6. CASE Crash(w)
      <3>1. Resting \in Worker
        BY DEF Resting, Worker
      <3>2. QED BY <1>a, <1>b, <2>6, <3>1, WorkerUpdate DEF Crash, TypeOK
    <2>7. QED BY <1>3, <2>1, <2>2, <2>3, <2>4, <2>5, <2>6 DEF Advance
  <1>4. CASE UNCHANGED vars
    BY <1>4 DEF vars, TypeOK
  <1>5. QED BY <1>1, <1>2, <1>3, <1>4 DEF Next, CrashFree

\* Type correctness of the outbox; retry_count never passes its cap of 5.
THEOREM OutboxTypes == Spec => []TypeOK
  <1>1. Init => TypeOK
    BY DEF Init, TypeOK, Row, Worker, Resting, MaxRetries
  <1>2. QED BY <1>1, TypeStep, PTL DEF Spec

-----------------------------------------------------------------------------
(* At-least-once delivery                                                  *)

\* Steps keep what the executions hold recorded and accepted, and each is a
\* step of the contract.
LEMMA ContractStep ==
    ASSUME DeliveryInv, Next
    PROVE  /\ HeldInv' /\ (accepted \subseteq Recorded)' /\ (Retired \subseteq accepted)'
           /\ Contract!Next \/ UNCHANGED <<Recorded, accepted, Retired>>
  <1> DEFINE Goal == /\ HeldInv' /\ (accepted \subseteq Recorded)' /\ (Retired \subseteq accepted)'
                     /\ Contract!Next \/ UNCHANGED <<Recorded, accepted, Retired>>
  <1>a. worker \in [Workers -> Worker]
    BY DEF DeliveryInv, TypeOK
  <1>b. row \in [Events -> Row] /\ accepted \subseteq Recorded /\ Retired \subseteq accepted
    BY DEF DeliveryInv, TypeOK
  <1>c. \A w \in Workers : worker[w].todo \subseteq Recorded /\ worker[w].sent \subseteq accepted
    BY DEF DeliveryInv, HeldInv, Held
  <1>d. Recorded \subseteq Events /\ Retired \subseteq Events
    BY DEF Recorded, Retired
  <1>e. ASSUME Recorded \subseteq Recorded', accepted \subseteq accepted', NEW w \in Workers,
               \A v \in Workers : v # w => worker'[v] = worker[v],
               worker'[w].todo \subseteq Recorded, worker'[w].sent \subseteq accepted'
        PROVE  HeldInv'
    BY <1>c, <1>e DEF HeldInv, Held
  <1>f. ASSUME NEW w \in Workers, NEW k, worker' = [worker EXCEPT ![w] = k]
        PROVE  worker'[w] = k /\ \A v \in Workers : v # w => worker'[v] = worker[v]
    BY <1>a, <1>f
  <1>g. Resting.todo = {} /\ Resting.sent = {}
    BY DEF Resting
  <1>1. ASSUME NEW e \in Events, Append(e) PROVE Goal
    <2>1. Recorded' = Recorded \union {e} /\ Retired' = Retired /\ e \notin Recorded
      BY <1>1, <1>b DEF Append, Recorded, Retired
    <2>2. Contract!Record(e)
      BY <1>1, <2>1 DEF Append, Contract!Record
    <2>3. HeldInv'
      BY <1>1, <1>c, <2>1 DEF Append, HeldInv, Held
    <2>4. QED BY <1>1, <1>b, <2>1, <2>2, <2>3 DEF Append, Contract!Next
  <1>2. ASSUME NEW e \in Events, BackoffOver(e) PROVE Goal
    <2>1. Recorded' = Recorded /\ Retired' = Retired
      BY <1>2, <1>b DEF BackoffOver, Recorded, Retired
    <2>2. HeldInv'
      BY <1>2, <1>c, <2>1 DEF BackoffOver, HeldInv, Held
    <2>3. QED BY <1>2, <1>b, <2>1, <2>2 DEF BackoffOver
  <1>3. ASSUME NEW w \in Workers, Advance(w) \/ Crash(w) PROVE Goal
    <2>1. CASE Poll(w)
      <3>1. Batch \subseteq Recorded
        BY DEF Batch, Due, Recorded
      <3>2. UNCHANGED <<row, accepted>>
        BY <2>1 DEF Poll
      <3>3. Recorded' = Recorded /\ Retired' = Retired
        BY <3>2 DEF Recorded, Retired
      <3>4. HeldInv'
        <4> DEFINE k == [pc |-> "sending", todo |-> Batch, sent |-> {}]
        <4>1. worker' = [worker EXCEPT ![w] = k] /\ k.todo = Batch /\ k.sent = {}
          BY <2>1 DEF Poll
        <4> HIDE DEF k
        <4>2. QED BY <1>e, <1>f, <3>1, <3>2, <3>3, <4>1
      <3>5. QED BY <1>b, <3>2, <3>3, <3>4
    <2>2. ASSUME NEW e \in Events, PostAccepted(w, e) PROVE Goal
      <3>1. e \in Recorded /\ accepted' = accepted \union {e}
        BY <1>c, <2>2 DEF PostAccepted, Current
      <3>2. Recorded' = Recorded /\ Retired' = Retired
        BY <2>2 DEF PostAccepted, Recorded, Retired
      <3>3. HeldInv'
        <4> DEFINE k == [pc |-> "sending", todo |-> worker[w].todo \ {e},
                         sent |-> worker[w].sent \union {e}]
        <4>1. /\ worker' = [worker EXCEPT ![w] = k]
              /\ k.todo \subseteq worker[w].todo /\ k.sent = worker[w].sent \union {e}
          BY <2>2 DEF PostAccepted
        <4> HIDE DEF k
        <4>2. QED BY <1>c, <1>e, <1>f, <3>1, <3>2, <4>1
      <3>4. Contract!Accept(e)
        BY <3>1, <3>2 DEF Contract!Accept
      <3>5. QED BY <1>b, <3>1, <3>2, <3>3, <3>4 DEF Contract!Next
    <2>3. ASSUME NEW e \in Events, PostRaised(w, e) PROVE Goal
      <3>1. e \in Recorded /\ (accepted' = accepted \/ accepted' = accepted \union {e})
        BY <1>c, <2>3 DEF PostRaised, Current
      <3>2. Recorded' = Recorded /\ Retired' = Retired
        BY <2>3 DEF PostRaised, Recorded, Retired
      <3>3. HeldInv'
        <4> DEFINE k == [pc |-> "failing", todo |-> worker[w].todo, sent |-> worker[w].sent]
        <4>1. /\ worker' = [worker EXCEPT ![w] = k]
              /\ k.todo = worker[w].todo /\ k.sent = worker[w].sent
          BY <2>3 DEF PostRaised
        <4> HIDE DEF k
        <4>2. QED BY <1>c, <1>e, <1>f, <3>1, <3>2, <4>1
      <3>4. CASE accepted' = accepted
        BY <1>b, <3>2, <3>3, <3>4
      <3>5. CASE accepted' = accepted \union {e}
        <4>1. Contract!Accept(e)
          BY <3>1, <3>2, <3>5 DEF Contract!Accept
        <4>2. QED BY <1>b, <3>1, <3>2, <3>3, <3>5, <4>1 DEF Contract!Next
      <3>6. QED BY <3>1, <3>4, <3>5
    <2>4. ASSUME NEW e \in Events, MarkFailed(w, e) PROVE Goal
      <3>1. \/ row'[e] = row[e]
            \/ row[e].status = "dispatched" /\ row'[e].status = "failed"
        BY <1>b, <2>4, MarkFailedType DEF MarkFailed
      <3>2. \A x \in Events : x # e => row'[x] = row[x]
        BY <1>b, <2>4 DEF MarkFailed
      <3>3. Recorded' = Recorded /\ Retired' = Retired
        BY <3>1, <3>2 DEF Recorded, Retired
      <3>4. HeldInv' /\ accepted' = accepted
        <4> DEFINE k == [pc |-> "sending", todo |-> worker[w].todo \ {e}, sent |-> worker[w].sent]
        <4>1. /\ worker' = [worker EXCEPT ![w] = k] /\ accepted' = accepted
              /\ k.todo \subseteq worker[w].todo /\ k.sent = worker[w].sent
          BY <2>4 DEF MarkFailed
        <4> HIDE DEF k
        <4>2. QED BY <1>c, <1>e, <1>f, <3>3, <4>1
      <3>5. QED BY <1>b, <3>3, <3>4
    <2>5. CASE MarkDispatched(w)
      <3> DEFINE ids == worker[w].sent
      <3>1. ids \subseteq accepted /\ ids \subseteq Recorded /\ ids \subseteq Events
        BY <1>b, <1>c, <1>d
      <3>2. \A x \in Events : IF x \in ids THEN row'[x].status = "dispatched" ELSE row'[x] = row[x]
        BY <2>5 DEF MarkDispatched, mark_dispatched
      <3>3. Recorded' = Recorded /\ Retired' = Retired \union ids
        BY <3>1, <3>2 DEF Recorded, Retired
      <3>4. HeldInv' /\ accepted' = accepted
        <4>1. worker' = [worker EXCEPT ![w] = Resting] /\ accepted' = accepted
          BY <2>5 DEF MarkDispatched
        <4>2. QED BY <1>e, <1>f, <1>g, <3>3, <4>1
      <3>5. Contract!Retire(ids)
        BY <3>1, <3>3, <3>4 DEF Contract!Retire
      <3>6. QED BY <1>b, <3>1, <3>3, <3>4, <3>5 DEF Contract!Next
    <2>6. CASE Crash(w)
      <3>1. Recorded' = Recorded /\ Retired' = Retired /\ accepted' = accepted
        BY <2>6 DEF Crash, Recorded, Retired
      <3>2. HeldInv'
        <4>1. worker' = [worker EXCEPT ![w] = Resting]
          BY <2>6 DEF Crash
        <4>2. QED BY <1>e, <1>f, <1>g, <3>1, <4>1
      <3>3. QED BY <1>b, <3>1, <3>2
    <2>7. QED BY <1>3, <2>1, <2>2, <2>3, <2>4, <2>5, <2>6 DEF Advance
  <1>4. QED BY <1>1, <1>2, <1>3 DEF Next, CrashFree

\* The outbox implements its contract: with any number of overlapping
\* executions, crashes and lost answers, an event leaves PENDING only after the
\* endpoint has accepted it.
THEOREM OutboxAtLeastOnce == Spec => ImplementsContract
  <1>1. Init => DeliveryInv /\ Contract!Init
    BY DEF Init, DeliveryInv, HeldInv, Held, TypeOK, Row, Worker, Resting, MaxRetries,
           Recorded, Retired, Contract!Init
  <1>2. DeliveryInv /\ [Next]_vars =>
           DeliveryInv' /\ [Contract!Next]_<<Recorded, accepted, Retired>>
    <2>1. CASE Next
      BY <2>1, ContractStep, TypeStep DEF DeliveryInv
    <2>2. CASE UNCHANGED vars
      BY <2>2 DEF vars, DeliveryInv, HeldInv, Held, TypeOK, Recorded, Retired
    <2>3. QED BY <2>1, <2>2
  <1>3. QED BY <1>1, <1>2, PTL DEF Spec, ImplementsContract, Contract!Spec

-----------------------------------------------------------------------------
(* The backoff columns                                                     *)

\* Steps never leave a trace of an attempt on a pending row.
LEMMA PendingStep ==
    ASSUME TypeOK, PendingIsUntouched, Next PROVE PendingIsUntouched'
  <1> SUFFICES ASSUME NEW x \in Events, row'[x].status = "pending"
               PROVE  row'[x].retry = 0 /\ ~row'[x].scheduled
    BY DEF PendingIsUntouched
  <1>a. row \in [Events -> Row]
    BY DEF TypeOK
  <1>b. CASE row'[x] = row[x]
    BY <1>b DEF PendingIsUntouched
  <1>1. ASSUME NEW e \in Events, Append(e) PROVE row'[x].retry = 0 /\ ~row'[x].scheduled
    BY <1>1, <1>a, <1>b DEF Append
  <1>2. ASSUME NEW e \in Events, BackoffOver(e) PROVE row'[x].retry = 0 /\ ~row'[x].scheduled
    BY <1>2, <1>a, <1>b DEF BackoffOver, PendingIsUntouched
  <1>3. ASSUME NEW w \in Workers, Advance(w) \/ Crash(w) PROVE row'[x].retry = 0 /\ ~row'[x].scheduled
    <2>1. CASE UNCHANGED row
      BY <1>b, <2>1
    <2>2. ASSUME NEW e \in Events, MarkFailed(w, e) PROVE row'[x] = row[x]
      BY <1>a, <2>2, MarkFailedType DEF MarkFailed
    <2>3. CASE MarkDispatched(w)
      BY <1>b, <2>3 DEF MarkDispatched, mark_dispatched
    <2>4. QED BY <1>3, <1>b, <2>1, <2>2, <2>3
              DEF Advance, Poll, PostAccepted, PostRaised, Crash
  <1>4. QED BY <1>1, <1>2, <1>3 DEF Next, CrashFree

\* The retry counter and the backoff of mark_failed never reach a row that can
\* be polled, for any number of failures.
THEOREM OutboxBackoffUnused == Spec => []PendingIsUntouched
  <1>1. Init => PendingIsUntouched
    BY DEF Init, PendingIsUntouched
  <1>2. TypeOK /\ PendingIsUntouched /\ [Next]_vars => PendingIsUntouched'
    BY PendingStep DEF vars, PendingIsUntouched
  <1>3. QED BY <1>1, <1>2, OutboxTypes, PTL DEF Spec
=============================================================================
