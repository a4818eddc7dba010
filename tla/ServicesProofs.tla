--------------------------- MODULE ServicesProofs ---------------------------
(***************************************************************************)
(* Theorems about the parts that live in the server processes and Redis,   *)
(* one section per part: the plan lock, the cache of results, the token    *)
(* store, the PDA synchronisation, the rate limiter, the WebSocket         *)
(* connections; and at the end the parts together.                         *)
(***************************************************************************)
EXTENDS MCServices, PlanningProofs, SumTheorems, SequenceTheorems

-----------------------------------------------------------------------------
(***************************************************************************)
(* The lock around generate_route_plan excludes, for any number of calls,  *)
(* as long as nothing has gone wrong since the last time nobody was        *)
(* inside.                                                                 *)
(***************************************************************************)

\* Without an excuse, a call that is inside runs under the lock, the key in
\* Redis is the one it has set itself, and its function has not raised.
HoldsOwnLock ==
    ~excused => \A r \in Callers :
                   Inside(r) => stage[r] \in {"locked", "release"} /\ lock = Taken(r)

LockInv == stage \in [Callers -> Stages] /\ HoldsOwnLock

\* The key of one call is not that of another, and no key is Free.
LEMMA KeysDiffer ==
    ASSUME NEW q, NEW r
    PROVE  Taken(q) # Free /\ (Taken(q) = Taken(r) => q = r)
BY DEF Taken, Free

\* A step of r to stage s keeps what the others hold, provided that r's own
\* new stage is in order and the key is only given up by its owner.
LEMMA GoesKeeps ==
    ASSUME LockInv, NEW r \in Callers, NEW s \in Stages, NEW excuse \in BOOLEAN,
           excused \in BOOLEAN,
           Goes(r, s, excuse),
           (~excused /\ ~excuse /\ s \notin {"idle", "down"}) =>
               s \in {"locked", "release"} /\ lock' = Taken(r),
           (~excused /\ ~excuse) =>
               \A q \in Callers \ {r} : Inside(q) => lock' = Taken(q)
    PROVE  LockInv' /\ excused' \in BOOLEAN
<1>1. stage' \in [Callers -> Stages]
  BY DEF LockInv, Goes
<1>2. HoldsOwnLock'
  <2> SUFFICES ASSUME ~excused', NEW q \in Callers, Inside(q)'
               PROVE  stage'[q] \in {"locked", "release"} /\ lock' = Taken(q)
    BY DEF HoldsOwnLock, Taken
  <2>1. ~excused /\ ~excuse
    BY DEF Goes
  <2>2. CASE q = r
    <3>1. stage'[r] = s /\ s \notin {"idle", "down"}
      BY <2>2 DEF Goes, LockInv, Inside
    <3> QED BY <2>1, <2>2, <3>1
  <2>3. CASE q # r
    <3>1. stage'[q] = stage[q] /\ Inside(q)
      BY <2>3 DEF Goes, LockInv, Inside
    <3> QED BY <2>1, <2>3, <3>1 DEF LockInv, HoldsOwnLock
  <2> QED BY <2>2, <2>3
<1>3. excused' \in BOOLEAN
  BY DEF Goes
<1> QED BY <1>1, <1>2, <1>3 DEF LockInv

LockIInv == LockInv /\ excused \in BOOLEAN

\* Without an excuse nobody is inside while the key is free, and nobody else
\* while a call holds it.
LEMMA OwnerIsAlone ==
    ASSUME LockIInv, ~excused
    PROVE  /\ lock = Free => \A q \in Callers : ~Inside(q)
           /\ \A q, r \in Callers : Inside(q) /\ Inside(r) => q = r
<1>1. \A q \in Callers : Inside(q) => lock = Taken(q)
  BY DEF LockIInv, LockInv, HoldsOwnLock
<1> QED BY <1>1, KeysDiffer

\* Initially nobody is inside.
LEMMA LockInit_Inv == LockInit => LockIInv
<1> SUFFICES ASSUME LockInit PROVE LockIInv
  OBVIOUS
<1>1. stage \in [Callers -> Stages] /\ excused \in BOOLEAN
  BY DEF LockInit, Stages
<1>2. \A r \in Callers : ~Inside(r)
  BY DEF LockInit, Inside
<1> QED BY <1>1, <1>2 DEF LockIInv, LockInv, HoldsOwnLock

\* Every step keeps the invariant: one case per action of LockNext.
LEMMA LockNext_Inv == LockIInv /\ [LockNext]_lock_vars => LockIInv'
<1> SUFFICES ASSUME LockIInv, [LockNext]_lock_vars PROVE LockIInv'
  OBVIOUS
<1>0. LockInv /\ excused \in BOOLEAN
  BY DEF LockIInv
<1>a. ASSUME NEW r \in Callers, acquire(r) PROVE LockIInv'
  <2>1. Goes(r, "locked", FALSE) /\ lock' = Taken(r) /\ lock = Free
    BY <1>a DEF acquire
  <2>2. ~excused => \A q \in Callers : ~Inside(q)
    BY <2>1, OwnerIsAlone
  <2> QED BY <1>0, <2>1, <2>2, GoesKeeps DEF Stages, LockIInv
<1>b. ASSUME NEW r \in Callers, AcquireRaises(r) PROVE LockIInv'
  <2>1. Goes(r, "bare", TRUE)
    BY <1>b DEF AcquireRaises
  <2> QED BY <1>0, <2>1, GoesKeeps DEF Stages, LockIInv
<1>c. ASSUME NEW r \in Callers, FuncReturns(r) PROVE LockIInv'
  <2> DEFINE s == IF stage[r] = "locked" THEN "release" ELSE "idle"
  <2>1. Goes(r, s, FALSE) /\ lock' = lock /\ Inside(r)
    BY <1>c DEF FuncReturns, Inside
  <2>2. ~excused => /\ lock = Taken(r)
                    /\ \A q \in Callers \ {r} : ~Inside(q)
    BY <1>0, <2>1, OwnerIsAlone DEF LockInv, HoldsOwnLock
  <2>3. s \in Stages /\ (s \notin {"idle", "down"} => s \in {"locked", "release"})
    BY DEF Stages
  <2> HIDE DEF s
  <2> QED BY <1>0, <2>1, <2>2, <2>3, GoesKeeps DEF LockIInv
<1>d. ASSUME NEW r \in Callers, FuncRaises(r) PROVE LockIInv'
  <2> DEFINE s == IF stage[r] = "locked" THEN "release_raising" ELSE "idle"
  <2>1. Goes(r, s, TRUE)
    BY <1>d DEF FuncRaises
  <2>2. s \in Stages
    BY DEF Stages
  <2> HIDE DEF s
  <2> QED BY <1>0, <2>1, <2>2, GoesKeeps DEF LockIInv
<1>e. ASSUME NEW r \in Callers, release(r) PROVE LockIInv'
  <2> DEFINE s == IF stage[r] = "release" THEN "idle" ELSE "bare"
  <2>1. Goes(r, s, FALSE) /\ Inside(r)
    BY <1>e DEF release, Inside
  <2>2. ~excused => /\ stage[r] \in {"locked", "release"}
                    /\ \A q \in Callers \ {r} : ~Inside(q)
    BY <1>0, <2>1, OwnerIsAlone DEF LockInv, HoldsOwnLock
  <2>3. s \in Stages /\ (~excused => s = "idle")
    BY <1>e, <2>2 DEF Stages, release
  <2> HIDE DEF s
  <2> QED BY <1>0, <2>1, <2>2, <2>3, GoesKeeps DEF LockIInv
<1>f. ASSUME NEW r \in Callers, ReleaseRaises(r) PROVE LockIInv'
  <2>1. Goes(r, "bare", TRUE)
    BY <1>f DEF ReleaseRaises
  <2> QED BY <1>0, <2>1, GoesKeeps DEF Stages, LockIInv
<1>g. ASSUME NEW r \in Callers, CrashCaller(r) PROVE LockIInv'
  <2>1. Goes(r, "down", FALSE) /\ lock' = lock
    BY <1>g DEF CrashCaller
  <2>2. ~excused => \A q \in Callers : Inside(q) => lock = Taken(q)
    BY <1>0 DEF LockInv, HoldsOwnLock
  <2> QED BY <1>0, <2>1, <2>2, GoesKeeps DEF Stages, LockIInv
<1>h. ASSUME NEW r \in Callers, Restart(r) PROVE LockIInv'
  <2>1. Goes(r, "idle", FALSE) /\ lock' = lock
    BY <1>h DEF Restart
  <2>2. ~excused => \A q \in Callers : Inside(q) => lock = Taken(q)
    BY <1>0 DEF LockInv, HoldsOwnLock
  <2> QED BY <1>0, <2>1, <2>2, GoesKeeps DEF Stages, LockIInv
<1>i. ASSUME Expire PROVE LockIInv'
  <2>1. /\ stage' = stage /\ excused' \in BOOLEAN
        /\ ~excused' => ~excused /\ \A r \in Callers : lock.by = r => ~Inside(r)
    BY <1>0, <1>i DEF Expire
  <2>2. ASSUME ~excused', NEW r \in Callers PROVE ~Inside(r)'
    <3>1. Inside(r) => lock.by = r
      BY <1>0, <2>1, <2>2 DEF LockInv, HoldsOwnLock, Taken
    <3> QED BY <2>1, <2>2, <3>1 DEF Inside
  <2> QED BY <1>0, <2>1, <2>2 DEF LockIInv, LockInv, HoldsOwnLock
<1>j. CASE UNCHANGED lock_vars
  BY <1>0, <1>j DEF LockIInv, LockInv, HoldsOwnLock, Inside, Taken, lock_vars
<1> QED
  BY <1>a, <1>b, <1>c, <1>d, <1>e, <1>f, <1>g, <1>h, <1>i, <1>j DEF LockNext

\* For any number of concurrent calls of generate_route_plan, holders that
\* crash included: two are inside at once only after a Redis call failed, the
\* function raised or a lock expired under its holder.
THEOREM LockExcludes == LockSpec => []AloneUnlessExcused
<1>1. LockIInv => AloneUnlessExcused
  BY OwnerIsAlone DEF AloneUnlessExcused
<1> QED
  BY <1>1, LockInit_Inv, LockNext_Inv, PTL DEF LockSpec

-----------------------------------------------------------------------------
(***************************************************************************)
(* How stale an answer of a cached read can be, for any number of calls,   *)
(* any time to live and any delay between a call's read and its SET.       *)
(***************************************************************************)

CacheTypes ==
    /\ clock \in Times
    /\ row \in Times /\ row <= clock
    /\ changed \in [Times -> Times \union {NotYet}]
    /\ \/ entry = NoEntry
       \/ entry \in [value : Times, until : Nat]
    /\ filling \in [Readers -> [value : Times, at : Times] \union {NoFill}]

\* The value was still that of the row at the time t.
CurrentAt(v, t) == t <= changed[v]

\* A call that is going to fill the cache read the row at most MaxFill ago.
FillingIsRecent ==
    \A r \in Readers : filling[r] # NoFill =>
        /\ filling[r].at <= clock
        /\ clock - filling[r].at <= MaxFill
        /\ CurrentAt(filling[r].value, filling[r].at)

\* The entry has not expired, and its value was current when it was read.
EntryIsRecent ==
    entry # NoEntry =>
        /\ clock < entry.until
        /\ entry.until <= clock + Ttl
        /\ CurrentAt(entry.value, entry.until - Ttl - MaxFill)

\* The value of the row, and those still to come, have not been replaced.
RowIsCurrent == \A v \in Times : row <= v => changed[v] = NotYet

CacheInv == CacheTypes /\ FillingIsRecent /\ EntryIsRecent /\ RowIsCurrent

\* The constants of the cache, and NotYet beyond every time.
LEMMA ConstantsAreNat ==
    /\ Ttl \in Nat /\ Ttl > 0 /\ MaxFill \in Nat /\ MaxClock \in Nat
    /\ NotYet \in Nat /\ NotYet \notin Times /\ \A t \in Times : t \in Nat /\ t < NotYet
    /\ 0 \in Times
BY CacheAssumption DEF NotYet, Times

\* Initially nothing is cached and nothing on its way.
LEMMA CacheInit_Inv == CacheInit => CacheInv
<1> SUFFICES ASSUME CacheInit PROVE CacheInv
  OBVIOUS
<1>1. CacheTypes
  BY ConstantsAreNat DEF CacheInit, CacheTypes
<1>2. FillingIsRecent /\ EntryIsRecent /\ RowIsCurrent
  BY DEF CacheInit, FillingIsRecent, EntryIsRecent, RowIsCurrent
<1> QED BY <1>1, <1>2 DEF CacheInv

\* The facts about one call, for the steps below.
LEMMA FillingFacts ==
    ASSUME CacheInv, NEW r \in Readers, filling[r] # NoFill
    PROVE  /\ filling[r] \in [value : Times, at : Times]
           /\ filling[r].value \in Times /\ filling[r].at \in Times
           /\ filling[r].at <= clock /\ clock - filling[r].at <= MaxFill
           /\ filling[r].at <= changed[filling[r].value]
BY DEF CacheInv, CacheTypes, FillingIsRecent, CurrentAt

\* The facts about the entry.
LEMMA EntryFacts ==
    ASSUME CacheInv, entry # NoEntry
    PROVE  /\ entry.value \in Times /\ entry.until \in Nat
           /\ clock < entry.until /\ entry.until <= clock + Ttl
           /\ entry.until - Ttl - MaxFill <= changed[entry.value]
BY DEF CacheInv, CacheTypes, EntryIsRecent, CurrentAt

\* Every step keeps the invariant: one case per action of CacheNext.
LEMMA CacheNext_Inv == CacheInv /\ [CacheNext]_cache_vars => CacheInv'
<1> SUFFICES ASSUME CacheInv, [CacheNext]_cache_vars PROVE CacheInv'
  OBVIOUS
<1>0. CacheTypes /\ clock \in Nat
  BY ConstantsAreNat DEF CacheInv, CacheTypes
<1>a. CASE Change
  <2>1. /\ clock' = clock /\ entry' = entry /\ filling' = filling
        /\ row' = clock /\ changed' = [changed EXCEPT ![row] = clock]
    BY <1>a DEF Change
  <2>2. CacheTypes'
    BY <1>0, <2>1, ConstantsAreNat DEF CacheTypes
  <2>3. \A v \in Times : changed'[v] = changed[v] \/ changed'[v] = clock
    BY <1>0, <2>1 DEF CacheTypes
  <2>4. FillingIsRecent'
    <3> SUFFICES ASSUME NEW r \in Readers, filling[r] # NoFill
                 PROVE  /\ filling[r].at <= clock
                        /\ clock - filling[r].at <= MaxFill
                        /\ filling[r].at <= changed'[filling[r].value]
      BY <2>1 DEF FillingIsRecent, CurrentAt
    <3> QED BY <2>3, FillingFacts
  <2>5. EntryIsRecent'
    <3> SUFFICES ASSUME entry # NoEntry
                 PROVE  /\ clock < entry.until
                        /\ entry.until <= clock + Ttl
                        /\ entry.until - Ttl - MaxFill <= changed'[entry.value]
      BY <2>1 DEF EntryIsRecent, CurrentAt, NoEntry
    <3>1. entry.until - Ttl - MaxFill <= clock
      BY <1>0, EntryFacts, ConstantsAreNat
    <3> QED BY <2>3, <3>1, EntryFacts
  <2>6. RowIsCurrent'
    <3> SUFFICES ASSUME NEW v \in Times, clock <= v PROVE changed'[v] = NotYet
      BY <2>1 DEF RowIsCurrent
    <3>1. row < v /\ row \in Times
      BY <1>0, <1>a, ConstantsAreNat DEF Change, CacheTypes
    <3> QED BY <1>0, <2>1, <3>1, ConstantsAreNat DEF CacheInv, RowIsCurrent, CacheTypes
  <2> QED BY <2>2, <2>4, <2>5, <2>6 DEF CacheInv
<1>b. ASSUME NEW r \in Readers, Miss(r) PROVE CacheInv'
  <2> DEFINE new == [value |-> row, at |-> clock]
  <2>1. /\ filling' = [filling EXCEPT ![r] = new]
        /\ UNCHANGED <<clock, row, changed, entry>>
    BY <1>b DEF Miss
  <2>2. new \in [value : Times, at : Times] /\ new.value = row /\ new.at = clock
    BY <1>0 DEF CacheTypes
  <2> HIDE DEF new
  <2>3. CacheTypes'
    BY <1>0, <2>1, <2>2 DEF CacheTypes
  <2>4. clock <= changed[row] /\ clock - clock <= MaxFill /\ clock <= clock
    BY <1>0, ConstantsAreNat DEF CacheInv, RowIsCurrent, CacheTypes
  <2>5. FillingIsRecent'
    <3> SUFFICES ASSUME NEW q \in Readers, filling'[q] # NoFill
                 PROVE  /\ filling'[q].at <= clock
                        /\ clock - filling'[q].at <= MaxFill
                        /\ filling'[q].at <= changed[filling'[q].value]
      BY <2>1 DEF FillingIsRecent, CurrentAt
    <3>1. CASE q = r
      BY <1>0, <2>1, <2>2, <2>4, <3>1 DEF CacheTypes
    <3>2. CASE q # r
      BY <1>0, <2>1, <3>2, FillingFacts DEF CacheTypes
    <3> QED BY <3>1, <3>2
  <2> QED BY <2>1, <2>3, <2>5 DEF CacheInv, EntryIsRecent, CurrentAt, RowIsCurrent
<1>c. ASSUME NEW r \in Readers, Fill(r) PROVE CacheInv'
  <2> DEFINE new == [value |-> filling[r].value, until |-> clock + Ttl]
  <2>1. /\ filling[r] # NoFill
        /\ entry' = new
        /\ filling' = [filling EXCEPT ![r] = NoFill]
        /\ UNCHANGED <<clock, row, changed>>
    BY <1>c DEF Fill
  <2>2. /\ new \in [value : Times, until : Nat]
        /\ new.value = filling[r].value /\ new.until = clock + Ttl
    BY <1>0, <2>1, FillingFacts, ConstantsAreNat
  <2> HIDE DEF new
  <2>3. CacheTypes'
    BY <1>0, <2>1, <2>2 DEF CacheTypes
  <2>4. FillingIsRecent'
    <3> SUFFICES ASSUME NEW q \in Readers, filling'[q] # NoFill
                 PROVE  /\ filling'[q].at <= clock
                        /\ clock - filling'[q].at <= MaxFill
                        /\ filling'[q].at <= changed[filling'[q].value]
      BY <2>1 DEF FillingIsRecent, CurrentAt
    <3>1. filling'[q] = filling[q]
      BY <1>0, <2>1 DEF CacheTypes
    <3> QED BY <3>1, FillingFacts
  <2>5. EntryIsRecent'
    <3>1. (clock + Ttl) - Ttl - MaxFill <= changed[filling[r].value]
      <4>1. (clock + Ttl) - Ttl - MaxFill <= filling[r].at
        BY <1>0, <2>1, FillingFacts, ConstantsAreNat
      <4>2. changed[filling[r].value] \in Nat
        BY <1>0, <2>1, FillingFacts, ConstantsAreNat DEF CacheTypes
      <4> QED BY <1>0, <2>1, <4>1, <4>2, FillingFacts, ConstantsAreNat
    <3>2. clock < clock + Ttl /\ clock + Ttl <= clock + Ttl
      BY <1>0, ConstantsAreNat
    <3> QED BY <2>1, <2>2, <3>1, <3>2 DEF EntryIsRecent, CurrentAt
  <2> QED BY <2>1, <2>3, <2>4, <2>5 DEF CacheInv, RowIsCurrent
<1>d. ASSUME NEW r \in Readers, FillRaises(r) PROVE CacheInv'
  <2>1. /\ filling' = [filling EXCEPT ![r] = NoFill]
        /\ UNCHANGED <<clock, row, changed, entry>>
    BY <1>d DEF FillRaises
  <2>2. CacheTypes'
    BY <1>0, <2>1 DEF CacheTypes
  <2>3. FillingIsRecent'
    <3> SUFFICES ASSUME NEW q \in Readers, filling'[q] # NoFill
                 PROVE  /\ filling'[q].at <= clock
                        /\ clock - filling'[q].at <= MaxFill
                        /\ filling'[q].at <= changed[filling'[q].value]
      BY <2>1 DEF FillingIsRecent, CurrentAt
    <3>1. filling'[q] = filling[q]
      BY <1>0, <2>1 DEF CacheTypes
    <3> QED BY <3>1, FillingFacts
  <2> QED BY <2>1, <2>2, <2>3 DEF CacheInv, EntryIsRecent, CurrentAt, RowIsCurrent
<1>e. CASE Wait
  <2>1. /\ clock < MaxClock /\ clock' = clock + 1
        /\ \A r \in Readers : filling[r] # NoFill => clock - filling[r].at < MaxFill
        /\ entry' = IF entry.until <= clock + 1 THEN NoEntry ELSE entry
        /\ UNCHANGED <<row, changed, filling>>
    BY <1>e DEF Wait
  <2>2. CacheTypes'
    <3>1. clock' \in Times /\ row' <= clock'
      BY <1>0, <2>1, ConstantsAreNat DEF CacheTypes, Times
    <3> QED BY <1>0, <2>1, <3>1 DEF CacheTypes
  <2>3. FillingIsRecent'
    <3> SUFFICES ASSUME NEW q \in Readers, filling[q] # NoFill
                 PROVE  /\ filling[q].at <= clock + 1
                        /\ (clock + 1) - filling[q].at <= MaxFill
                        /\ filling[q].at <= changed[filling[q].value]
      BY <2>1 DEF FillingIsRecent, CurrentAt
    <3>1. clock - filling[q].at < MaxFill
      BY <2>1
    <3> QED BY <1>0, <3>1, FillingFacts, ConstantsAreNat
  <2>4. EntryIsRecent'
    <3> SUFFICES ASSUME entry' # NoEntry
                 PROVE  /\ clock + 1 < entry'.until
                        /\ entry'.until <= clock + 1 + Ttl
                        /\ entry'.until - Ttl - MaxFill <= changed[entry'.value]
      BY <2>1 DEF EntryIsRecent, CurrentAt, NoEntry
    <3>1. entry' = entry /\ entry # NoEntry /\ ~(entry.until <= clock + 1)
      BY <2>1
    <3> QED BY <1>0, <3>1, EntryFacts, ConstantsAreNat
  <2> QED BY <2>1, <2>2, <2>3, <2>4 DEF CacheInv, RowIsCurrent
<1>f. CASE UNCHANGED cache_vars
  BY <1>f DEF CacheInv, CacheTypes, FillingIsRecent, EntryIsRecent, CurrentAt,
              RowIsCurrent, cache_vars
<1> QED
  BY <1>a, <1>b, <1>c, <1>d, <1>e, <1>f DEF CacheNext

\* What a reader of the cache is given was replaced less than the time to live
\* and one delay ago, for any number of calls that miss, fill out of order and
\* overwrite one another's entries, and however often the row is changed.
THEOREM CacheCatchesUp == CacheSpec => []StaleForOneTtl
<1>1. CacheInv => StaleForOneTtl
  <2> SUFFICES ASSUME CacheInv, entry # NoEntry
               PROVE  clock < changed[entry.value] + Ttl + MaxFill
    BY DEF StaleForOneTtl
  <2>1. clock \in Nat /\ changed[entry.value] \in Nat
    BY EntryFacts, ConstantsAreNat DEF CacheInv, CacheTypes
  <2> QED BY <2>1, EntryFacts, ConstantsAreNat
<1> QED
  BY <1>1, CacheInit_Inv, CacheNext_Inv, PTL DEF CacheSpec

-----------------------------------------------------------------------------
(***************************************************************************)
(* Refresh tokens are single-use, for any number of clients, processes,    *)
(* failed Redis calls and crashes.  The argument is a balance: every copy  *)
(* of a token, in Redis or in the memory of a process, was paid for by a   *)
(* store, and every exchange uses one up.                                  *)
(***************************************************************************)

\* The processes that know t, and its copy in Redis.
Holders(t) == {p \in Procs : t \in memory[p]}
InRedis(t) == IF t \in redis THEN 1 ELSE 0

Balance ==
    \A t \in Tokens :
        exchanged[t] + InRedis(t) + Cardinality(Holders(t)) <= issued[t] + spare[t]

Counters ==
    /\ exchanged \in [Tokens -> Nat]
    /\ issued \in [Tokens -> Nat]
    /\ spare \in [Tokens -> Nat]
    /\ memory = [p \in Procs |-> memory[p]]

TokInv == Counters /\ Balance

\* Sets of processes and their sizes.
LEMMA SizeIsNat ==
    ASSUME NEW H \in SUBSET Procs
    PROVE  IsFiniteSet(H) /\ Cardinality(H) \in Nat
BY TokenAssumption, FS_Subset, FS_CardinalityType

\* A part of a finite set has no more elements.
LEMMA SmallerSize ==
    ASSUME NEW G \in SUBSET Procs, NEW H \in SUBSET G
    PROVE  Cardinality(H) <= Cardinality(G)
BY SizeIsNat, FS_Subset

\* An added element counts for one.
LEMMA OneMore ==
    ASSUME NEW G \in SUBSET Procs, NEW p, NEW H \in SUBSET Procs,
           H \subseteq G \union {p}
    PROVE  Cardinality(H) <= Cardinality(G) + 1
<1>1. /\ IsFiniteSet(G \union {p})
      /\ Cardinality(G \union {p}) <= Cardinality(G) + 1
  BY SizeIsNat, FS_AddElement
<1>2. Cardinality(H) <= Cardinality(G \union {p})
  BY <1>1, FS_Subset
<1>3. Cardinality(H) \in Nat /\ Cardinality(G) \in Nat /\ Cardinality(G \union {p}) \in Nat
  BY <1>1, SizeIsNat, FS_CardinalityType
<1> QED BY <1>1, <1>2, <1>3

\* A removed one too.
LEMMA OneLess ==
    ASSUME NEW G \in SUBSET Procs, NEW p \in G
    PROVE  Cardinality(G \ {p}) = Cardinality(G) - 1
BY SizeIsNat, FS_RemoveElement

\* Holders are processes.
LEMMA HoldersType == \A t : Holders(t) \in SUBSET Procs
BY DEF Holders

\* A step that stores nothing, exchanges nothing and adds no copy.
LEMMA FewerCopies ==
    ASSUME TokInv, UNCHANGED <<issued, spare, exchanged>>,
           redis' \subseteq redis,
           memory' = [p \in Procs |-> memory'[p]],
           \A p \in Procs : memory'[p] \subseteq memory[p]
    PROVE  TokInv'
<1>1. Counters'
  BY DEF TokInv, Counters
<1>2. Balance'
  <2> SUFFICES ASSUME NEW t \in Tokens
               PROVE  exchanged[t] + InRedis(t)' + Cardinality(Holders(t)')
                         <= issued[t] + spare[t]
    BY DEF Balance
  <2>1. InRedis(t)' \in {0, 1} /\ InRedis(t) \in {0, 1} /\ InRedis(t)' <= InRedis(t)
    BY DEF InRedis
  <2>2. Holders(t) \in SUBSET Procs /\ Holders(t)' \in SUBSET Holders(t)
    BY DEF Holders
  <2>3. /\ Cardinality(Holders(t)) \in Nat /\ Cardinality(Holders(t)') \in Nat
        /\ Cardinality(Holders(t)') <= Cardinality(Holders(t))
    <3> DEFINE G == Holders(t)
               H == Holders(t)'
    <3>1. G \in SUBSET Procs /\ H \in SUBSET G
      BY <2>2
    <3> HIDE DEF G, H
    <3>2. Cardinality(G) \in Nat /\ Cardinality(H) \in Nat /\ Cardinality(H) <= Cardinality(G)
      BY <3>1, SizeIsNat, SmallerSize
    <3> QED BY <3>2 DEF G, H
  <2>4. exchanged[t] \in Nat /\ issued[t] \in Nat /\ spare[t] \in Nat
    BY DEF TokInv, Counters
  <2>5. exchanged[t] + InRedis(t) + Cardinality(Holders(t)) <= issued[t] + spare[t]
    BY DEF TokInv, Balance
  <2> QED BY <2>1, <2>3, <2>4, <2>5
<1> QED BY <1>1, <1>2 DEF TokInv

\* A counter that goes up by one, for a token that is counted or not.
LEMMA CountedUp ==
    ASSUME NEW T, NEW f \in [T -> Nat], NEW t
    PROVE  [f EXCEPT ![t] = f[t] + 1] \in [T -> Nat]
<1> DEFINE g == [f EXCEPT ![t] = f[t] + 1]
<1>1. g = [u \in T |-> IF u = t THEN f[t] + 1 ELSE f[u]]
  OBVIOUS
<1>2. \A u \in T : (IF u = t THEN f[t] + 1 ELSE f[u]) \in Nat
  OBVIOUS
<1> HIDE DEF g
<1>3. g \in [T -> Nat]
  BY <1>1, <1>2
<1> QED BY <1>3 DEF g

\* A store: one copy more, or two when the answer is lost, and as much issued.
LEMMA StoreBalances ==
    ASSUME TokInv, NEW p, NEW t, NEW a, store(p, t, a), exchanged' = exchanged
    PROVE  TokInv'
<1>1. /\ issued' = [issued EXCEPT ![t] = issued[t] + 1]
      /\ spare' = IF a = "lost" THEN [spare EXCEPT ![t] = spare[t] + 1] ELSE spare
      /\ redis' = IF a \in {"ok", "lost"} THEN redis \union {t} ELSE redis
      /\ memory' = IF a = "ok" THEN memory ELSE [memory EXCEPT ![p] = memory[p] \union {t}]
  BY DEF store, Reaches
<1>2. Counters'
  <2>1. /\ exchanged \in [Tokens -> Nat] /\ issued \in [Tokens -> Nat]
        /\ spare \in [Tokens -> Nat] /\ memory = [q \in Procs |-> memory[q]]
    BY DEF TokInv, Counters
  <2>2. issued' \in [Tokens -> Nat]
    BY <1>1, <2>1, CountedUp
  <2>3. spare' \in [Tokens -> Nat]
    BY <1>1, <2>1, CountedUp
  <2>4. memory' = [q \in Procs |-> memory'[q]]
    BY <1>1, <2>1
  <2> QED BY <2>1, <2>2, <2>3, <2>4 DEF Counters
<1>3. Balance'
  <2> SUFFICES ASSUME NEW u \in Tokens
               PROVE  exchanged[u] + InRedis(u)' + Cardinality(Holders(u)')
                         <= issued'[u] + spare'[u]
    BY DEF Balance
  <2>1. exchanged[u] + InRedis(u) + Cardinality(Holders(u)) <= issued[u] + spare[u]
    BY DEF TokInv, Balance
  <2>2. exchanged[u] \in Nat /\ issued[u] \in Nat /\ spare[u] \in Nat
    BY DEF TokInv, Counters
  <2>3. InRedis(u) \in {0, 1} /\ InRedis(u)' \in {0, 1}
    BY DEF InRedis
  <2>4. Holders(u) \in SUBSET Procs /\ Holders(u)' \in SUBSET Procs
    BY DEF Holders
  <2>5. Cardinality(Holders(u)) \in Nat /\ Cardinality(Holders(u)') \in Nat
    <3> DEFINE G == Holders(u)
               H == Holders(u)'
    <3>1. G \in SUBSET Procs /\ H \in SUBSET Procs
      BY <2>4
    <3> HIDE DEF G, H
    <3>2. Cardinality(G) \in Nat /\ Cardinality(H) \in Nat
      BY <3>1, SizeIsNat
    <3> QED BY <3>2 DEF G, H
  <2>6. CASE u # t
    <3>1. Holders(u)' = Holders(u) /\ InRedis(u)' = InRedis(u)
      BY <1>1, <2>6 DEF Holders, InRedis, TokInv, Counters
    <3>2. issued'[u] = issued[u] /\ spare'[u] = spare[u]
      BY <1>1, <2>6 DEF TokInv, Counters
    <3> QED BY <2>1, <3>1, <3>2
  <2>7. CASE u = t
    <3>1. issued'[u] = issued[u] + 1
      BY <1>1, <2>7 DEF TokInv, Counters
    <3>2. CASE a = "ok"
      <4>1. Holders(u)' = Holders(u) /\ spare'[u] = spare[u]
        BY <1>1, <3>2 DEF Holders
      <4> QED BY <2>1, <2>2, <2>3, <2>5, <3>1, <4>1
    <3>3. CASE a # "ok"
      <4>1. Cardinality(Holders(u)') <= Cardinality(Holders(u)) + 1
        <5> DEFINE G == Holders(u)
                   H == Holders(u)'
        <5>1. G \in SUBSET Procs /\ H \in SUBSET Procs /\ H \subseteq G \union {p}
          BY <1>1, <2>4, <3>3 DEF Holders, TokInv, Counters
        <5> HIDE DEF G, H
        <5>2. Cardinality(H) <= Cardinality(G) + 1
          BY <5>1, OneMore
        <5> QED BY <5>2 DEF G, H
      <4>2. CASE a = "lost"
        <5>1. spare'[u] = spare[u] + 1
          BY <1>1, <2>7, <4>2 DEF TokInv, Counters
        <5> QED BY <2>1, <2>2, <2>3, <2>5, <3>1, <4>1, <5>1
      <4>3. CASE a # "lost"
        <5>1. spare'[u] = spare[u] /\ InRedis(u)' = InRedis(u)
          BY <1>1, <3>3, <4>3 DEF InRedis
        <5> QED BY <2>1, <2>2, <2>3, <2>5, <3>1, <4>1, <5>1
      <4> QED BY <4>2, <4>3
    <3> QED BY <3>2, <3>3
  <2> QED BY <2>6, <2>7
<1> QED BY <1>2, <1>3 DEF TokInv

\* A pop that finds the token takes the copy it found, and maybe another.
LEMMA PopBalances ==
    ASSUME TokInv, NEW p \in Procs, NEW t \in Tokens, NEW a, pop(p, t, a),
           Found(p, t, a), UNCHANGED <<issued, spare>>,
           exchanged' = [exchanged EXCEPT ![t] = exchanged[t] + 1]
    PROVE  TokInv'
<1>1. /\ redis' = IF a \in {"ok", "lost"} THEN redis \ {t} ELSE redis
      /\ memory' = IF a = "ok" THEN memory ELSE [memory EXCEPT ![p] = memory[p] \ {t}]
  BY DEF pop, Reaches
<1>2. Counters'
  BY <1>1 DEF TokInv, Counters
<1>3. Balance'
  <2> SUFFICES ASSUME NEW u \in Tokens
               PROVE  exchanged'[u] + InRedis(u)' + Cardinality(Holders(u)')
                         <= issued[u] + spare[u]
    BY DEF Balance
  <2>1. exchanged[u] + InRedis(u) + Cardinality(Holders(u)) <= issued[u] + spare[u]
    BY DEF TokInv, Balance
  <2>2. exchanged[u] \in Nat /\ issued[u] \in Nat /\ spare[u] \in Nat
    BY DEF TokInv, Counters
  <2>3. InRedis(u) \in {0, 1} /\ InRedis(u)' \in {0, 1} /\ InRedis(u)' <= InRedis(u)
    BY <1>1 DEF InRedis
  <2>4. Cardinality(Holders(u)) \in Nat
    BY HoldersType, SizeIsNat
  <2>5. CASE u # t
    <3>1. Holders(u)' = Holders(u) /\ exchanged'[u] = exchanged[u]
      BY <1>1, <2>5 DEF Holders, TokInv, Counters
    <3> QED BY <2>1, <2>2, <2>3, <2>4, <3>1
  <2>6. CASE u = t
    <3>1. exchanged'[u] = exchanged[u] + 1
      BY <2>6 DEF TokInv, Counters
    <3>2. CASE a = "ok"
      <4>1. Holders(u)' = Holders(u)
        BY <1>1, <3>2 DEF Holders
      <4>2. InRedis(u) = 1 /\ InRedis(u)' = 0
        BY <1>1, <2>6, <3>2 DEF InRedis, Found
      <4> QED BY <2>1, <2>2, <2>4, <3>1, <4>1, <4>2
    <3>3. CASE a # "ok"
      <4>1. p \in Holders(u) /\ Holders(u)' = Holders(u) \ {p}
        BY <1>1, <2>6, <3>3 DEF Holders, Found, TokInv, Counters
      <4>2. Cardinality(Holders(u) \ {p}) = Cardinality(Holders(u)) - 1
        BY <4>1, HoldersType, OneLess
      <4>3. Cardinality(Holders(u)') = Cardinality(Holders(u)) - 1
        BY <4>1, <4>2
      <4> QED BY <2>1, <2>2, <2>3, <2>4, <3>1, <4>3
    <3> QED BY <3>2, <3>3
  <2> QED BY <2>5, <2>6
<1> QED BY <1>2, <1>3 DEF TokInv

\* Initially no token exists.
LEMMA TokInit_Inv == TokInit => TokInv
<1> SUFFICES ASSUME TokInit PROVE TokInv
  OBVIOUS
<1>1. Counters
  BY DEF TokInit, Counters
<1>2. ASSUME NEW t \in Tokens
      PROVE  exchanged[t] + InRedis(t) + Cardinality(Holders(t)) <= issued[t] + spare[t]
  <2>1. Holders(t) = {} /\ InRedis(t) = 0
    BY DEF TokInit, Holders, InRedis
  <2>2. Cardinality(Holders(t)) = 0
    BY <2>1, FS_EmptySet
  <2> QED BY <1>2, <2>1, <2>2 DEF TokInit
<1> QED BY <1>1, <1>2 DEF TokInv, Balance

\* Every step keeps the balance: one case per action of TokNext.
LEMMA TokNext_Inv == TokInv /\ [TokNext]_tok_vars => TokInv'
<1> SUFFICES ASSUME TokInv, [TokNext]_tok_vars PROVE TokInv'
  OBVIOUS
<1>0. memory = [p \in Procs |-> memory[p]]
  BY DEF TokInv, Counters
<1>a. ASSUME NEW c \in Clients, NEW p \in Procs, NEW a, login(c, p, a) PROVE TokInv'
  BY <1>a, StoreBalances DEF login
<1>b. ASSUME NEW c \in Clients, NEW p \in Procs, NEW t \in Tokens, NEW a,
             refresh_tokens(c, p, t, a)
      PROVE  TokInv'
  <2>1. pop(p, t, a) /\ UNCHANGED <<issued, spare>>
    BY <1>b DEF refresh_tokens
  <2>2. CASE Found(p, t, a)
    <3>1. exchanged' = [exchanged EXCEPT ![t] = exchanged[t] + 1]
      BY <1>b, <2>2 DEF refresh_tokens
    <3> QED BY <2>1, <2>2, <3>1, PopBalances
  <2>3. CASE ~Found(p, t, a)
    <3>1. exchanged' = exchanged
      BY <1>b, <2>3 DEF refresh_tokens
    <3>2. /\ redis' \subseteq redis /\ memory' = [q \in Procs |-> memory'[q]]
          /\ \A q \in Procs : memory'[q] \subseteq memory[q]
      BY <1>0, <2>1 DEF pop
    <3> QED BY <2>1, <3>1, <3>2, FewerCopies
  <2> QED BY <2>2, <2>3
<1>c. ASSUME NEW c \in Clients, NEW a, store_rotated(c, a) PROVE TokInv'
  BY <1>c, StoreBalances DEF store_rotated
<1>d. ASSUME NEW c \in Clients, NEW p \in Procs, NEW a, logout(c, p, a) PROVE TokInv'
  <2>1. revoke(p, held[c], a) /\ UNCHANGED <<issued, spare, exchanged>>
    BY <1>d DEF logout
  <2>2. /\ redis' \subseteq redis /\ memory' = [q \in Procs |-> memory'[q]]
        /\ \A q \in Procs : memory'[q] \subseteq memory[q]
    BY <1>0, <2>1 DEF revoke
  <2> QED BY <2>1, <2>2, FewerCopies
<1>e. ASSUME NEW p \in Procs, CrashProc(p) PROVE TokInv'
  <2>1. /\ UNCHANGED <<issued, spare, exchanged>> /\ redis' = redis
        /\ memory' = [memory EXCEPT ![p] = {}]
    BY <1>e DEF CrashProc
  <2>2. /\ memory' = [q \in Procs |-> memory'[q]]
        /\ \A q \in Procs : memory'[q] \subseteq memory[q]
    BY <1>0, <2>1
  <2> QED BY <2>1, <2>2, FewerCopies
<1>f. CASE NextSecond
  BY <1>0, <1>f, FewerCopies DEF NextSecond
<1>g. CASE UNCHANGED tok_vars
  BY <1>0, <1>g, FewerCopies DEF tok_vars
<1> QED
  BY <1>a, <1>b, <1>c, <1>d, <1>e, <1>f, <1>g DEF TokNext

\* For any number of clients and server processes, Redis calls that fail with
\* or without effect and processes that restart: refresh_tokens accepts a token
\* no more often than it was stored.
THEOREM TokensAreSingleUse == TokSpec => []ExchangedOncePerIssue
<1>1. TokInv => ExchangedOncePerIssue
  <2> SUFFICES ASSUME TokInv, NEW t \in Tokens PROVE exchanged[t] <= issued[t] + spare[t]
    BY DEF ExchangedOncePerIssue
  <2>1. exchanged[t] + InRedis(t) + Cardinality(Holders(t)) <= issued[t] + spare[t]
    BY DEF TokInv, Balance
  <2>2. exchanged[t] \in Nat /\ issued[t] \in Nat /\ spare[t] \in Nat
    BY DEF TokInv, Counters
  <2>3. InRedis(t) \in Nat /\ Cardinality(Holders(t)) \in Nat
    BY HoldersType, SizeIsNat DEF InRedis
  <2> QED BY <2>1, <2>2, <2>3
<1> QED
  BY <1>1, TokInit_Inv, TokNext_Inv, PTL DEF TokSpec

\* The types of the token store, and what the other parts rest on.
TokShape ==
    /\ wired \in BOOLEAN
    /\ second \in 0..MaxSecond
    /\ redis \in SUBSET Tokens
    /\ memory \in [Procs -> SUBSET Tokens]
    /\ redis_ok \in [Procs -> BOOLEAN]
    /\ had \in [Clients -> SUBSET Tokens]
    /\ held \in [Clients -> Tokens \union {NoToken}]
    /\ \A c \in Clients : held[c] \in had[c] \union {NoToken}
    /\ rotating \in [Clients -> [proc : Procs, new : Tokens] \union {NoCall}]
    /\ issued \in [Tokens -> Nat]
    /\ faults \in Nat

\* A token that two clients were given was issued twice.
GivenIsIssued ==
    \A t \in Tokens, c, d \in Clients :
        t \in had[c] => /\ issued[t] >= 1
                        /\ c # d /\ t \in had[d] => issued[t] >= 2

\* With a client that works, before the first fault every process believes
\* that Redis does.
RedisIsUp == wired /\ faults = 0 => \A p \in Procs : redis_ok[p]

\* A token that a process keeps in its memory was stored.
KeptIsIssued == \A p \in Procs : \A t \in memory[p] : issued[t] >= 1

TokReachInv == TokShape /\ GivenIsIssued /\ RedisIsUp /\ KeptIsIssued /\ KnownToAllOrOne

\* Tokens are pairs; the marker is none of them.
LEMMA TokenValues ==
    /\ NoToken \notin Tokens
    /\ \A t \in Tokens : t[1] \in 0..MaxSecond /\ t[2] \in 0..MaxQuotes
    /\ \A n \in 0..MaxSecond, q \in 0..MaxQuotes : <<n, q>> \in Tokens
    /\ 0 \in 0..MaxQuotes /\ MaxQuotes \in Nat /\ MaxSecond \in Nat
<1>1. MaxQuotes \in Nat /\ MaxSecond \in Nat
  BY TokenAssumption
<1> QED BY <1>1 DEF Tokens, NoToken

\* The fields of a refresh that is under way.
LEMMA CallValues ==
    /\ NoCall.proc = "none" /\ NoCall.new = NoToken
    /\ \A p \in Procs, t \in Tokens :
          /\ [proc |-> p, new |-> t] # NoCall
          /\ [proc |-> p, new |-> t] \in [proc : Procs, new : Tokens]
BY TokenValues DEF NoCall

\* While nothing has failed Redis answers every call, or it answers none.
LEMMA Answered_ok ==
    ASSUME TokReachInv, NEW p \in Procs, NEW a, a \in Answers(p), Noted(p, a),
           wired' = wired
    PROVE  /\ faults' = 0 => faults = 0
           /\ faults' = 0 /\ wired => a = "ok"
           /\ ~wired => a \in {"refused", "unused"}
           /\ faults' \in Nat
           /\ redis_ok' \in [Procs -> BOOLEAN]
           /\ RedisIsUp'
<1>1. faults \in Nat /\ redis_ok \in [Procs -> BOOLEAN] /\ wired \in BOOLEAN
  BY DEF TokReachInv, TokShape
<1>2. faults' \in Nat /\ (faults' = 0 => faults = 0 /\ ~(Raises(a) /\ wired))
  BY <1>1 DEF Noted
<1>3. redis_ok' \in [Procs -> BOOLEAN]
  BY <1>1 DEF Noted, Raises
<1>4. ASSUME faults' = 0, wired PROVE a = "ok" /\ \A q \in Procs : redis_ok'[q]
  <2>1. \A q \in Procs : redis_ok[q]
    BY <1>2, <1>4 DEF TokReachInv, RedisIsUp
  <2>2. a = "ok"
    BY <1>2, <1>4, <2>1 DEF Answers, Raises
  <2>3. \A q \in Procs : redis_ok'[q] = redis_ok[q]
    BY <1>1, <1>2, <1>4 DEF Noted
  <2> QED BY <2>1, <2>2, <2>3
<1>5. ~wired => a \in {"refused", "unused"}
  BY DEF Answers
<1>6. RedisIsUp'
  BY <1>4 DEF RedisIsUp
<1> QED BY <1>2, <1>3, <1>4, <1>5, <1>6

\* A client that keeps its token keeps it where it is known: Redis, or the
\* memory of one process, when the step moves no copy of that token.
LEMMA StillKnown ==
    ASSUME TokReachInv, faults = 0, NEW d \in Clients, rotating[d] = NoCall,
           held[d] # NoToken, issued[held[d]] = 1, wired' = wired,
           held[d] \in redis => held[d] \in redis',
           \A q \in Procs : held[d] \in memory'[q] <=> held[d] \in memory[q]
    PROVE  IF wired' THEN held[d] \in redis'
           ELSE \E p \in Procs : \A q \in Procs : held[d] \in memory'[q] <=> q = p
<1>1. IF wired THEN held[d] \in redis
      ELSE \E p \in Procs : \A q \in Procs : held[d] \in memory[q] <=> q = p
  BY DEF TokReachInv, KnownToAllOrOne
<1>2. CASE wired
  BY <1>1, <1>2
<1>3. CASE ~wired
  <2>1. PICK p \in Procs : \A q \in Procs : held[d] \in memory[q] <=> q = p
    BY <1>1, <1>3
  <2>2. \A q \in Procs : held[d] \in memory'[q] <=> q = p
    BY <2>1
  <2> QED BY <1>3, <2>2
<1> QED BY <1>2, <1>3

\* A client is given a token that is stored.
LEMMA StoreReaches ==
    ASSUME TokReachInv, NEW c \in Clients, NEW p \in Procs, NEW t \in Tokens, NEW a,
           store(p, t, a), Given(c, t), second' = second, wired' = wired,
           rotating' \in [Clients -> [proc : Procs, new : Tokens] \union {NoCall}],
           \A d \in Clients : d # c => rotating'[d] = rotating[d]
    PROVE  TokReachInv'
<1>0. TokShape
  BY DEF TokReachInv
<1>1. a \in Answers(p) /\ Noted(p, a)
  BY DEF store
<1>2. /\ issued' \in [Tokens -> Nat]
      /\ \A u \in Tokens : issued'[u] = IF u = t THEN issued[u] + 1 ELSE issued[u]
  <2>1. issued' = [issued EXCEPT ![t] = issued[t] + 1] /\ issued \in [Tokens -> Nat]
    BY <1>0 DEF store, TokShape
  <2> QED BY <2>1
<1>3. /\ had' \in [Clients -> SUBSET Tokens] /\ held' \in [Clients -> Tokens \union {NoToken}]
      /\ \A d \in Clients : had'[d] = IF d = c THEN had[d] \union {t} ELSE had[d]
      /\ \A d \in Clients : held'[d] = IF d = c THEN t ELSE held[d]
  BY <1>0 DEF Given, TokShape
<1>4. redis' \in SUBSET Tokens /\ memory' \in [Procs -> SUBSET Tokens]
  BY <1>0 DEF store, TokShape
<1>5. TokShape'
  BY <1>0, <1>1, <1>2, <1>3, <1>4, Answered_ok DEF TokShape
<1>6. GivenIsIssued'
  <2> SUFFICES ASSUME NEW u \in Tokens, NEW d \in Clients, NEW e \in Clients, u \in had'[d]
               PROVE  issued'[u] >= 1 /\ (d # e /\ u \in had'[e] => issued'[u] >= 2)
    BY DEF GivenIsIssued
  <2>1. issued[u] \in Nat
    BY <1>0 DEF TokShape
  <2>2. CASE u # t
    <3>1. issued'[u] = issued[u] /\ u \in had[d] /\ (u \in had'[e] => u \in had[e])
      BY <1>2, <1>3, <2>2
    <3> QED BY <3>1 DEF TokReachInv, GivenIsIssued
  <2>3. CASE u = t
    <3>1. issued'[u] = issued[u] + 1
      BY <1>2, <2>3
    <3>2. ASSUME d # e, u \in had'[e] PROVE issued[u] >= 1
      <4>1. u \in had[d] \/ u \in had[e]
        BY <1>3, <3>2
      <4> QED BY <4>1 DEF TokReachInv, GivenIsIssued
    <3> QED BY <2>1, <3>1, <3>2
  <2> QED BY <2>2, <2>3
<1>7. RedisIsUp' /\ (faults' = 0 => faults = 0)
  BY <1>1, Answered_ok
<1>8. /\ redis' = IF Reaches(a) THEN redis \union {t} ELSE redis
      /\ \A q \in Procs : memory'[q] = IF q = p /\ a # "ok" THEN memory[q] \union {t}
                                       ELSE memory[q]
  BY <1>0 DEF store, TokShape
<1>9. KeptIsIssued'
  <2> SUFFICES ASSUME NEW q \in Procs, NEW u \in memory'[q] PROVE issued'[u] >= 1
    BY DEF KeptIsIssued
  <2>1. u \in Tokens /\ (u \in memory[q] \/ u = t)
    BY <1>4, <1>8
  <2>2. issued[u] \in Nat /\ issued'[u] = IF u = t THEN issued[u] + 1 ELSE issued[u]
    BY <1>0, <1>2, <2>1 DEF TokShape
  <2>3. u \in memory[q] => issued[u] >= 1
    BY DEF TokReachInv, KeptIsIssued
  <2> QED BY <2>1, <2>2, <2>3
<1>10. KnownToAllOrOne'
  <2> SUFFICES ASSUME faults' = 0, NEW d \in Clients, rotating'[d] = NoCall,
                      held'[d] # NoToken, issued'[held'[d]] = 1
               PROVE  IF wired' THEN held'[d] \in redis'
                      ELSE \E o \in Procs : \A q \in Procs : held'[d] \in memory'[q] <=> q = o
    BY DEF KnownToAllOrOne, NoCall, NoToken
  <2>1. CASE d = c
    <3>1. held'[d] = t /\ issued[t] = 0
      <4>1. held'[d] = t /\ issued'[t] = issued[t] + 1 /\ issued[t] \in Nat
        BY <1>0, <1>2, <1>3, <2>1 DEF TokShape
      <4> QED BY <4>1
    <3>2. CASE wired
      <4>1. a = "ok"
        BY <1>1, <3>2, Answered_ok
      <4> QED BY <1>8, <3>1, <3>2, <4>1 DEF Reaches
    <3>3. CASE ~wired
      <4>1. a # "ok"
        BY <1>1, <3>3, Answered_ok
      <4>2. \A q \in Procs : t \notin memory[q]
        BY <3>1 DEF TokReachInv, KeptIsIssued
      <4>3. \A q \in Procs : t \in memory'[q] <=> q = p
        BY <1>8, <4>1, <4>2
      <4> QED BY <3>1, <3>3, <4>3
    <3> QED BY <3>2, <3>3
  <2>2. CASE d # c
    <3>1. held'[d] = held[d] /\ rotating[d] = NoCall
      BY <1>3, <2>2
    <3>2. held[d] \in had[d] /\ held[d] \in Tokens /\ issued[held[d]] >= 1
      BY <1>0, <3>1 DEF TokReachInv, TokShape, GivenIsIssued
    <3>3. held[d] # t /\ issued[held[d]] = 1
      <4>1. issued[held[d]] \in Nat
        BY <1>0, <3>2 DEF TokShape
      <4> QED BY <1>2, <3>1, <3>2, <4>1
    <3>4. /\ held[d] \in redis => held[d] \in redis'
          /\ \A q \in Procs : held[d] \in memory'[q] <=> held[d] \in memory[q]
      BY <1>8, <3>3
    <3> QED BY <1>7, <3>1, <3>3, <3>4, StillKnown
  <2> QED BY <2>1, <2>2
<1> QED BY <1>5, <1>6, <1>7, <1>9, <1>10 DEF TokReachInv

\* A client uses up the token it asks with; nobody else was given that one,
\* unless it was issued twice.
LEMMA RefreshReaches ==
    ASSUME TokReachInv, NEW c \in Clients, NEW p \in Procs, NEW t \in Tokens, NEW a,
           refresh_tokens(c, p, t, a)
    PROVE  TokReachInv'
<1>0. TokShape
  BY DEF TokReachInv
<1>1. /\ a \in Answers(p) /\ Noted(p, a) /\ t \in had[c] /\ rotating[c] = NoCall
      /\ UNCHANGED <<wired, second, had, issued>>
      /\ redis' = IF Reaches(a) THEN redis \ {t} ELSE redis
      /\ memory' = IF a = "ok" THEN memory ELSE [memory EXCEPT ![p] = @ \ {t}]
  BY DEF refresh_tokens, pop
<1>2. /\ faults' \in Nat /\ redis_ok' \in [Procs -> BOOLEAN] /\ RedisIsUp'
      /\ faults' = 0 => faults = 0
  BY <1>1, Answered_ok
<1>7. \A q \in Procs : memory'[q] = IF q = p /\ a # "ok" THEN memory[q] \ {t} ELSE memory[q]
  BY <1>0, <1>1 DEF TokShape
<1>8. KeptIsIssued'
  BY <1>1, <1>7 DEF TokReachInv, KeptIsIssued
<1>3. redis' \in SUBSET Tokens /\ memory' \in [Procs -> SUBSET Tokens]
  BY <1>0, <1>1 DEF TokShape
<1>4. GivenIsIssued'
  BY <1>1 DEF TokReachInv, GivenIsIssued
<1>5. CASE Found(p, t, a)
  <2> DEFINE new == <<second, Quotes(t, a)>>
  <2>1. /\ Quotes(t, a) <= MaxQuotes /\ held' = held
        /\ rotating' = [rotating EXCEPT ![c] = [proc |-> p, new |-> new]]
    BY <1>5 DEF refresh_tokens
  <2>2. new \in Tokens
    <3>1. Quotes(t, a) \in 0..MaxQuotes
      BY <2>1, TokenValues DEF Quotes
    <3> QED BY <1>0, <3>1, TokenValues DEF TokShape
  <2> HIDE DEF new
  <2>3. /\ rotating' \in [Clients -> [proc : Procs, new : Tokens] \union {NoCall}]
        /\ rotating'[c] # NoCall
        /\ \A d \in Clients : d # c => rotating'[d] = rotating[d]
    BY <1>0, <2>1, <2>2, CallValues DEF TokShape
  <2>4. TokShape'
    BY <1>0, <1>1, <1>2, <1>3, <2>1, <2>3 DEF TokShape
  <2>5. KnownToAllOrOne'
    <3> SUFFICES ASSUME faults' = 0, NEW d \in Clients, rotating'[d] = NoCall,
                        held'[d] # NoToken, issued'[held'[d]] = 1
                 PROVE  IF wired' THEN held'[d] \in redis'
                        ELSE \E o \in Procs : \A q \in Procs :
                                held'[d] \in memory'[q] <=> q = o
      BY DEF KnownToAllOrOne, NoCall, NoToken
    <3>1. d # c /\ rotating[d] = NoCall /\ held'[d] = held[d]
      BY <2>1, <2>3
    <3>2. held[d] \in had[d] /\ held[d] \in Tokens /\ issued[held[d]] = 1
      BY <1>0, <1>1, <3>1 DEF TokShape
    <3>3. held[d] # t
      BY <1>1, <3>1, <3>2 DEF TokReachInv, GivenIsIssued
    <3>4. /\ held[d] \in redis => held[d] \in redis'
          /\ \A q \in Procs : held[d] \in memory'[q] <=> held[d] \in memory[q]
      BY <1>1, <1>7, <3>3
    <3> QED BY <1>1, <1>2, <3>1, <3>2, <3>4, StillKnown
  <2> QED BY <1>2, <1>4, <1>8, <2>4, <2>5 DEF TokReachInv
<1>6. CASE ~Found(p, t, a)
  <2>1. /\ held' = [held EXCEPT ![c] = IF @ = t THEN NoToken ELSE @]
        /\ rotating' = rotating
    BY <1>6 DEF refresh_tokens
  <2>2. /\ held' \in [Clients -> Tokens \union {NoToken}]
        /\ \A d \in Clients : held'[d] = held[d] \/ held'[d] = NoToken
    BY <1>0, <2>1 DEF TokShape
  <2>3. TokShape'
    BY <1>0, <1>1, <1>2, <1>3, <2>1, <2>2 DEF TokShape
  <2>4. KnownToAllOrOne'
    <3> SUFFICES ASSUME faults' = 0, NEW d \in Clients, rotating'[d] = NoCall,
                        held'[d] # NoToken, issued'[held'[d]] = 1
                 PROVE  IF wired' THEN held'[d] \in redis'
                        ELSE \E o \in Procs : \A q \in Procs :
                                held'[d] \in memory'[q] <=> q = o
      BY DEF KnownToAllOrOne, NoCall, NoToken
    <3>1. held'[d] = held[d] /\ rotating[d] = NoCall /\ issued[held[d]] = 1
      BY <1>1, <2>1, <2>2
    <3>2. wired /\ held[d] \in redis => held[d] \in redis'
      <4>1. wired => a = "ok"
        BY <1>1, Answered_ok
      <4> QED BY <1>1, <1>6, <4>1 DEF Found
    <3>3. \A q \in Procs : memory'[q] = memory[q]
      BY <1>6, <1>7 DEF Found
    <3> QED BY <1>1, <1>2, <3>1, <3>2, <3>3 DEF TokReachInv, KnownToAllOrOne
  <2> QED BY <1>2, <1>4, <1>8, <2>3, <2>4 DEF TokReachInv
<1> QED BY <1>5, <1>6

\* logout removes the token of its own client, who then holds none.
LEMMA LogoutReaches ==
    ASSUME TokReachInv, NEW c \in Clients, NEW p \in Procs, NEW a, logout(c, p, a)
    PROVE  TokReachInv'
<1>0. TokShape
  BY DEF TokReachInv
<1> DEFINE t == held[c]
<1>1. /\ a \in Answers(p) /\ Noted(p, a) /\ t # NoToken
      /\ UNCHANGED <<wired, second, had, issued, rotating>>
      /\ redis' = IF Reaches(a) THEN redis \ {t} ELSE redis
      /\ memory' = [memory EXCEPT ![p] = @ \ {t}]
      /\ held' = [held EXCEPT ![c] = NoToken]
  BY DEF logout, revoke
<1>2. /\ faults' \in Nat /\ redis_ok' \in [Procs -> BOOLEAN] /\ RedisIsUp'
      /\ faults' = 0 => faults = 0
  BY <1>1, Answered_ok
<1>7. \A q \in Procs : memory'[q] = IF q = p THEN memory[q] \ {t} ELSE memory[q]
  BY <1>0, <1>1 DEF TokShape
<1>8. KeptIsIssued'
  BY <1>1, <1>7 DEF TokReachInv, KeptIsIssued
<1>3. /\ redis' \in SUBSET Tokens /\ memory' \in [Procs -> SUBSET Tokens]
      /\ held' \in [Clients -> Tokens \union {NoToken}]
      /\ \A d \in Clients : held'[d] = IF d = c THEN NoToken ELSE held[d]
  BY <1>0, <1>1 DEF TokShape
<1>4. GivenIsIssued'
  BY <1>1 DEF TokReachInv, GivenIsIssued
<1>5. TokShape'
  BY <1>0, <1>1, <1>2, <1>3 DEF TokShape
<1>6. KnownToAllOrOne'
  <2> SUFFICES ASSUME faults' = 0, NEW d \in Clients, rotating'[d] = NoCall,
                      held'[d] # NoToken, issued'[held'[d]] = 1
               PROVE  IF wired' THEN held'[d] \in redis'
                      ELSE \E o \in Procs : \A q \in Procs : held'[d] \in memory'[q] <=> q = o
    BY DEF KnownToAllOrOne, NoCall, NoToken
  <2>1. d # c /\ held'[d] = held[d] /\ rotating[d] = NoCall
    BY <1>1, <1>3
  <2>2. held[d] \in had[d] /\ held[d] \in Tokens /\ t \in had[c] /\ issued[held[d]] = 1
    BY <1>0, <1>1, <2>1 DEF TokShape
  <2>3. held[d] # t
    BY <1>1, <2>1, <2>2 DEF TokReachInv, GivenIsIssued
  <2>4. /\ held[d] \in redis => held[d] \in redis'
        /\ \A q \in Procs : held[d] \in memory'[q] <=> held[d] \in memory[q]
    BY <1>1, <1>7, <2>3
  <2> QED BY <1>1, <1>2, <2>1, <2>2, <2>4, StillKnown
<1> QED BY <1>2, <1>4, <1>5, <1>6, <1>8 DEF TokReachInv

\* Initially no client holds a token.
LEMMA TokInit_Reach == TokInit => TokReachInv
<1> SUFFICES ASSUME TokInit PROVE TokReachInv
  OBVIOUS
<1>1. TokShape
  BY TokenValues DEF TokInit, TokShape
<1>2. GivenIsIssued /\ RedisIsUp /\ KeptIsIssued /\ KnownToAllOrOne
  BY DEF TokInit, GivenIsIssued, RedisIsUp, KeptIsIssued, KnownToAllOrOne
<1> QED BY <1>1, <1>2 DEF TokReachInv

\* Every step keeps the invariant: one case per action of TokNext.
LEMMA TokNext_Reach == TokReachInv /\ [TokNext]_tok_vars => TokReachInv'
<1> SUFFICES ASSUME TokReachInv, [TokNext]_tok_vars PROVE TokReachInv'
  OBVIOUS
<1>0. TokShape
  BY DEF TokReachInv
<1>a. ASSUME NEW c \in Clients, NEW p \in Procs, NEW a, login(c, p, a) PROVE TokReachInv'
  <2>1. <<second, 0>> \in Tokens
    BY <1>0, TokenValues DEF TokShape
  <2>2. rotating' \in [Clients -> [proc : Procs, new : Tokens] \union {NoCall}]
    BY <1>0, <1>a DEF login, TokShape
  <2> QED BY <1>a, <2>1, <2>2, StoreReaches DEF login
<1>b. ASSUME NEW c \in Clients, NEW p \in Procs, NEW t \in Tokens, NEW a,
             refresh_tokens(c, p, t, a)
      PROVE  TokReachInv'
  BY <1>b, RefreshReaches
<1>c. ASSUME NEW c \in Clients, NEW a, store_rotated(c, a) PROVE TokReachInv'
  <2>1. rotating[c].proc \in Procs /\ rotating[c].new \in Tokens
    BY <1>0, <1>c DEF store_rotated, TokShape
  <2>2. /\ rotating' \in [Clients -> [proc : Procs, new : Tokens] \union {NoCall}]
        /\ \A d \in Clients : d # c => rotating'[d] = rotating[d]
    BY <1>0, <1>c DEF store_rotated, TokShape
  <2> QED BY <1>c, <2>1, <2>2, StoreReaches DEF store_rotated
<1>d. ASSUME NEW c \in Clients, NEW p \in Procs, NEW a, logout(c, p, a) PROVE TokReachInv'
  BY <1>d, LogoutReaches
<1>e. ASSUME NEW p \in Procs, CrashProc(p) PROVE TokReachInv'
  <2>1. /\ memory' = [memory EXCEPT ![p] = {}]
        /\ redis_ok' = [redis_ok EXCEPT ![p] = TRUE]
        /\ rotating' = [c \in Clients |-> IF rotating[c].proc = p THEN NoCall ELSE rotating[c]]
        /\ faults' = faults + 1
        /\ UNCHANGED <<wired, second, redis, had, held, issued>>
    BY <1>e DEF CrashProc
  <2>2. faults' # 0 /\ faults' \in Nat
    BY <1>0, <2>1 DEF TokShape
  <2>3. rotating' \in [Clients -> [proc : Procs, new : Tokens] \union {NoCall}]
    BY <1>0, <2>1 DEF TokShape
  <2>4. TokShape'
    BY <1>0, <2>1, <2>2, <2>3 DEF TokShape
  <2>5. GivenIsIssued' /\ RedisIsUp' /\ KnownToAllOrOne'
    BY <2>1, <2>2 DEF TokReachInv, GivenIsIssued, RedisIsUp, KnownToAllOrOne
  <2>6. \A q \in Procs : memory'[q] \subseteq memory[q]
    BY <1>0, <2>1 DEF TokShape
  <2>7. KeptIsIssued'
    BY <2>1, <2>6 DEF TokReachInv, KeptIsIssued
  <2> QED BY <2>4, <2>5, <2>7 DEF TokReachInv
<1>f. CASE NextSecond
  <2>1. second' \in 0..MaxSecond
    BY <1>0, <1>f, TokenValues DEF NextSecond, TokShape
  <2> QED BY <1>f, <2>1 DEF NextSecond, TokReachInv, TokShape, GivenIsIssued, RedisIsUp,
                            KeptIsIssued, KnownToAllOrOne
<1>g. CASE UNCHANGED tok_vars
  BY <1>g DEF tok_vars, TokReachInv, TokShape, GivenIsIssued, RedisIsUp, KeptIsIssued,
                KnownToAllOrOne
<1> QED
  BY <1>a, <1>b, <1>c, <1>d, <1>e, <1>f, <1>g DEF TokNext

\* For any number of clients, server processes and tokens, as long as no call to
\* a working Redis fails and no process restarts: the last token a client was
\* given is in Redis, where every process finds it, if get_redis yields a
\* client; as the code stands it is in the memory of one process alone, and any
\* other logs the client out.  Tokens that two clients were given within a
\* second are the exception.
THEOREM TokensKnownToAllOrOne == TokSpec => []KnownToAllOrOne
<1>1. TokReachInv => KnownToAllOrOne
  BY DEF TokReachInv
<1> QED
  BY <1>1, TokInit_Reach, TokNext_Reach, PTL DEF TokSpec

-----------------------------------------------------------------------------
(***************************************************************************)
(* A synced record of the PDA is on the server, for any number of          *)
(* overlapping executions and records and any batch size.                  *)
(***************************************************************************)

Status == {"pending", "synced", "failed"}

\* What an execution remembers as pushed has been answered with 200.
Answered == server \union masked
PushedWasAnswered == \A x \in Executions : job[x].pushed \subseteq Answered

\* job is a function on the executions.
JobShape == job = [x \in Executions |-> job[x]]

PdaInv ==
    /\ queue \in Seq(Status)
    /\ JobShape
    /\ PushedWasAnswered
    /\ SyncedIsOnServer

\* A record that is appended, or marked failed, is not synced.
LEMMA NoneSynced ==
    ASSUME NEW q \in Seq(Status), NEW new \in Seq(Status),
           \A i \in DOMAIN new : new[i] = "synced" => i \in DOMAIN q /\ q[i] = "synced"
    PROVE  {i \in DOMAIN new : new[i] \in {"synced"}}
              \subseteq {i \in DOMAIN q : q[i] \in {"synced"}}
OBVIOUS

\* A new record is pending, the others are as they were.
LEMMA Appended ==
    ASSUME NEW q \in Seq(Status)
    PROVE  /\ Append(q, "pending") \in Seq(Status)
           /\ \A i \in DOMAIN Append(q, "pending") :
                 Append(q, "pending")[i] = "synced" => i \in DOMAIN q /\ q[i] = "synced"
<1>1. Append(q, "pending") \in Seq(Status)
  BY DEF Status
<1>2. ASSUME NEW i \in DOMAIN Append(q, "pending"), Append(q, "pending")[i] = "synced"
      PROVE  i \in DOMAIN q /\ q[i] = "synced"
  <2>1. i \in 1..(Len(q) + 1) /\ i # Len(q) + 1
    BY <1>2
  <2> QED BY <1>2, <2>1
<1> QED BY <1>1, <1>2

\* The statuses of a queue whose records are changed in place.
LEMMA Changed ==
    ASSUME NEW q \in Seq(Status), NEW f, f \in [DOMAIN q -> Status]
    PROVE  f \in Seq(Status)
<1>1. DOMAIN q = 1..Len(q) /\ Len(q) \in Nat
  OBVIOUS
<1> QED BY <1>1, SeqDef

\* Initially the queue is empty.
LEMMA PdaInit_Inv == PdaInit => PdaInv
<1> SUFFICES ASSUME PdaInit PROVE PdaInv
  OBVIOUS
<1>1. queue \in Seq(Status) /\ DOMAIN queue = {}
  BY DEF PdaInit
<1>3. JobShape /\ PushedWasAnswered
  BY DEF PdaInit, PushedWasAnswered, NoJob, JobShape
<1> QED BY <1>1, <1>3 DEF PdaInv, SyncedIsOnServer, Ids

\* Every step keeps the invariant: one case per action of PdaNext.
LEMMA PdaNext_Inv == PdaInv /\ [PdaNext]_pda_vars => PdaInv'
<1> SUFFICES ASSUME PdaInv, [PdaNext]_pda_vars PROVE PdaInv'
  OBVIOUS
<1>0. /\ queue \in Seq(Status)
      /\ JobShape
      /\ PushedWasAnswered
      /\ SyncedIsOnServer
  BY DEF PdaInv
<1>n. NoJob.pushed = {}
  BY DEF NoJob
<1>a. CASE Record
  <2>1. queue' = Append(queue, "pending") /\ UNCHANGED <<job, server, masked>>
    BY <1>a DEF Record
  <2>2. SyncedIsOnServer'
    BY <1>0, <2>1, Appended, NoneSynced DEF SyncedIsOnServer, Ids
  <2> QED BY <1>0, <2>1, <2>2, Appended DEF PdaInv, PushedWasAnswered, Answered, JobShape
<1>b. ASSUME NEW x \in Executions, process_pda_sync_queue(x) PROVE PdaInv'
  <2> DEFINE new == [on |-> TRUE, todo |-> get_pending(queue'), pushed |-> {}]
  <2>1. /\ queue' = Append(queue, "pending") /\ UNCHANGED <<server, masked>>
        /\ job' = [job EXCEPT ![x] = new]
    BY <1>b DEF process_pda_sync_queue
  <2>2. queue' \in Seq(Status)
    BY <1>0, <2>1, Appended
  <2>4. new.pushed = {}
    OBVIOUS
  <2>5. SyncedIsOnServer'
    BY <1>0, <2>1, Appended, NoneSynced DEF SyncedIsOnServer, Ids
  <2> HIDE DEF new
  <2>6. JobShape' /\ PushedWasAnswered'
    BY <1>0, <2>1, <2>4 DEF PushedWasAnswered, Answered, JobShape
  <2> QED BY <2>2, <2>5, <2>6 DEF PdaInv
<1>c. ASSUME NEW x \in Executions, job[x].todo # {},
             job' = Pushed(x, Current(x)), queue' = queue,
             server \subseteq server', masked \subseteq masked',
             Current(x) \in server' \union masked'
      PROVE  PdaInv'
  <2> DEFINE i == Current(x)
             new == [on |-> TRUE, todo |-> job[x].todo \ {i},
                     pushed |-> job[x].pushed \union {i}]
  <2>1. job' = Pushed(x, i)
    BY <1>c
  <2>3. job' = [job EXCEPT ![x] = new]
    BY <2>1 DEF Pushed
  <2>4. new.pushed = job[x].pushed \union {i}
    OBVIOUS
  <2>5. i \in Answered'
    BY <1>c DEF Answered
  <2> HIDE DEF new, i
  <2>6. JobShape' /\ PushedWasAnswered'
    BY <1>0, <1>c, <2>3, <2>4, <2>5 DEF PushedWasAnswered, Answered, JobShape
  <2>7. SyncedIsOnServer'
    BY <1>0, <1>c DEF SyncedIsOnServer, Ids
  <2> QED BY <1>0, <1>c, <2>6, <2>7 DEF PdaInv
<1>d. ASSUME NEW x \in Executions, PushAccepted(x) PROVE PdaInv'
  BY <1>c, <1>d DEF PushAccepted
<1>e. ASSUME NEW x \in Executions, PushMasked(x) PROVE PdaInv'
  BY <1>c, <1>e DEF PushMasked
<1>f. ASSUME NEW x \in Executions, PushRaises(x) PROVE PdaInv'
  <2> DEFINE i == Current(x)
             new == [on |-> TRUE, todo |-> job[x].todo \ {i},
                     pushed |-> job[x].pushed]
  <2>1. /\ server \subseteq server' /\ masked' = masked
        /\ queue' = [queue EXCEPT ![i] = "failed"]
        /\ job' = Failed(x, i)
    BY <1>f DEF PushRaises
  <2>3. job' = [job EXCEPT ![x] = new]
    BY <2>1 DEF Failed
  <2>4. new.pushed = job[x].pushed
    OBVIOUS
  <2> HIDE DEF new, i
  <2>5. queue' \in [DOMAIN queue -> Status]
    <3>1. queue \in [DOMAIN queue -> Status]
      BY <1>0
    <3> QED BY <2>1, <3>1 DEF Status
  <2>6. queue' \in Seq(Status)
    BY <1>0, <2>5, Changed
  <2>7. \A j \in DOMAIN queue' : queue'[j] = "synced" =>
           j \in DOMAIN queue /\ queue[j] = "synced"
    BY <1>0, <2>1
  <2>8. Ids({"synced"})' \subseteq Ids({"synced"})
    BY <1>0, <2>6, <2>7, NoneSynced DEF Ids
  <2>9. JobShape' /\ PushedWasAnswered'
    BY <1>0, <2>1, <2>3, <2>4 DEF PushedWasAnswered, Answered, JobShape
  <2> QED BY <1>0, <2>1, <2>6, <2>8, <2>9 DEF PdaInv, SyncedIsOnServer
<1>g. ASSUME NEW x \in Executions, mark_synced(x) PROVE PdaInv'
  <2>1. /\ job' = [job EXCEPT ![x] = NoJob] /\ UNCHANGED <<server, masked>>
        /\ queue' = [i \in DOMAIN queue |-> IF i \in job[x].pushed THEN "synced"
                                            ELSE queue[i]]
    BY <1>g DEF mark_synced
  <2>2. queue' \in [DOMAIN queue -> Status]
    BY <1>0, <2>1 DEF Status
  <2>3. queue' \in Seq(Status)
    BY <1>0, <2>2, Changed
  <2>4. SyncedIsOnServer'
    BY <1>0, <2>1 DEF SyncedIsOnServer, Ids, PushedWasAnswered, Answered
  <2>5. JobShape' /\ PushedWasAnswered'
    BY <1>0, <1>n, <2>1 DEF PushedWasAnswered, Answered, JobShape
  <2> QED BY <2>3, <2>4, <2>5 DEF PdaInv
<1>h. ASSUME NEW x \in Executions, CrashTask(x) PROVE PdaInv'
  <2>1. job' = [job EXCEPT ![x] = NoJob] /\ UNCHANGED <<queue, server, masked>>
    BY <1>h DEF CrashTask
  <2>2. JobShape' /\ PushedWasAnswered'
    BY <1>0, <1>n, <2>1 DEF PushedWasAnswered, Answered, JobShape
  <2> QED BY <1>0, <2>1, <2>2 DEF PdaInv, SyncedIsOnServer, Ids
<1>i. CASE UNCHANGED pda_vars
  BY <1>0, <1>i DEF PdaInv, PushedWasAnswered, Answered, JobShape, SyncedIsOnServer, Ids, pda_vars
<1> QED
  BY <1>a, <1>b, <1>d, <1>e, <1>f, <1>g, <1>h, <1>i DEF PdaNext

\* For any number of overlapping and crashing executions of
\* process_pda_sync_queue, any batch size and any answers that get lost: what
\* the device marks as synced is in the outbox of the server, unless the
\* server's transaction failed behind its answer of status 200.
THEOREM SyncedArrived == PdaSpec => []SyncedIsOnServer
<1>1. PdaInv => SyncedIsOnServer
  BY DEF PdaInv
<1> QED
  BY <1>1, PdaInit_Inv, PdaNext_Inv, PTL DEF PdaSpec

-----------------------------------------------------------------------------
(***************************************************************************)
(* The sliding window of the rate limiter, for any limit, window, delay    *)
(* and number of attempts.                                                 *)
(***************************************************************************)

\* The times from x on.
From(x) == {s \in Scores : s >= x}

\* Types; the delay of a check is bounded; only tried checks are admitted;
\* and the key expires no sooner than a window after any check.
RateInv ==
    /\ time \in Scores
    /\ bucket \in [Scores -> Nat]
    /\ tried \in [Scores -> Nat]
    /\ admitted \in [Scores -> Nat]
    /\ expiry \in Nat /\ expiry <= time + Window
    /\ sent \in [Attempts -> Scores \union {NotSent}]
    /\ \A r \in Attempts : sent[r] # NotSent =>
          sent[r] <= time /\ time <= sent[r] + MaxDelay
    /\ \A s \in Scores : admitted[s] <= tried[s]
    /\ \A s \in Scores : expiry < s + Window => tried[s] = 0

\* What ran from x on is in the sorted set, as far as it can be in the window.
KeptInv ==
    \A x \in Int : time + MaxDelay < x + Window =>
        Count(tried, From(x)) <= Count(bucket, From(x - MaxDelay))

\* What is in the sorted set ran at the time of its score or later.
RanInv == \A x \in Int : Count(bucket, From(x)) <= Count(tried, From(x))

\* The constants of the limiter.
LEMMA RateConstants ==
    /\ Limit \in Nat /\ Window \in Nat /\ MaxDelay \in Nat /\ MaxTime \in Nat
    /\ MaxDelay < Window /\ NotSent \in Nat /\ NotSent \notin Scores
    /\ \A s \in Scores : s \in Nat /\ s < NotSent
BY RateAssumption DEF NotSent, Scores

\* Every set of times that is counted is finite.
LEMMA ScoresFinite ==
    /\ IsFiniteSet(Scores)
    /\ \A S \in SUBSET Scores : IsFiniteSet(S)
    /\ \A x : From(x) \in SUBSET Scores
<1>1. IsFiniteSet(Scores)
  BY RateConstants, FS_Interval DEF Scores
<1> QED BY <1>1, FS_Subset DEF From

\* The facts about sums of naturals over sets of times.
LEMMA CountMore ==
    ASSUME NEW f \in [Scores -> Nat], NEW S \in SUBSET Scores, NEW T \in SUBSET S
    PROVE  Count(f, T) \in Nat /\ Count(f, S) \in Nat /\ Count(f, T) <= Count(f, S)
BY ScoresFinite, SumSubset, SumNat DEF Count

\* Fewer entries per time give a smaller count.
LEMMA CountLess ==
    ASSUME NEW f \in [Scores -> Nat], NEW g \in [Scores -> Nat], NEW S \in SUBSET Scores,
           \A s \in S : f[s] <= g[s]
    PROVE  Count(f, S) <= Count(g, S)
<1>1. \A s \in S : f[s] \in Int /\ g[s] \in Int /\ f[s] <= g[s]
  OBVIOUS
<1> QED BY <1>1, ScoresFinite, SumMonotone DEF Count

\* One entry more gives a count of one more, if it is among those counted.
LEMMA CountBump ==
    ASSUME NEW f \in [Scores -> Nat], NEW g \in [Scores -> Nat], NEW S \in SUBSET Scores,
           NEW p, \A s \in S : g[s] = IF s = p THEN f[s] + 1 ELSE f[s]
    PROVE  /\ p \in S => Count(g, S) = Count(f, S) + 1
           /\ p \notin S => Count(g, S) = Count(f, S)
<1>1. \A s \in S : f[s] \in Int
  OBVIOUS
<1> QED BY <1>1, ScoresFinite, SumBump DEF Count

\* No entries give no count.
LEMMA CountZero ==
    ASSUME NEW f \in [Scores -> Nat], NEW S \in SUBSET Scores, \A s \in S : f[s] = 0
    PROVE  Count(f, S) = 0
BY ScoresFinite, SumZero DEF Count

\* Initially nothing ran.
LEMMA RateInit_Inv == RateInit => RateInv /\ KeptInv /\ RanInv /\ NotOverfull
<1> SUFFICES ASSUME RateInit PROVE RateInv /\ KeptInv /\ RanInv /\ NotOverfull
  OBVIOUS
<1>1. RateInv
  BY RateConstants DEF RateInit, RateInv, Scores
<1>2. \A S \in SUBSET Scores : Count(bucket, S) = 0 /\ Count(tried, S) = 0 /\ Count(admitted, S) = 0
  BY <1>1, CountZero DEF RateInit, RateInv
<1>3. KeptInv /\ RanInv
  BY <1>2, ScoresFinite DEF KeptInv, RanInv
<1>4. NotOverfull
  <2>1. \A t \in Scores :
          Count(admitted, {s \in Scores : s <= t /\ t < s + Window - MaxDelay}) = 0
    BY <1>2
  <2> QED BY <2>1, RateConstants DEF NotOverfull
<1> QED BY <1>1, <1>3, <1>4

\* A MULTI/EXEC with the clock now, at the time the clock of the model shows.
LEMMA ExecuteCounts ==
    ASSUME RateInv, NEW r \in Attempts, Execute(r)
    PROVE  /\ RateInv'
           /\ KeptInv => KeptInv'
           /\ RanInv => RanInv'
<1> DEFINE now == sent[r]
<1>1. now \in Scores /\ now <= time /\ time <= now + MaxDelay /\ now \in Nat /\ time \in Nat
  BY RateConstants DEF Execute, RateInv
<1>2. /\ \A s \in Scores : bucket'[s] = IF s + Window <= now THEN 0
                                        ELSE IF s = now THEN bucket[s] + 1 ELSE bucket[s]
      /\ bucket' \in [Scores -> Nat]
  BY <1>1 DEF Execute, Trimmed, RateInv
<1>3. /\ tried' \in [Scores -> Nat]
      /\ \A s \in Scores : tried'[s] = IF s = time THEN tried[s] + 1 ELSE tried[s]
  BY <1>1 DEF Execute, RateInv
<1>4. /\ admitted' \in [Scores -> Nat]
      /\ \A s \in Scores : admitted'[s] <= IF s = time THEN admitted[s] + 1 ELSE admitted[s]
  BY <1>1 DEF Execute, RateInv
<1>5. RateInv'
  <2>1. time' = time /\ time' \in Scores
    BY DEF Execute, RateInv
  <2>2. expiry' \in Nat /\ expiry' = time + Window
    BY <1>1, RateConstants DEF Execute, RateInv
  <2>3. sent' \in [Attempts -> Scores \union {NotSent}]
    BY DEF Execute, RateInv
  <2>4. \A q \in Attempts : sent'[q] # NotSent => sent'[q] = sent[q]
    BY DEF Execute, RateInv
  <2>5. \A q \in Attempts : sent'[q] # NotSent =>
           sent'[q] <= time' /\ time' <= sent'[q] + MaxDelay
    BY <2>1, <2>4 DEF RateInv
  <2>6. \A s \in Scores : admitted'[s] <= tried'[s]
    BY <1>3, <1>4, RateConstants DEF RateInv
  <2>7. ASSUME NEW s \in Scores, expiry' < s + Window PROVE tried'[s] = 0
    <3>1. s > time /\ expiry < s + Window
      BY <1>1, <2>2, <2>7, RateConstants DEF RateInv
    <3> QED BY <3>1, <1>1, <1>3, RateConstants DEF RateInv
  <2> QED BY <1>2, <1>3, <1>4, <2>1, <2>2, <2>3, <2>5, <2>6, <2>7 DEF RateInv
<1>6. ASSUME KeptInv PROVE KeptInv'
  <2> SUFFICES ASSUME NEW x \in Int, time + MaxDelay < x + Window
               PROVE  Count(tried', From(x)) <= Count(bucket', From(x - MaxDelay))
    BY DEF KeptInv, Execute
  <2> DEFINE A == From(x)
             B == From(x - MaxDelay)
  <2>1. A \in SUBSET Scores /\ B \in SUBSET Scores
    BY ScoresFinite
  <2>2. Count(tried, A) <= Count(bucket, B)
    BY <1>6 DEF KeptInv
  <2>3. \A s \in B : bucket'[s] = IF s = now THEN bucket[s] + 1 ELSE bucket[s]
    <3> SUFFICES ASSUME NEW s \in B PROVE ~(s + Window <= now)
      BY <1>2, <2>1
    <3>1. s \in Scores /\ s \in Nat /\ s >= x - MaxDelay
      BY RateConstants DEF From
    <3> QED BY <3>1, <1>1, RateConstants
  <2>4. /\ now \in B => Count(bucket', B) = Count(bucket, B) + 1
        /\ now \notin B => Count(bucket', B) = Count(bucket, B)
    <3>1. bucket \in [Scores -> Nat] /\ bucket' \in [Scores -> Nat]
      BY <1>2 DEF RateInv
    <3> HIDE DEF B, now
    <3> QED BY <2>1, <2>3, <3>1, CountBump
  <2>5. /\ time \in A => Count(tried', A) = Count(tried, A) + 1
        /\ time \notin A => Count(tried', A) = Count(tried, A)
    <3>1. \A s \in A : tried'[s] = IF s = time THEN tried[s] + 1 ELSE tried[s]
      BY <1>3, <2>1
    <3> HIDE DEF A
    <3> QED BY <1>3, <2>1, <3>1, CountBump DEF RateInv
  <2>6. time \in A => now \in B
    BY <1>1, RateConstants DEF From
  <2>7. Count(tried, A) \in Nat /\ Count(bucket, B) \in Nat
    <3> HIDE DEF A, B
    <3> QED BY <2>1, CountMore DEF RateInv
  <2> HIDE DEF A, B
  <2>8. Count(tried', A) <= Count(bucket', B)
    BY <2>2, <2>4, <2>5, <2>6, <2>7
  <2> QED BY <2>8 DEF A, B
<1>7. ASSUME RanInv PROVE RanInv'
  <2> SUFFICES ASSUME NEW x \in Int
               PROVE  Count(bucket', From(x)) <= Count(tried', From(x))
    BY DEF RanInv
  <2> DEFINE A == From(x)
             more == [s \in Scores |-> IF s = now THEN bucket[s] + 1 ELSE bucket[s]]
  <2>1. A \in SUBSET Scores
    BY ScoresFinite
  <2>2. Count(bucket, A) <= Count(tried, A)
    BY <1>7 DEF RanInv
  <2>3. more \in [Scores -> Nat]
    BY DEF RateInv
  <2>4. \A s \in A : bucket'[s] <= more[s]
    BY <1>2, <2>1, <2>3, RateConstants DEF RateInv
  <2>5. \A s \in A : more[s] = IF s = now THEN bucket[s] + 1 ELSE bucket[s]
    BY <2>1
  <2>6. Count(bucket', A) <= Count(more, A)
    <3> HIDE DEF A, more
    <3> QED BY <1>2, <2>1, <2>3, <2>4, CountLess
  <2>7. /\ now \in A => Count(more, A) = Count(bucket, A) + 1
        /\ now \notin A => Count(more, A) = Count(bucket, A)
    <3> HIDE DEF A, more, now
    <3> QED BY <2>1, <2>3, <2>5, CountBump DEF RateInv
  <2>8. /\ time \in A => Count(tried', A) = Count(tried, A) + 1
        /\ time \notin A => Count(tried', A) = Count(tried, A)
    <3>1. \A s \in A : tried'[s] = IF s = time THEN tried[s] + 1 ELSE tried[s]
      BY <1>3, <2>1
    <3> HIDE DEF A
    <3> QED BY <1>3, <2>1, <3>1, CountBump DEF RateInv
  <2>9. now \in A => time \in A
    BY <1>1, RateConstants DEF From, RateInv
  <2>10. /\ Count(tried, A) \in Nat /\ Count(bucket, A) \in Nat
         /\ Count(bucket', A) \in Nat /\ Count(more, A) \in Nat
    <3> HIDE DEF A, more
    <3> QED BY <1>2, <2>1, <2>3, CountMore DEF RateInv
  <2> HIDE DEF A, more
  <2>11. Count(bucket', A) <= Count(tried', A)
    BY <2>2, <2>6, <2>7, <2>8, <2>9, <2>10
  <2> QED BY <2>11 DEF A
<1> QED BY <1>5, <1>6, <1>7

\* The clock goes on, and a key that has expired was not written for a window.
LEMMA PassCounts ==
    ASSUME RateInv, Pass
    PROVE  /\ RateInv'
           /\ KeptInv => KeptInv'
           /\ RanInv => RanInv'
<1>1. /\ time' = time + 1 /\ time' \in Scores /\ time \in Nat
      /\ UNCHANGED <<expiry, sent, tried, admitted>>
  BY RateConstants DEF Pass, RateInv, Scores
<1>2. \/ bucket' = bucket
      \/ expiry <= time + 1 /\ bucket' = [s \in Scores |-> 0]
  BY DEF Pass
<1>3. RateInv'
  <2>1. bucket' \in [Scores -> Nat]
    BY <1>2 DEF RateInv
  <2>2. ASSUME NEW r \in Attempts, sent[r] # NotSent
        PROVE  sent[r] <= time + 1 /\ time + 1 <= sent[r] + MaxDelay
    <3>1. sent[r] \in Nat /\ sent[r] <= time /\ time - sent[r] < MaxDelay
      BY <2>2, RateConstants DEF Pass, RateInv
    <3> QED BY <1>1, <3>1, RateConstants
  <2> QED BY <1>1, <2>1, <2>2, RateConstants DEF RateInv
<1>4. ASSUME KeptInv PROVE KeptInv'
  <2> SUFFICES ASSUME NEW x \in Int, time + 1 + MaxDelay < x + Window
               PROVE  Count(tried, From(x)) <= Count(bucket', From(x - MaxDelay))
    BY <1>1 DEF KeptInv
  <2>1. CASE bucket' = bucket
    <3>1. time + MaxDelay < x + Window
      BY <1>1, RateConstants
    <3> QED BY <3>1, <2>1, <1>4 DEF KeptInv
  <2>2. CASE expiry <= time + 1 /\ bucket' = [s \in Scores |-> 0]
    <3>1. From(x) \in SUBSET Scores /\ From(x - MaxDelay) \in SUBSET Scores
      BY ScoresFinite
    <3>2. \A s \in From(x) : tried[s] = 0
      BY <1>1, <2>2, RateConstants DEF From, RateInv
    <3>3. Count(tried, From(x)) = 0
      BY <3>1, <3>2, CountZero DEF RateInv
    <3>4. Count(bucket', From(x - MaxDelay)) \in Nat
      BY <1>3, <3>1, CountMore DEF RateInv
    <3> QED BY <3>3, <3>4
  <2> QED BY <1>2, <2>1, <2>2
<1>5. ASSUME RanInv PROVE RanInv'
  <2> SUFFICES ASSUME NEW x \in Int
               PROVE  Count(bucket', From(x)) <= Count(tried, From(x))
    BY <1>1 DEF RanInv
  <2>1. CASE bucket' = bucket
    BY <2>1, <1>5 DEF RanInv
  <2>2. CASE bucket' = [s \in Scores |-> 0]
    <3>1. From(x) \in SUBSET Scores
      BY ScoresFinite
    <3>2. Count(bucket', From(x)) = 0
      BY <1>3, <3>1, <2>2, CountZero DEF RateInv
    <3>3. Count(tried, From(x)) \in Nat
      BY <3>1, CountMore DEF RateInv
    <3> QED BY <3>2, <3>3
  <2> QED BY <1>2, <2>1, <2>2
<1> QED BY <1>3, <1>4, <1>5

\* No step lets a request too many in.
LEMMA ExecuteAdmits ==
    ASSUME RateInv, KeptInv, NotOverfull, NEW r \in Attempts, Execute(r)
    PROVE  NotOverfull'
<1>1. CASE admitted' = admitted
  BY <1>1 DEF NotOverfull
<1>2. CASE admitted' # admitted
  <2> SUFFICES ASSUME NEW t \in Scores
               PROVE  Count(admitted', {s \in Scores : s <= t /\ t < s + Window - MaxDelay})
                         <= Limit
    BY DEF NotOverfull
  <2> DEFINE A == {s \in Scores : s <= t /\ t < s + Window - MaxDelay}
             x == time - Window + MaxDelay + 1
  <2>0. RateInv' /\ KeptInv' /\ A \in SUBSET Scores
    BY ExecuteCounts
  <2>1. /\ time \in Nat /\ t \in Nat /\ x \in Int /\ time' = time
        /\ admitted \in [Scores -> Nat] /\ admitted' \in [Scores -> Nat]
        /\ bucket' \in [Scores -> Nat] /\ tried' \in [Scores -> Nat]
        /\ \A s \in Scores : admitted'[s] <= tried'[s]
    BY <2>0, RateConstants DEF RateInv, Execute
  <2>2. CASE time \notin A
    <3>1. admitted' = [admitted EXCEPT ![time] = @ + 1]
      BY <1>2 DEF Execute
    <3>2. \A s \in A : admitted'[s] = IF s = time THEN admitted[s] + 1 ELSE admitted[s]
      <4> HIDE DEF A
      <4>1. \A s \in Scores : admitted'[s] = IF s = time THEN admitted[s] + 1 ELSE admitted[s]
        BY <2>1, <3>1
      <4> QED BY <2>0, <4>1
    <3>3. Count(admitted', A) = Count(admitted, A)
      <4> HIDE DEF A
      <4>1. A \in SUBSET Scores /\ \A s \in A : admitted'[s] = admitted[s]
        BY <2>0, <2>2, <3>2
      <4>2. \A s \in A : admitted'[s] \in Int /\ admitted'[s] = admitted[s]
        BY <2>1, <4>1
      <4> QED BY <4>1, <4>2, ScoresFinite, SumSame DEF Count
    <3> QED BY <3>3 DEF NotOverfull
  <2>3. CASE time \in A
    <3>1. Count(bucket', Scores) <= Limit
      BY <1>2 DEF Execute, Allowed
    <3>3. A \subseteq From(x)
      <4> SUFFICES ASSUME NEW s \in A PROVE s \in Scores /\ s >= x
        BY DEF From
      <4>1. s \in Nat /\ s \in Scores /\ t < s + Window - MaxDelay /\ time <= t
        BY <2>3, RateConstants
      <4> QED BY <2>1, <4>1, RateConstants
    <3>4. From(x) \in SUBSET Scores /\ From(x - MaxDelay) \in SUBSET Scores
      BY ScoresFinite
    <3> HIDE DEF A
    <3>5. Count(admitted', A) <= Count(tried', A)
      BY <2>0, <2>1, CountLess
    <3>6. Count(tried', A) <= Count(tried', From(x))
      BY <2>1, <3>3, <3>4, CountMore
    <3>7. Count(tried', From(x)) <= Count(bucket', From(x - MaxDelay))
      <4>1. time + MaxDelay < x + Window
        BY <2>1, RateConstants
      <4> QED BY <2>0, <2>1, <4>1 DEF KeptInv
    <3>8. Count(bucket', From(x - MaxDelay)) <= Count(bucket', Scores)
      BY <2>1, <3>4, CountMore
    <3>9. /\ Count(admitted', A) \in Nat /\ Count(tried', A) \in Nat
          /\ Count(tried', From(x)) \in Nat /\ Count(bucket', From(x - MaxDelay)) \in Nat
          /\ Count(bucket', Scores) \in Nat
      BY <2>0, <2>1, <3>4, CountMore
    <3>10. Count(admitted', A) <= Limit
      BY <3>1, <3>5, <3>6, <3>7, <3>8, <3>9, RateConstants
    <3> QED BY <3>10 DEF A
  <2> QED BY <2>2, <2>3
<1> QED BY <1>1, <1>2

\* The inductive invariant of the limiter.
RateIInv == RateInv /\ KeptInv /\ RanInv /\ NotOverfull

\* Every step keeps the invariant: one case per action of RateNext.
LEMMA RateNext_Inv == RateIInv /\ [RateNext]_rate_vars => RateIInv'
<1> SUFFICES ASSUME RateIInv, [RateNext]_rate_vars PROVE RateIInv'
  OBVIOUS
<1>1. ASSUME NEW r \in Attempts, Begin(r) PROVE RateIInv'
  <2>1. UNCHANGED <<time, bucket, expiry, tried, admitted>>
    BY <1>1 DEF Begin
  <2>2. RateInv'
    BY <1>1, RateConstants DEF Begin, RateIInv, RateInv
  <2> QED BY <2>1, <2>2 DEF RateIInv, KeptInv, RanInv, NotOverfull
<1>2. ASSUME NEW r \in Attempts, ExecuteRaises(r) PROVE RateIInv'
  <2>1. UNCHANGED <<time, bucket, expiry, tried, admitted>>
    BY <1>2 DEF ExecuteRaises
  <2>2. RateInv'
    BY <1>2, RateConstants DEF ExecuteRaises, RateIInv, RateInv
  <2> QED BY <2>1, <2>2 DEF RateIInv, KeptInv, RanInv, NotOverfull
<1>3. ASSUME NEW r \in Attempts, Execute(r) PROVE RateIInv'
  BY <1>3, ExecuteCounts, ExecuteAdmits DEF RateIInv
<1>4. ASSUME Pass PROVE RateIInv'
  <2>1. admitted' = admitted
    BY <1>4 DEF Pass
  <2> QED BY <1>4, <2>1, PassCounts DEF RateIInv, NotOverfull
<1>5. CASE UNCHANGED rate_vars
  BY <1>5 DEF rate_vars, RateIInv, RateInv, KeptInv, RanInv, NotOverfull
<1> QED BY <1>1, <1>2, <1>3, <1>4, <1>5 DEF RateNext

\* For any limit, window and delay, and any number of checks that overtake one
\* another: check_rate_limit lets no more than Limit requests in during a
\* period shorter than the window by the longest delay.
THEOREM RateNeverOverfull == RateSpec => []NotOverfull
<1>1. RateInit => RateIInv
  BY RateInit_Inv DEF RateIInv
<1>2. RateIInv => NotOverfull
  BY DEF RateIInv
<1> QED BY <1>1, <1>2, RateNext_Inv, PTL DEF RateSpec

\* What is in the sorted set when a check is rejected ran within a window and
\* a delay.
LEMMA RejectedBusy ==
    ASSUME RateIInv, [RateNext]_rate_vars, NEW r \in Attempts,
           sent[r] # NotSent, sent'[r] = NotSent, verdict' = "rejected"
    PROVE  Count(tried', {s \in Scores : time < s + Window + MaxDelay}) > Limit
<1>1. PICK q \in Attempts : Execute(q)
  BY DEF RateNext, Begin, ExecuteRaises, Pass, rate_vars
<1> DEFINE now == sent[q]
           x == now - Window + 1
           B == {s \in Scores : time < s + Window + MaxDelay}
<1>2. now \in Nat /\ now <= time /\ time <= now + MaxDelay /\ time \in Nat /\ x \in Int
  BY <1>1, RateConstants DEF Execute, RateIInv, RateInv
<1>3. RateInv' /\ RanInv'
  BY <1>1, ExecuteCounts DEF RateIInv
<1>4. ~(Count(bucket', Scores) <= Limit)
  BY <1>1 DEF Execute, Allowed
<1>5. From(x) \in SUBSET Scores /\ From(x) \subseteq B /\ B \in SUBSET Scores
  BY <1>2, RateConstants DEF From
<1>6. Count(bucket', Scores) = Count(bucket', From(x))
  <2>1. \A s \in Scores \ From(x) : bucket'[s] = 0
    BY <1>1, <1>2, RateConstants DEF Execute, Trimmed, From
  <2>2. Count(bucket', Scores \ From(x)) = 0
    BY <2>1, <1>3, CountZero DEF RateInv
  <2>3. Count(bucket', From(x) \union (Scores \ From(x)))
          = Count(bucket', From(x)) + Count(bucket', Scores \ From(x))
    <3>1. IsFiniteSet(From(x)) /\ IsFiniteSet(Scores \ From(x))
      BY ScoresFinite
    <3>2. \A s \in From(x) \union (Scores \ From(x)) : bucket'[s] \in Int
      BY <1>3, <1>5 DEF RateInv
    <3>3. From(x) \intersect (Scores \ From(x)) = {}
      OBVIOUS
    <3> QED BY <3>1, <3>2, <3>3, SumUnion DEF Count
  <2>4. From(x) \union (Scores \ From(x)) = Scores
    BY <1>5
  <2>5. Count(bucket', From(x)) \in Nat
    BY <1>3, <1>5, CountMore DEF RateInv
  <2> QED BY <2>2, <2>3, <2>4, <2>5
<1>7. Count(bucket', From(x)) <= Count(tried', From(x))
  BY <1>2, <1>3 DEF RanInv
<1>8. /\ Count(tried', From(x)) <= Count(tried', B)
      /\ Count(tried', From(x)) \in Nat /\ Count(tried', B) \in Nat
      /\ Count(bucket', From(x)) \in Nat
  <2> HIDE DEF B
  <2> QED BY <1>3, <1>5, CountMore DEF RateInv
<1> HIDE DEF B, x
<1>9. Count(tried', B) > Limit
  BY <1>4, <1>6, <1>7, <1>8, RateConstants
<1> QED BY <1>9 DEF B

\* For any limit, window and delay: with Redis answering, check_rate_limit
\* rejects only when more than Limit checks ran in the last window and delay.
THEOREM RateRejectsBusy == RateSpec => RejectedOnlyWhenBusy
<1>1. RateInit => RateIInv
  BY RateInit_Inv DEF RateIInv
<1>2. RateIInv /\ [RateNext]_rate_vars =>
        [\A r \in Attempts :
          (sent[r] # NotSent /\ sent'[r] = NotSent /\ verdict' = "rejected")
             => Count(tried', {s \in Scores : time < s + Window + MaxDelay}) > Limit]_rate_vars
  BY RejectedBusy
<1> QED BY <1>1, <1>2, RateNext_Inv, PTL DEF RateSpec, RejectedOnlyWhenBusy

-----------------------------------------------------------------------------
(***************************************************************************)
(* The WebSocket connections of a user, for any number of sockets and any  *)
(* limit, while one notification after another is sent.                    *)
(***************************************************************************)

\* The function behind Without: what is left of the first i elements.
IsLeft(F, s, W) ==
    F = [i \in 0..Len(s) |-> IF i = 0 THEN <<>>
                             ELSE IF s[i] \in W THEN F[i - 1]
                             ELSE Append(F[i - 1], s[i])]

\* The recursive function in Without.
LEMMA WithoutUnfolds ==
    ASSUME NEW s, NEW W
    PROVE  Without(s, W) = (CHOOSE F : IsLeft(F, s, W))[Len(s)]
BY DEF Without, IsLeft

\* Such a function exists, by induction over the prefixes.
LEMMA LeftExists ==
    ASSUME NEW S, NEW s \in Seq(S), NEW W
    PROVE  \E F : IsLeft(F, s, W)
<1> DEFINE Def(F, i) == IF i = 0 THEN <<>> ELSE IF s[i] \in W THEN F[i - 1]
                        ELSE Append(F[i - 1], s[i])
           D == 0..Len(s)
           Good(n, F) == \A i \in D : i <= n => F[i] = Def(F, i)
           P == {n \in Nat : \E F : F = [i \in D |-> F[i]] /\ Good(n, F)}
<1>0. Len(s) \in Nat
  OBVIOUS
<1>1. 0 \in P
  <2> DEFINE F == [i \in D |-> <<>>]
  <2>1. Good(0, F)
    BY <1>0
  <2> QED BY <2>1
<1>2. ASSUME NEW n \in P PROVE n + 1 \in P
  <2>1. PICK F : Good(n, F)
    BY <1>2
  <2> DEFINE H == [i \in D |-> Def(F, i)]
  <2>2. ASSUME NEW i \in D, i <= n + 1 PROVE H[i] = Def(H, i)
    <3>1. CASE i = 0
      BY <3>1
    <3>2. CASE i # 0
      <4>1. i - 1 \in D /\ i - 1 <= n
        BY <1>0, <1>2, <2>2, <3>2
      <4>2. H[i - 1] = Def(F, i - 1) /\ F[i - 1] = Def(F, i - 1)
        BY <2>1, <4>1
      <4>3. H[i - 1] = F[i - 1]
        BY <4>2
      <4>4. H[i] = Def(F, i)
        OBVIOUS
      <4> HIDE DEF H
      <4> QED BY <3>2, <4>3, <4>4
    <3> QED BY <3>1, <3>2
  <2>3. n + 1 \in Nat /\ H = [i \in D |-> H[i]]
    BY <1>2
  <2> HIDE DEF H, Def
  <2> QED BY <2>2, <2>3
<1> HIDE DEF P
<1>3. P = Nat
  <2>1. P \in SUBSET Nat
    BY DEF P
  <2> QED BY <1>1, <1>2, <2>1, NatSetInduction
<1>4. PICK F : F = [i \in D |-> F[i]] /\ Good(Len(s), F)
  BY <1>0, <1>3 DEF P
<1>5. ASSUME NEW i \in D PROVE F[i] = Def(F, i)
  <2>1. i <= Len(s) /\ Good(Len(s), F)
    BY <1>0, <1>4
  <2> HIDE DEF Def
  <2> QED BY <2>1
<1>6. F = [i \in D |-> Def(F, i)]
  BY <1>4, <1>5
<1> QED BY <1>6 DEF IsLeft

\* r is what is left of the first i elements of s: no longer, in the same
\* order, nearer to the front, and nothing of W.
LeftOf(r, i, s, W, S) ==
    /\ r \in Seq(S)
    /\ Len(r) <= i
    /\ \A k \in 1..Len(r) : \E j \in k..i : r[k] = s[j] /\ s[j] \notin W
    /\ \A k, l \in 1..Len(r) : r[k] = r[l] => k = l

\* What remains is no longer, in the same order, nearer to the front, and
\* nothing of W.
LEMMA WithoutKeeps ==
    ASSUME NEW S, NEW s \in Seq(S), IsInjective(s), NEW W
    PROVE  /\ Without(s, W) \in Seq(S)
           /\ Len(Without(s, W)) <= Len(s)
           /\ IsInjective(Without(s, W))
           /\ \A k \in 1..Len(Without(s, W)) :
                 \E j \in k..Len(s) : Without(s, W)[k] = s[j] /\ s[j] \notin W
<1> DEFINE F == CHOOSE F : IsLeft(F, s, W)
<1>1. IsLeft(F, s, W)
  BY LeftExists, Zenon
<1>2. Without(s, W) = F[Len(s)]
  BY WithoutUnfolds
<1> HIDE DEF F
<1> DEFINE Fine(r, i) == LeftOf(r, i, s, W, S)
           P == {i \in Nat : i <= Len(s) => Fine(F[i], i)}
<1>3. Len(s) \in Nat /\ DOMAIN s = 1..Len(s)
  OBVIOUS
<1>4. 0 \in P
  <2>1. F[0] = <<>>
    BY <1>1, <1>3 DEF IsLeft
  <2>2. <<>> \in Seq(S) /\ Len(<<>>) = 0 /\ 1..0 = {}
    OBVIOUS
  <2>3. Fine(<<>>, 0)
    BY <2>2 DEF LeftOf
  <2> QED BY <2>1, <2>3
<1>5. ASSUME NEW n \in P PROVE n + 1 \in P
  <2> SUFFICES ASSUME n + 1 <= Len(s) PROVE Fine(F[n + 1], n + 1)
    BY <1>5
  <2>1. n \in Nat /\ n + 1 \in 1..Len(s) /\ s[n + 1] \in S
    BY <1>3, <1>5
  <2> DEFINE a == F[n]
             r == F[n + 1]
  <2>2. Fine(a, n)
    BY <1>3, <1>5, <2>1
  <2>3. r = IF s[n + 1] \in W THEN a ELSE Append(a, s[n + 1])
    <3>1. n + 1 \in 0..Len(s) /\ n + 1 # 0 /\ (n + 1) - 1 = n
      BY <1>3, <2>1
    <3>2. F[n + 1] = IF n + 1 = 0 THEN <<>>
                     ELSE IF s[n + 1] \in W THEN F[(n + 1) - 1]
                     ELSE Append(F[(n + 1) - 1], s[n + 1])
      BY <1>1, <3>1 DEF IsLeft
    <3> QED BY <3>1, <3>2
  <2> HIDE DEF a, r
  <2>4. ASSUME s[n + 1] \in W PROVE Fine(r, n + 1)
    <3>1. r = a /\ \A k \in 1..Len(a) : \E j \in k..(n + 1) : a[k] = s[j] /\ s[j] \notin W
      <4>1. \A k : k..n \subseteq k..(n + 1)
        BY <2>1
      <4> QED BY <2>2, <2>3, <2>4, <4>1 DEF LeftOf
    <3>2. a \in Seq(S) /\ Len(a) <= n + 1
      BY <2>1, <2>2 DEF LeftOf
    <3> QED BY <2>2, <3>1, <3>2 DEF LeftOf
  <2>5. ASSUME s[n + 1] \notin W PROVE Fine(r, n + 1)
    <3>1. /\ r \in Seq(S) /\ Len(r) = Len(a) + 1 /\ r[Len(a) + 1] = s[n + 1]
          /\ \A k \in 1..Len(a) : r[k] = a[k] 
          /\ Len(a) \in Nat
      BY <2>1, <2>2, <2>3, <2>5 DEF LeftOf
    <3>2. Len(r) <= n + 1
      BY <2>1, <2>2, <3>1 DEF LeftOf
    <3>3. ASSUME NEW k \in 1..Len(r)
          PROVE  \E j \in k..(n + 1) : r[k] = s[j] /\ s[j] \notin W
      <4>1. CASE k = Len(r)
        BY <2>1, <2>5, <3>1, <3>2, <4>1
      <4>2. CASE k # Len(r)
        <5>1. k \in 1..Len(a)
          BY <3>1, <4>2
        <5>2. PICK j \in k..n : a[k] = s[j] /\ s[j] \notin W
          BY <2>2, <5>1 DEF LeftOf
        <5>3. j \in k..(n + 1) /\ r[k] = s[j]
          BY <2>1, <3>1, <5>1, <5>2
        <5> QED BY <5>2, <5>3
      <4> QED BY <4>1, <4>2
    <3>4. \A k \in 1..Len(a) : r[k] # s[n + 1]
      <4> TAKE k \in 1..Len(a)
      <4>1. PICK j \in k..n : a[k] = s[j]
        BY <2>2 DEF LeftOf
      <4>2. j \in DOMAIN s /\ n + 1 \in DOMAIN s /\ j # n + 1
        BY <1>3, <2>1, <3>1, <4>1
      <4> QED BY <3>1, <4>1, <4>2 DEF IsInjective
    <3>5. ASSUME NEW k \in 1..Len(r), NEW l \in 1..Len(r), r[k] = r[l]
          PROVE  k = l
      <4>1. k \in 1..Len(a) \/ k = Len(a) + 1
        BY <3>1
      <4>2. l \in 1..Len(a) \/ l = Len(a) + 1
        BY <3>1
      <4>3. CASE k \in 1..Len(a) /\ l \in 1..Len(a)
        BY <2>2, <3>1, <3>5, <4>3 DEF LeftOf
      <4> QED BY <3>1, <3>4, <3>5, <4>1, <4>2, <4>3
    <3> QED BY <3>1, <3>2, <3>3, <3>5 DEF LeftOf
  <2> QED BY <2>4, <2>5 DEF a, r
<1>6. Fine(F[Len(s)], Len(s))
  <2> HIDE DEF P
  <2>1. P \in SUBSET Nat
    BY DEF P
  <2>2. Len(s) \in P
    BY <1>3, <1>4, <1>5, <2>1, NatSetInduction
  <2> QED BY <1>3, <2>2 DEF P
<1>7. DOMAIN Without(s, W) = 1..Len(Without(s, W))
  BY <1>2, <1>6 DEF LeftOf
<1> QED BY <1>2, <1>6, <1>7 DEF IsInjective, LeftOf

-----------------------------------------------------------------------------
\* An iteration over the current list has sent to nothing that it has still
\* before it, and to no socket that is still to be registered.
SentIsBehind ==
    /\ \A w \in sending.sent : w \in Sockets /\ socket[w].at \in {"open", "closed"}
    /\ sending.on /\ sending.epoch = epoch =>
          \A i \in DOMAIN active : active[i] \in sending.sent => i < sending.pos

\* Types; an iteration is over the current list or an older one.
WsTypes ==
    /\ epoch \in Nat /\ late \in Nat
    /\ socket \in [Sockets -> [at : {"new", "evicting", "open", "closed"}, epoch : Nat]]
    /\ sending \in [on : BOOLEAN, pos : Nat, epoch : Nat, sent : SUBSET Sockets,
                    again : SUBSET Sockets, stale : SUBSET Sockets]
    /\ sending.epoch <= epoch
    /\ sending.on => sending.pos >= 1

WsInv == WsTypes /\ WsTypeOK /\ AtMostMaxConns /\ SentIsBehind /\ NoDuplicateSends

\* Initially nothing is registered.
LEMMA WsInit_Inv == WsInit => WsInv
<1> SUFFICES ASSUME WsInit PROVE WsInv
  OBVIOUS
<1>1. active = <<>> /\ active \in Seq(Sockets) /\ DOMAIN active = {} /\ Len(active) = 0
  BY DEF WsInit
<1>2. WsTypes /\ SentIsBehind /\ NoDuplicateSends
  BY <1>1 DEF WsInit, WsTypes, SentIsBehind, NoDuplicateSends, NoSend, Fresh
<1>3. WsTypeOK /\ AtMostMaxConns
  BY <1>1, WsAssumption DEF WsInit, WsTypeOK, AtMostMaxConns, IsInjective, Fresh
<1> QED BY <1>2, <1>3 DEF WsInv

\* Evicting the oldest or registering w, with the list of epoch e looked at.
LEMMA GoOnKeeps ==
    ASSUME WsInv, NEW w \in Sockets, NEW e \in Nat,
           socket[w].at \in {"new", "evicting"},
           GoOn(w, e), UNCHANGED <<epoch, sending>>
    PROVE  WsInv'
<1>0. /\ active \in Seq(Sockets) /\ Len(active) \in Nat /\ DOMAIN active = 1..Len(active)
      /\ \A i \in DOMAIN active : active[i] \in Sockets
      /\ MaxConns \in Nat /\ MaxConns > 0
      /\ \A i \in DOMAIN active : active[i] # w
  BY WsAssumption DEF WsInv, WsTypeOK
<1>1. CASE Len(View(e)) >= MaxConns
  <2>1. View(e) = active /\ active # <<>>
    BY <1>0, <1>1 DEF View
  <2> DEFINE old == Head(active)
  <2>2. old \in Sockets /\ old = active[1] /\ 1 \in DOMAIN active /\ old # w
    BY <1>0, <2>1
  <2>3. /\ active' = Tail(active) /\ late' = late
        /\ socket' = [socket EXCEPT ![w] = [at |-> "evicting", epoch |-> e],
                                    ![old] = [at |-> "closed", epoch |-> 0]]
    BY <1>1, <2>1 DEF GoOn
  <2>4. /\ active' \in Seq(Sockets) /\ Len(active') = Len(active) - 1
        /\ DOMAIN active' = 1..(Len(active) - 1)
        /\ \A i \in DOMAIN active' : active'[i] = active[i + 1] /\ i + 1 \in DOMAIN active
    BY <1>0, <2>1, <2>3
  <2>5. \A v \in Sockets : socket'[v].at = IF v = w THEN "evicting"
                                           ELSE IF v = old THEN "closed" ELSE socket[v].at
    BY <2>2, <2>3 DEF WsInv, WsTypes
  <2>6. WsTypes'
    BY <2>2, <2>3 DEF WsInv, WsTypes
  <2>7. \A i \in DOMAIN active' : active'[i] # old
    BY <1>0, <2>2, <2>4 DEF WsInv, WsTypeOK, IsInjective
  <2>8. WsTypeOK'
    <3>1. IsInjective(active')
      BY <1>0, <2>4 DEF WsInv, WsTypeOK, IsInjective
    <3>2. \A i \in DOMAIN active' : socket'[active'[i]].at = "open"
      BY <1>0, <2>4, <2>5, <2>7 DEF WsInv, WsTypeOK
    <3>3. \A v \in Sockets : socket'[v].at \in {"new", "evicting", "open", "closed"}
      BY <2>6 DEF WsTypes
    <3> QED BY <2>4, <3>1, <3>2, <3>3 DEF WsTypeOK
  <2>9. AtMostMaxConns'
    BY <1>0, <2>3, <2>4 DEF WsInv, AtMostMaxConns, WsTypes
  <2>10. SentIsBehind'
    <3>1. \A v \in sending'.sent : v \in Sockets /\ socket'[v].at \in {"open", "closed"}
      BY <2>5 DEF WsInv, SentIsBehind
    <3>2. ASSUME sending.on, sending.epoch = epoch, NEW i \in DOMAIN active',
                 active'[i] \in sending.sent
          PROVE  i < sending.pos
      <4>1. i + 1 < sending.pos /\ i \in Nat
        BY <2>4, <3>2, <1>0 DEF WsInv, SentIsBehind
      <4> QED BY <4>1 DEF WsInv, WsTypes
    <3> QED BY <3>1, <3>2 DEF SentIsBehind
  <2> QED BY <2>6, <2>8, <2>9, <2>10 DEF WsInv, NoDuplicateSends
<1>2. CASE ~(Len(View(e)) >= MaxConns)
  <2>1. /\ active' = Append(active, w)
        /\ socket' = [socket EXCEPT ![w] = [at |-> "open", epoch |-> 0]]
        /\ late' = IF e = epoch THEN late ELSE late + 1
    BY <1>2 DEF GoOn, Registered
  <2>2. /\ active' \in Seq(Sockets) /\ Len(active') = Len(active) + 1
        /\ DOMAIN active' = 1..(Len(active) + 1)
        /\ active'[Len(active) + 1] = w
        /\ \A i \in 1..Len(active) : active'[i] = active[i]
    BY <1>0, <2>1
  <2>3. \A v \in Sockets : socket'[v].at = IF v = w THEN "open" ELSE socket[v].at
    BY <2>1 DEF WsInv, WsTypes
  <2>4. WsTypes'
    BY <2>1 DEF WsInv, WsTypes
  <2>5. WsTypeOK'
    <3>1. IsInjective(active')
      <4> SUFFICES ASSUME NEW i \in DOMAIN active', NEW j \in DOMAIN active',
                          active'[i] = active'[j]
                   PROVE  i = j
        BY DEF IsInjective
      <4>1. (i \in 1..Len(active) \/ i = Len(active) + 1)
              /\ (j \in 1..Len(active) \/ j = Len(active) + 1)
        BY <1>0, <2>2
      <4> QED BY <1>0, <2>2, <4>1 DEF WsInv, WsTypeOK, IsInjective
    <3>2. ASSUME NEW i \in DOMAIN active' PROVE socket'[active'[i]].at = "open"
      <4>1. i \in 1..Len(active) \/ i = Len(active) + 1
        BY <1>0, <2>2
      <4> QED BY <1>0, <2>2, <2>3, <4>1 DEF WsInv, WsTypeOK
    <3>3. \A v \in Sockets : socket'[v].at \in {"new", "evicting", "open", "closed"}
      BY <2>4 DEF WsTypes
    <3> QED BY <2>2, <3>1, <3>2, <3>3 DEF WsTypeOK
  <2>6. AtMostMaxConns'
    <3>1. e = epoch => Len(active) < MaxConns
      BY <1>0, <1>2 DEF View
    <3> QED BY <1>0, <2>1, <2>2, <3>1 DEF WsInv, AtMostMaxConns, WsTypes
  <2>7. SentIsBehind'
    <3>1. \A v \in sending'.sent : v \in Sockets /\ socket'[v].at \in {"open", "closed"}
      BY <2>3 DEF WsInv, SentIsBehind
    <3>2. ASSUME sending.on, sending.epoch = epoch, NEW i \in DOMAIN active',
                 active'[i] \in sending.sent
          PROVE  i < sending.pos
      <4>1. w \notin sending.sent
        BY DEF WsInv, SentIsBehind
      <4>2. i \in 1..Len(active)
        BY <1>0, <2>2, <3>2, <4>1
      <4> QED BY <1>0, <2>2, <3>2, <4>2 DEF WsInv, SentIsBehind
    <3> QED BY <3>1, <3>2 DEF SentIsBehind
  <2> QED BY <2>4, <2>5, <2>6, <2>7 DEF WsInv, NoDuplicateSends
<1> QED BY <1>1, <1>2

\* Taking the sockets of W out of the list; they are the only ones closed.
LEMMA DisconnectedKeeps ==
    ASSUME WsInv, NEW W, Disconnected(W),
           socket' \in [Sockets -> [at : {"new", "evicting", "open", "closed"}, epoch : Nat]],
           \A v \in Sockets : v \notin W => socket'[v] = socket[v],
           \A v \in Sockets : socket[v].at \in {"open", "closed"} =>
                                 socket'[v].at \in {"open", "closed"},
           sending' = sending \/ sending' = NoSend
    PROVE  WsInv'
<1> DEFINE rest == Without(active, W)
<1>0. /\ active \in Seq(Sockets) /\ IsInjective(active) /\ Len(active) \in Nat
      /\ DOMAIN active = 1..Len(active)
  BY DEF WsInv, WsTypeOK
<1>1. /\ rest \in Seq(Sockets) /\ Len(rest) <= Len(active) /\ IsInjective(rest)
      /\ \A k \in 1..Len(rest) :
            \E j \in k..Len(active) : rest[k] = active[j] /\ active[j] \notin W
  BY <1>0, WithoutKeeps
<1>2. /\ active' = rest
      /\ \/ rest = <<>> /\ epoch' = epoch + 1 /\ late' = 0
         \/ UNCHANGED <<epoch, late>>
  BY DEF Disconnected
<1> HIDE DEF rest
<1>3. Len(rest) \in Nat /\ DOMAIN rest = 1..Len(rest)
  BY <1>1
<1>4. WsTypes'
  <2>1. epoch' \in Nat /\ late' \in Nat /\ epoch <= epoch'
    BY <1>2 DEF WsInv, WsTypes
  <2>2. CASE sending' = sending
    BY <2>1, <2>2 DEF WsInv, WsTypes
  <2>3. CASE sending' = NoSend
    BY <2>1, <2>3 DEF WsTypes, NoSend
  <2> QED BY <2>2, <2>3
<1>5. WsTypeOK'
  <2>1. ASSUME NEW k \in DOMAIN active' PROVE socket'[active'[k]].at = "open"
    <3>1. PICK j \in k..Len(active) : rest[k] = active[j] /\ active[j] \notin W
      BY <1>1, <1>2, <1>3, <2>1
    <3>2. j \in DOMAIN active /\ active[j] \in Sockets
      BY <1>0, <1>2, <1>3, <2>1, <3>1
    <3> QED BY <1>2, <3>1, <3>2 DEF WsInv, WsTypeOK
  <2> QED BY <1>1, <1>2, <2>1 DEF WsTypeOK, WsTypes
<1>6. AtMostMaxConns'
  <2>1. CASE rest = <<>> /\ late' = 0
    BY <1>2, <2>1, WsAssumption DEF AtMostMaxConns
  <2>2. CASE late' = late
    BY <1>0, <1>1, <1>2, <1>3, <2>2, WsAssumption DEF WsInv, AtMostMaxConns, WsTypes
  <2> QED BY <1>2, <2>1, <2>2
<1>7. SentIsBehind'
  <2>1. CASE sending' = NoSend
    BY <2>1 DEF NoSend, SentIsBehind
  <2>2. CASE sending' = sending
    <3>1. \A v \in sending'.sent : v \in Sockets /\ socket'[v].at \in {"open", "closed"}
      BY <2>2 DEF WsInv, SentIsBehind
    <3>2. ASSUME sending'.on, sending'.epoch = epoch', NEW k \in DOMAIN active',
                 active'[k] \in sending'.sent
          PROVE  k < sending'.pos
      <4>1. epoch' = epoch
        BY <1>2, <1>3, <2>2, <3>2 DEF WsInv, WsTypes
      <4>2. PICK j \in k..Len(active) : rest[k] = active[j]
        BY <1>1, <1>2, <1>3, <3>2
      <4>3. j \in DOMAIN active /\ k <= j /\ k \in Nat /\ j \in Nat
        BY <1>0, <1>2, <1>3, <3>2, <4>2
      <4>4. j < sending.pos /\ sending.pos \in Nat
        BY <1>2, <2>2, <3>2, <4>1, <4>2, <4>3 DEF WsInv, SentIsBehind, WsTypes
      <4> QED BY <2>2, <4>3, <4>4
    <3> QED BY <3>1, <3>2 DEF SentIsBehind
  <2> QED BY <2>1, <2>2
<1>8. NoDuplicateSends'
  BY DEF WsInv, NoDuplicateSends, NoSend
<1> QED BY <1>4, <1>5, <1>6, <1>7, <1>8 DEF WsInv

\* One send_text of the iteration.
LEMMA SendNextKeeps ==
    ASSUME WsInv, NEW raises \in BOOLEAN, SendNext(raises)
    PROVE  WsInv'
<1> DEFINE conns == View(sending.epoch)
           w == conns[sending.pos]
<1>1. /\ sending.on /\ sending.pos <= Len(conns) /\ UNCHANGED <<active, epoch, socket, late>>
      /\ sending' = [sending EXCEPT
                         !.pos = @ + 1,
                         !.sent = @ \union {w},
                         !.again = IF w \in sending.sent THEN @ \union {w} ELSE @,
                         !.stale = IF raises THEN @ \union {w} ELSE @]
  BY DEF SendNext
<1>2. /\ active \in Seq(Sockets) /\ Len(active) \in Nat /\ DOMAIN active = 1..Len(active)
      /\ sending.pos \in Nat /\ sending.pos >= 1
  BY <1>1 DEF WsInv, WsTypeOK, WsTypes
<1>3. sending.epoch = epoch /\ conns = active
  BY <1>1, <1>2 DEF View
<1>4. sending.pos \in DOMAIN active /\ w = active[sending.pos] /\ w \in Sockets
  BY <1>1, <1>2, <1>3
<1>5. w \notin sending.sent
  BY <1>1, <1>2, <1>3, <1>4 DEF WsInv, SentIsBehind
<1> HIDE DEF conns, w
<1>6. /\ sending'.on = sending.on /\ sending'.pos = sending.pos + 1
      /\ sending'.epoch = sending.epoch /\ sending'.sent = sending.sent \union {w}
      /\ sending'.again = sending.again
      /\ sending' \in [on : BOOLEAN, pos : Nat, epoch : Nat, sent : SUBSET Sockets,
                       again : SUBSET Sockets, stale : SUBSET Sockets]
  <2>1. sending \in [on : BOOLEAN, pos : Nat, epoch : Nat, sent : SUBSET Sockets,
                     again : SUBSET Sockets, stale : SUBSET Sockets]
    BY DEF WsInv, WsTypes
  <2>2. sending' = [on |-> sending.on, pos |-> sending.pos + 1, epoch |-> sending.epoch,
                    sent |-> sending.sent \union {w}, again |-> sending.again,
                    stale |-> IF raises THEN sending.stale \union {w} ELSE sending.stale]
    BY <1>1, <1>5, <2>1
  <2> QED BY <1>2, <1>4, <2>1, <2>2
<1>7. WsTypes' /\ WsTypeOK' /\ AtMostMaxConns' /\ NoDuplicateSends'
  BY <1>1, <1>2, <1>6 DEF WsInv, WsTypes, WsTypeOK, AtMostMaxConns, NoDuplicateSends
<1>8. SentIsBehind'
  <2>1. \A v \in sending'.sent : v \in Sockets /\ socket'[v].at \in {"open", "closed"}
    <3>1. socket[w].at = "open"
      BY <1>4 DEF WsInv, WsTypeOK
    <3> QED BY <1>1, <1>4, <1>6, <3>1 DEF WsInv, SentIsBehind
  <2>2. ASSUME NEW i \in DOMAIN active, active[i] \in sending.sent \union {w}
        PROVE  i < sending.pos + 1
    <3>1. CASE active[i] = w
      <4>1. i = sending.pos
        BY <1>4, <3>1 DEF WsInv, WsTypeOK, IsInjective
      <4> QED BY <1>2, <4>1
    <3>2. CASE active[i] \in sending.sent
      <4>1. i < sending.pos /\ i \in Nat
        BY <1>1, <1>2, <1>3, <3>2 DEF WsInv, SentIsBehind
      <4> QED BY <1>2, <4>1
    <3> QED BY <2>2, <3>1, <3>2
  <2> QED BY <1>1, <1>6, <2>1, <2>2 DEF SentIsBehind
<1> QED BY <1>7, <1>8 DEF WsInv

\* Every step keeps the invariant: one case per action of WsNext.
LEMMA WsNext_Inv == WsInv /\ [WsNext]_ws_vars => WsInv'
<1> SUFFICES ASSUME WsInv, [WsNext]_ws_vars PROVE WsInv'
  OBVIOUS
<1>1. ASSUME NEW w \in Sockets, connect(w) PROVE WsInv'
  <2>1. epoch \in Nat
    BY DEF WsInv, WsTypes
  <2> QED BY <1>1, <2>1, GoOnKeeps DEF connect
<1>2. ASSUME NEW w \in Sockets, connect_resumed(w) PROVE WsInv'
  <2>1. socket[w].epoch \in Nat
    BY DEF WsInv, WsTypes
  <2> QED BY <1>2, <2>1, GoOnKeeps DEF connect_resumed
<1>3. ASSUME NEW w \in Sockets, disconnect(w) PROVE WsInv'
  <2>1. /\ socket' \in [Sockets -> [at : {"new", "evicting", "open", "closed"}, epoch : Nat]]
        /\ \A v \in Sockets : v \notin {w} => socket'[v] = socket[v]
        /\ \A v \in Sockets : socket[v].at \in {"open", "closed"} =>
                                 socket'[v].at \in {"open", "closed"}
    BY <1>3 DEF disconnect, WsInv, WsTypes
  <2>2. Disconnected({w}) /\ sending' = sending
    BY <1>3 DEF disconnect
  <2> QED BY <2>1, <2>2, DisconnectedKeeps
<1>4. ASSUME send_to_user PROVE WsInv'
  <2>1. /\ sending' = [on |-> TRUE, pos |-> 1, epoch |-> epoch, sent |-> {}, again |-> {},
                       stale |-> {}]
        /\ UNCHANGED <<active, epoch, socket, late>>
    BY <1>4 DEF send_to_user, NoSend
  <2> QED BY <2>1 DEF WsInv, WsTypes, WsTypeOK, AtMostMaxConns, SentIsBehind, NoDuplicateSends
<1>5. ASSUME NEW raises \in BOOLEAN, SendNext(raises) PROVE WsInv'
  BY <1>5, SendNextKeeps
<1>6. ASSUME SendEnds PROVE WsInv'
  <2>1. /\ socket' \in [Sockets -> [at : {"new", "evicting", "open", "closed"}, epoch : Nat]]
        /\ socket' = socket
    BY <1>6 DEF SendEnds, WsInv, WsTypes
  <2>2. Disconnected(sending.stale) /\ sending' = NoSend
    BY <1>6 DEF SendEnds
  <2> QED BY <2>1, <2>2, DisconnectedKeeps
<1>7. CASE UNCHANGED ws_vars
  BY <1>7 DEF ws_vars, WsInv, WsTypes, WsTypeOK, AtMostMaxConns, SentIsBehind,
              NoDuplicateSends
<1> QED BY <1>1, <1>2, <1>3, <1>4, <1>5, <1>6, <1>7 DEF WsNext

\* For any number of sockets that connect, wait for an eviction, break and are
\* sent to at once: no more than MaxConns are registered, and one more for
\* each connect that woke up to a list that had been dropped.
THEOREM WsBounded == WsSpec => []AtMostMaxConns
<1>1. WsInv => AtMostMaxConns
  BY DEF WsInv
<1> QED BY <1>1, WsInit_Inv, WsNext_Inv, PTL DEF WsSpec

\* For any number of sockets that connect and break while a notification is on
\* its way: none is sent it twice.
THEOREM WsSendsOnce == WsSpec => []NoDuplicateSends
<1>1. WsInv => NoDuplicateSends
  BY DEF WsInv
<1> QED BY <1>1, WsInit_Inv, WsNext_Inv, PTL DEF WsSpec

-----------------------------------------------------------------------------
(***************************************************************************)
(* The parts together.  A behaviour of MCServices follows one part, so it  *)
(* is a behaviour of every part's own specification: what is proved of a   *)
(* part holds of what the run checks.                                      *)
(***************************************************************************)

\* A step of the whole is a step of each part, or leaves it alone.
LEMMA PartSteps ==
    [ServicesNext]_svc_vars =>
        /\ [TokNext]_tok_vars /\ [LockNext]_lock_vars /\ [CacheNext]_cache_vars
        /\ [RateNext]_rate_vars /\ [WsNext]_ws_vars /\ [PdaNext]_pda_vars
        /\ [RouteNext]_route_vars /\ [AbcNext]_abc_vars
<1> USE DEF Only
<1> SUFFICES ASSUME [ServicesNext]_svc_vars
             PROVE  /\ [TokNext]_tok_vars /\ [LockNext]_lock_vars /\ [CacheNext]_cache_vars
                    /\ [RateNext]_rate_vars /\ [WsNext]_ws_vars /\ [PdaNext]_pda_vars
                    /\ [RouteNext]_route_vars /\ [AbcNext]_abc_vars
  OBVIOUS
<1>0. CASE UNCHANGED svc_vars
  BY <1>0 DEF svc_vars
<1>1. CASE TokNext /\ Only("tokens")
  BY <1>1
<1>2. CASE LockNext /\ Only("lock")
  BY <1>2
<1>3. CASE CacheNext /\ Only("cache")
  BY <1>3
<1>4. CASE RateNext /\ Only("rate")
  BY <1>4
<1>5. CASE WsNext /\ Only("sockets")
  BY <1>5
<1>6. CASE PdaNext /\ Only("pda")
  BY <1>6
<1>7. CASE RouteNext /\ Only("route")
  BY <1>7
<1>8. CASE AbcNext /\ Only("abc")
  BY <1>8
<1> QED
  BY <1>0, <1>1, <1>2, <1>3, <1>4, <1>5, <1>6, <1>7, <1>8 DEF ServicesNext

\* Every behaviour that the run of MCServices explores is one of each part.
THEOREM PartsAreKept ==
    ServicesSpec => /\ TokSpec /\ LockSpec /\ CacheSpec /\ RateSpec /\ WsSpec
                    /\ PdaSpec /\ RouteSpec /\ AbcSpec
<1>1. ServicesInit => /\ TokInit /\ LockInit /\ CacheInit /\ RateInit /\ WsInit
                      /\ PdaInit /\ RouteInit /\ AbcInit
  BY DEF ServicesInit
<1> QED
  BY <1>1, PartSteps, PTL DEF ServicesSpec, TokSpec, LockSpec, CacheSpec, RateSpec, WsSpec,
                              PdaSpec, RouteSpec, AbcSpec

\* The types that the invariants above do not give already.
LockTypes == lock.expires \in BOOLEAN /\ planned \in [Callers -> BOOLEAN]

\* The lock of generate_route_plan.
LEMMA LockTypes_Inv ==
    /\ LockInit => LockTypes
    /\ LockTypes /\ [LockNext]_lock_vars => LockTypes'
<1>0. Free.expires = FALSE /\ \A r : Taken(r).expires = TRUE
  BY DEF Free, Taken
<1>1. LockInit => LockTypes
  BY <1>0 DEF LockInit, LockTypes
<1>2. ASSUME LockTypes, [LockNext]_lock_vars PROVE LockTypes'
  <2>1. lock.expires \in BOOLEAN /\ planned \in [Callers -> BOOLEAN]
    BY <1>2 DEF LockTypes
  <2>2. ASSUME NEW r \in Callers,
               acquire(r) \/ AcquireRaises(r) \/ FuncReturns(r) \/ FuncRaises(r)
        PROVE  planned' \in [Callers -> BOOLEAN] /\ (lock' = lock \/ lock' = Taken(r))
    BY <2>1, <2>2 DEF acquire, AcquireRaises, FuncReturns, FuncRaises
  <2>3. ASSUME NEW r \in Callers,
               release(r) \/ ReleaseRaises(r) \/ CrashCaller(r) \/ Restart(r)
        PROVE  planned' = planned /\ (lock' = lock \/ lock' = Free)
    BY <2>3 DEF release, ReleaseRaises, CrashCaller, Restart
  <2>4. Expire => planned' = planned /\ lock' = Free
    BY DEF Expire
  <2>5. UNCHANGED lock_vars => planned' = planned /\ lock' = lock
    BY DEF lock_vars
  <2>6. /\ planned' \in [Callers -> BOOLEAN]
        /\ lock' = lock \/ lock' = Free \/ \E r \in Callers : lock' = Taken(r)
    BY <1>2, <2>1, <2>2, <2>3, <2>4, <2>5 DEF LockNext
  <2> QED BY <1>0, <2>1, <2>6 DEF LockTypes
<1> QED BY <1>1, <1>2

\* An execution of the task only knows records of the queue.
JobsKnown == \A x \in Executions : job[x].todo \union job[x].pushed \subseteq DOMAIN queue

\* The batch of process_pda_sync_queue.
LEMMA JobsKnown_Inv ==
    /\ PdaInit => JobsKnown
    /\ PdaInv /\ JobsKnown /\ [PdaNext]_pda_vars => JobsKnown'
<1>n. NoJob.todo = {} /\ NoJob.pushed = {}
  BY DEF NoJob
<1>1. PdaInit => JobsKnown
  BY <1>n DEF PdaInit, JobsKnown
<1>2. ASSUME PdaInv, JobsKnown, [PdaNext]_pda_vars PROVE JobsKnown'
  <2>0. /\ queue \in Seq(Status)
        /\ job = [x \in Executions |-> job[x]]
        /\ \A x \in Executions : job[x].todo \union job[x].pushed \subseteq DOMAIN queue
    BY <1>2 DEF PdaInv, JobShape, JobsKnown
  <2>1. DOMAIN queue \subseteq DOMAIN Append(queue, "pending")
    BY <2>0 DEF Status
  <2>2. ASSUME NEW x \in Executions, NEW new, job' = [job EXCEPT ![x] = new],
               DOMAIN queue \subseteq DOMAIN queue',
               new.todo \union new.pushed \subseteq DOMAIN queue'
        PROVE  JobsKnown'
    BY <2>0, <2>2 DEF JobsKnown
  <2>a. CASE Record
    BY <2>0, <2>1, <2>a DEF Record, JobsKnown
  <2>b. ASSUME NEW x \in Executions, process_pda_sync_queue(x) PROVE JobsKnown'
    <3> DEFINE new == [on |-> TRUE, todo |-> get_pending(queue'), pushed |-> {}]
    <3>1. queue' = Append(queue, "pending") /\ job' = [job EXCEPT ![x] = new]
      BY <2>b DEF process_pda_sync_queue
    <3>2. new.todo \subseteq DOMAIN queue' /\ new.pushed = {}
      BY DEF get_pending
    <3> HIDE DEF new
    <3> QED BY <2>1, <2>2, <3>1, <3>2
  <2>i. ASSUME NEW x \in Executions, job[x].todo # {}
        PROVE  Current(x) \in DOMAIN queue
    <3>1. job[x].todo \subseteq 1..Len(queue) /\ Len(queue) \in Nat
      BY <2>0
    <3>2. PICK i \in job[x].todo : \A j \in job[x].todo : i <= j
      <4>1. job[x].todo \in SUBSET Nat
        BY <3>1
      <4> QED BY <2>i, <4>1, LeastNat
    <3>3. Current(x) \in job[x].todo
      BY <3>2 DEF Current
    <3> QED BY <2>0, <3>3
  <2>c. ASSUME NEW x \in Executions, job[x].todo # {},
               job' = Pushed(x, Current(x)), queue' = queue
        PROVE  JobsKnown'
    <3> DEFINE i == Current(x)
               new == [on |-> TRUE, todo |-> job[x].todo \ {i},
                       pushed |-> job[x].pushed \union {i}]
    <3>1. job' = [job EXCEPT ![x] = new]
      BY <2>c DEF Pushed
    <3>2. new.todo = job[x].todo \ {i} /\ new.pushed = job[x].pushed \union {i}
      OBVIOUS
    <3>3. i \in DOMAIN queue
      BY <2>c, <2>i
    <3> HIDE DEF new, i
    <3> QED BY <2>0, <2>2, <2>c, <3>1, <3>2, <3>3
  <2>f. ASSUME NEW x \in Executions, PushRaises(x) PROVE JobsKnown'
    <3> DEFINE i == Current(x)
               new == [on |-> TRUE, todo |-> job[x].todo \ {i}, pushed |-> job[x].pushed]
    <3>1. job' = [job EXCEPT ![x] = new] /\ queue' = [queue EXCEPT ![i] = "failed"]
      BY <2>f DEF PushRaises, Failed
    <3>2. new.todo = job[x].todo \ {i} /\ new.pushed = job[x].pushed
      OBVIOUS
    <3>3. DOMAIN queue' = DOMAIN queue
      BY <3>1
    <3> HIDE DEF new, i
    <3> QED BY <2>0, <2>2, <3>1, <3>2, <3>3
  <2>g. ASSUME NEW x \in Executions, mark_synced(x) \/ CrashTask(x) PROVE JobsKnown'
    <3>1. job' = [job EXCEPT ![x] = NoJob] /\ DOMAIN queue' = DOMAIN queue
      BY <2>g DEF mark_synced, CrashTask
    <3> QED BY <1>n, <2>2, <3>1
  <2>j. CASE UNCHANGED pda_vars
    BY <2>0, <2>j DEF JobsKnown, pda_vars
  <2> QED
    BY <1>2, <2>a, <2>b, <2>c, <2>f, <2>g, <2>j DEF PdaNext, PushAccepted, PushMasked
<1> QED BY <1>1, <1>2

\* The variables of every part hold values of their kinds, for any number of
\* clients, processes, callers, readers, sockets, executions, hubs and SKUs:
\* the invariants of the parts, taken together.
THEOREM ServicesTypes == ServicesSpec => []ServicesTypeOK
<1>1. TokReachInv => TokTypeOK
  BY DEF TokReachInv, TokShape, TokTypeOK
<1>2. LockIInv /\ LockTypes => LockTypeOK
  BY DEF LockIInv, LockInv, LockTypes, LockTypeOK
<1>3. CacheInv => CacheTypeOK
  BY DEF CacheInv, CacheTypes, CacheTypeOK
<1>4. RateIInv => RateTypeOK
  BY DEF RateIInv, RateInv, RateTypeOK
<1>5. WsInv => WsTypeOK
  BY DEF WsInv
<1>6. PdaInv /\ JobsKnown => PdaTypeOK
  BY DEF PdaInv, JobsKnown, PdaTypeOK, Status
<1>7. RouteInv => RouteTypeOK
  <2> SUFFICES ASSUME RouteInv PROVE RouteTypeOK
    OBVIOUS
  <2>1. /\ todo \subseteq Pairs /\ (pair # NoPair => pair \in Pairs)
        /\ best \in [Hubs -> Costs]
    BY DEF RouteInv, RouteTypes
  <2>2. ASSUME NEW n \in heap PROVE n.cost >= best[HubOf(n)] /\ n.cost < NoCost
    <3>1. Sane(n, best, Ways(pair[1], Links))
      BY DEF RouteInv, SearchInv
    <3>2. n.path \in Seq(Hubs) /\ Len(n.path) >= 1 /\ n.cost \in Nat /\ n.cost < NoCost
      BY <3>1 DEF Sane
    <3>3. HubOf(n) \in Visited(n) /\ HubOf(n) \in Hubs
      BY <3>2 DEF HubOf, Visited
    <3>4. best[HubOf(n)] <= n.cost
      BY <3>1, <3>3 DEF Sane
    <3>5. best[HubOf(n)] \in Nat
      BY <2>1, <3>3, RouteConstants DEF Costs
    <3> QED BY <3>2, <3>4, <3>5
  <2> QED BY <2>1, <2>2 DEF RouteTypeOK, Pairs, Costs
<1>8. AbcInv => AbcTypeOK
  BY DEF AbcInv, AbcTypes, AbcTypeOK
<1>9. RateInit => RateIInv
  BY RateInit_Inv DEF RateIInv
<1>a. TokSpec => []TokTypeOK
  BY <1>1, TokInit_Reach, TokNext_Reach, PTL DEF TokSpec
<1>b. LockSpec => []LockTypeOK
  BY <1>2, LockInit_Inv, LockNext_Inv, LockTypes_Inv, PTL DEF LockSpec
<1>c. CacheSpec => []CacheTypeOK
  BY <1>3, CacheInit_Inv, CacheNext_Inv, PTL DEF CacheSpec
<1>d. RateSpec => []RateTypeOK
  BY <1>4, <1>9, RateNext_Inv, PTL DEF RateSpec
<1>e. WsSpec => []WsTypeOK
  BY <1>5, WsInit_Inv, WsNext_Inv, PTL DEF WsSpec
<1>f. PdaSpec => []PdaTypeOK
  BY <1>6, PdaInit_Inv, PdaNext_Inv, JobsKnown_Inv, PTL DEF PdaSpec
<1>g. RouteSpec => []RouteTypeOK
  BY <1>7, RouteInit_Inv, RouteNext_Inv, PTL DEF RouteSpec
<1>h. AbcSpec => []AbcTypeOK
  BY <1>8, AbcInit_Inv, AbcNext_Inv, PTL DEF AbcSpec
<1> QED
  BY <1>a, <1>b, <1>c, <1>d, <1>e, <1>f, <1>g, <1>h, PartsAreKept, PTL DEF ServicesTypeOK

=============================================================================
