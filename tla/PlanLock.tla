------------------------------ MODULE PlanLock ------------------------------
(***************************************************************************)
(* generate_route_plan under distributed_lock (src/cache/decorators.py):   *)
(* SET NX EX of a key without an owner, the function, DEL of the key; any  *)
(* exception, of Redis or of the function, and the function is executed    *)
(* once more without the lock.  The rate_limit decorator outside of it     *)
(* calls zremrange, which the client does not have, and so admits every    *)
(* call.  Time is left out: a lock may expire at any moment.               *)
(*                                                                         *)
(* As the code stands get_redis raises in every call (TokenStore.tla), so   *)
(* every function is executed bare and no lock is ever set: AcquireRaises   *)
(* without an effect.  The other actions are of the decorator with a       *)
(* client that works.                                                      *)
(***************************************************************************)
EXTENDS Naturals, FiniteSets

CONSTANT Callers         \* concurrent calls of generate_route_plan

VARIABLES
    lock,        \* the key: who set it, and whether it expires
    stage,       \* per call: where it is
    planned,     \* per call: it has committed the route plan of its order
    excused      \* calls are under way and Redis failed, the function raised,
                 \* or a lock expired before its holder was done

lock_vars == <<lock, stage, planned, excused>>

Free == [by |-> "none", expires |-> FALSE]

\* "locked": the function under the lock; "release", "release_raising": in the
\* finally clause; "bare": the function without the lock; "down": crashed.
Stages == {"idle", "locked", "release", "release_raising", "bare", "down"}
Inside(r) == stage[r] \in {"locked", "release", "release_raising", "bare"}

LockInit ==
    /\ lock = Free
    /\ stage = [r \in Callers |-> "idle"]
    /\ planned = [r \in Callers |-> FALSE]
    /\ excused = FALSE

\* r goes to stage s; when nobody is left inside the excuses are over.
Goes(r, s, excuse) ==
    /\ stage' = [stage EXCEPT ![r] = s]
    /\ excused' = /\ excused \/ excuse
                  /\ \E q \in Callers : Inside(q)'

Taken(r) == [by |-> r, expires |-> TRUE]

\* Mutant: SET without EX.
acquire_for_ever(r) ==
    /\ stage[r] = "idle"
    /\ planned' = [planned EXCEPT ![r] = FALSE]
    /\ lock = Free
    /\ lock' = [by |-> r, expires |-> FALSE]
    /\ Goes(r, "locked", FALSE)

\* Mutant: SET without NX.
acquire_always(r) ==
    /\ stage[r] = "idle"
    /\ planned' = [planned EXCEPT ![r] = FALSE]
    /\ lock' = Taken(r)
    /\ Goes(r, "locked", FALSE)

\* redis.set(lock_key, "locked", ex=timeout, nx=True).  A call that finds the
\* lock taken returns None: it leaves no trace.
acquire(r) ==
    /\ stage[r] = "idle"
    /\ planned' = [planned EXCEPT ![r] = FALSE]
    /\ lock = Free
    /\ lock' = Taken(r)
    /\ Goes(r, "locked", FALSE)

\* The SET raises, after it had its effect or without.
AcquireRaises(r) ==
    /\ stage[r] = "idle"
    /\ planned' = [planned EXCEPT ![r] = FALSE]
    /\ lock' \in {lock, IF lock = Free THEN Taken(r) ELSE lock}
    /\ Goes(r, "bare", TRUE)

\* generate_route_plan commits the plan with its segments at the end; it may
\* raise before (no order, no hub, no route) or after (db.refresh).  There is
\* one plan per order, so an execution after a commit raises at its flush.
FuncReturns(r) ==
    /\ stage[r] \in {"locked", "bare"}
    /\ ~planned[r]
    /\ planned' = [planned EXCEPT ![r] = TRUE]
    /\ Goes(r, IF stage[r] = "locked" THEN "release" ELSE "idle", FALSE)
    /\ UNCHANGED lock

FuncRaises(r) ==
    /\ stage[r] \in {"locked", "bare"}
    /\ planned' \in {planned, [planned EXCEPT ![r] = TRUE]}
    /\ Goes(r, IF stage[r] = "locked" THEN "release_raising" ELSE "idle", TRUE)
    /\ UNCHANGED lock

\* redis.delete(lock_key), whoever set it.
release(r) ==
    /\ stage[r] \in {"release", "release_raising"}
    /\ lock' = Free
    /\ Goes(r, IF stage[r] = "release" THEN "idle" ELSE "bare", FALSE)
    /\ UNCHANGED planned

\* The DEL raises: the function is executed again, although it had returned.
ReleaseRaises(r) ==
    /\ stage[r] \in {"release", "release_raising"}
    /\ lock' \in {lock, Free}
    /\ Goes(r, "bare", TRUE)
    /\ UNCHANGED planned

Expire ==
    /\ lock.expires
    /\ lock' = Free
    /\ excused' = (excused \/ \E r \in Callers : lock.by = r /\ Inside(r))
    /\ UNCHANGED <<stage, planned>>

CrashCaller(r) ==
    /\ Inside(r)
    /\ Goes(r, "down", FALSE)
    /\ UNCHANGED <<lock, planned>>

Restart(r) ==
    /\ stage[r] = "down"
    /\ Goes(r, "idle", FALSE)
    /\ UNCHANGED <<lock, planned>>

LockNext ==
    \/ \E r \in Callers :
          \/ acquire(r) \/ AcquireRaises(r)
          \/ FuncReturns(r) \/ FuncRaises(r)
          \/ release(r) \/ ReleaseRaises(r)
          \/ CrashCaller(r) \/ Restart(r)
    \/ Expire

\* Redis removes a key when its time is over.
LockFairness == WF_lock_vars(Expire)

LockSpec == LockInit /\ [][LockNext]_lock_vars /\ LockFairness

-----------------------------------------------------------------------------
LockTypeOK ==
    /\ lock.expires \in BOOLEAN
    /\ stage \in [Callers -> Stages]
    /\ planned \in [Callers -> BOOLEAN]

\* Two calls are inside at once only when, since the last time nobody was, a
\* Redis call failed, the function raised, or a lock expired under its holder:
\* without one of these the lock excludes, crashes of a holder included.
AloneUnlessExcused ==
    ~excused => \A q, r \in Callers : Inside(q) /\ Inside(r) => q = r

\* A lock whose holder crashed, or whose SET raised, does not stay: the lock
\* is free again and again.
LockIsFreed == []<>(lock = Free)

=============================================================================
