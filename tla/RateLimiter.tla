---------------------------- MODULE RateLimiter ----------------------------
(***************************************************************************)
(* check_rate_limit of src/core/rate_limiter.py for one client key: the    *)
(* clock is read in the server process; ZADD, ZREMRANGEBYSCORE, ZCARD and  *)
(* EXPIRE then run in Redis as one MULTI/EXEC, possibly later and in       *)
(* another order.  Every attempt is added, the rejected ones too.          *)
(* The limiter has a Redis client of its own, which does connect.          *)
(***************************************************************************)
EXTENDS Integers, Functions

CONSTANTS
    Attempts,    \* requests of the client that can be under way at once
    Limit,       \* requests allowed
    Window,      \* per so many units of time
    MaxDelay,    \* bound: time from reading the clock to the MULTI/EXEC
    MaxTime,     \* bound: time
    MaxTries     \* bound: attempts per unit of time

ASSUME RateAssumption ==
    /\ {Limit, Window, MaxDelay, MaxTime, MaxTries} \subseteq Nat
    /\ MaxDelay < Window

VARIABLES
    time,
    bucket,      \* the sorted set: entries per score
    expiry,      \* when the key expires
    sent,        \* per request: the clock it read, while its MULTI/EXEC is due
    verdict,     \* what the last check returned
    tried,       \* per time: MULTI/EXECs that ran
    admitted     \* per time: requests that were let in

rate_vars == <<time, bucket, expiry, sent, verdict, tried, admitted>>

Scores == 0..MaxTime
NotSent == MaxTime + 1
Count(f, S) == SumFunctionOnSet(f, S)

RateInit ==
    /\ time = 0
    /\ bucket = [s \in Scores |-> 0]
    /\ expiry = 0
    /\ sent = [r \in Attempts |-> NotSent]
    /\ verdict = "none"
    /\ tried = [s \in Scores |-> 0]
    /\ admitted = [s \in Scores |-> 0]

\* now = time.time(); requests that have not run yet count for the bound.
Begin(r) ==
    /\ sent[r] = NotSent
    /\ tried[time] < MaxTries
    /\ sent' = [sent EXCEPT ![r] = time]
    /\ verdict' = "none"
    /\ UNCHANGED <<time, bucket, expiry, tried, admitted>>

\* Mutant: nothing is removed from the sorted set.
Trimmed_never(now) ==
    [s \in Scores |-> IF s = now THEN bucket[s] + 1 ELSE bucket[s]]

\* The sorted set after ZADD and ZREMRANGEBYSCORE(-inf, now - window).
Trimmed(now) ==
    [s \in Scores |-> IF s + Window <= now THEN 0
                      ELSE IF s = now THEN bucket[s] + 1 ELSE bucket[s]]

\* Mutant: the entry is counted before it is added.
Allowed_late(now) == Count(Trimmed(now), Scores) - 1 <= Limit

Allowed(now) == Count(Trimmed(now), Scores) <= Limit

\* The MULTI/EXEC: with its answer, or with the answer lost.
Execute(r) ==
    /\ sent[r] # NotSent
    /\ tried[time] < MaxTries
    /\ bucket' = Trimmed(sent[r])
    /\ expiry' = time + Window
    /\ tried' = [tried EXCEPT ![time] = @ + 1]
    /\ \/ /\ verdict' = IF Allowed(sent[r]) THEN "admitted" ELSE "rejected"
          /\ admitted' = IF Allowed(sent[r])
                         THEN [admitted EXCEPT ![time] = @ + 1] ELSE admitted
       \/ /\ verdict' = "failed"
          /\ UNCHANGED admitted
    /\ sent' = [sent EXCEPT ![r] = NotSent]
    /\ UNCHANGED time

\* Redis is not reached: False, fail-closed.
ExecuteRaises(r) ==
    /\ sent[r] # NotSent
    /\ sent' = [sent EXCEPT ![r] = NotSent]
    /\ verdict' = "failed"
    /\ UNCHANGED <<time, bucket, expiry, tried, admitted>>

\* Time passes, and an untouched key expires.
Pass ==
    /\ time < MaxTime
    /\ \A r \in Attempts : sent[r] # NotSent => time - sent[r] < MaxDelay
    /\ time' = time + 1
    /\ bucket' = IF expiry <= time + 1 THEN [s \in Scores |-> 0] ELSE bucket
    /\ verdict' = "none"
    /\ UNCHANGED <<expiry, sent, tried, admitted>>

RateNext ==
    \/ \E r \in Attempts : Begin(r) \/ Execute(r) \/ ExecuteRaises(r)
    \/ Pass

RateSpec == RateInit /\ [][RateNext]_rate_vars

-----------------------------------------------------------------------------
RateTypeOK ==
    /\ time \in Scores
    /\ \A r \in Attempts : sent[r] \in Scores \union {NotSent}
    /\ \A s \in Scores : admitted[s] <= tried[s]

\* However the checks of several server processes overtake one another, no
\* more than Limit requests are let in during any period that is shorter than
\* the window by the longest delay.  (In a whole window it can be more: an
\* entry is trimmed by a later clock before an earlier one is counted.)
NotOverfull ==
    \A t \in Scores :
        Count(admitted, {s \in Scores : s <= t /\ t < s + Window - MaxDelay}) <= Limit

\* A request is rejected, Redis answering, only when more than Limit checks of
\* the client ran in the last window and delay: a client that waits that long
\* is let in again.  Its rejected attempts count, so one that does not wait
\* may never be.
RejectedOnlyWhenBusy ==
    [][\A r \in Attempts :
          (sent[r] # NotSent /\ sent'[r] = NotSent /\ verdict' = "rejected")
             => Count(tried', {s \in Scores : time < s + Window + MaxDelay}) > Limit]_rate_vars

=============================================================================
