---------------------------- MODULE ResultCache ----------------------------
(***************************************************************************)
(* The cached decorator (src/cache/decorators.py) around a read such as    *)
(* get_transport_order: GET, on a miss the function and then SET with a    *)
(* time to live.  No writer removes or updates an entry.  Redis calls may  *)
(* fail; the function is then executed, once more if it had been before.   *)
(* As the code stands get_redis raises in every call (TokenStore.tla), so   *)
(* the function is executed every time and nothing is ever cached; Fill    *)
(* and what follows from it are of the decorator with a client that works. *)
(***************************************************************************)
EXTENDS Naturals

CONSTANTS
    Readers,     \* concurrent calls of the decorated function
    Ttl,         \* the time to live
    MaxFill,     \* bound: time between a call's read and its SET
    MaxClock     \* bound: time

ASSUME CacheAssumption ==
    /\ Ttl \in Nat \ {0}          \* Redis refuses an expiry of 0
    /\ {MaxFill, MaxClock} \subseteq Nat

VARIABLES
    clock,
    row,         \* the row: the time of its last change
    changed,     \* per value of the row: when it was replaced, or NotYet
    entry,       \* the cache entry and when it expires
    filling      \* per call: the value it read, and when, until its SET

cache_vars == <<clock, row, changed, entry, filling>>

Times == 0..MaxClock
NotYet == MaxClock + 1
NoEntry == [value |-> NotYet, until |-> 0]
NoFill == [value |-> NotYet, at |-> 0]

CacheInit ==
    /\ clock = 0
    /\ row = 0
    /\ changed = [v \in Times |-> NotYet]
    /\ entry = NoEntry
    /\ filling = [r \in Readers |-> NoFill]

\* change_transport_status, update_hub: the commit of a new value.
Change ==
    /\ row < clock
    /\ row' = clock
    /\ changed' = [changed EXCEPT ![row] = clock]
    /\ UNCHANGED <<clock, entry, filling>>

\* A miss: the function reads the row.  A hit changes nothing.
Miss(r) ==
    /\ filling[r] = NoFill
    /\ entry = NoEntry
    /\ filling' = [filling EXCEPT ![r] = [value |-> row, at |-> clock]]
    /\ UNCHANGED <<clock, row, changed, entry>>

\* Mutant: redis.set without ex.
Fill_for_ever(r) ==
    /\ filling[r] # NoFill
    /\ entry' = [value |-> filling[r].value, until |-> NotYet]
    /\ filling' = [filling EXCEPT ![r] = NoFill]
    /\ UNCHANGED <<clock, row, changed>>

\* redis.set(key, result, ex=ttl), whatever the entry holds by now.
Fill(r) ==
    /\ filling[r] # NoFill
    /\ entry' = [value |-> filling[r].value, until |-> clock + Ttl]
    /\ filling' = [filling EXCEPT ![r] = NoFill]
    /\ UNCHANGED <<clock, row, changed>>

\* The SET raises without effect, and the function is executed again.
FillRaises(r) ==
    /\ filling[r] # NoFill
    /\ filling' = [filling EXCEPT ![r] = NoFill]
    /\ UNCHANGED <<clock, row, changed, entry>>

\* Time passes; Redis drops the entry when its time is over.
Wait ==
    /\ clock < MaxClock
    /\ \A r \in Readers : filling[r] # NoFill => clock - filling[r].at < MaxFill
    /\ clock' = clock + 1
    /\ entry' = IF entry.until <= clock + 1 THEN NoEntry ELSE entry
    /\ UNCHANGED <<row, changed, filling>>

CacheNext ==
    \/ Change \/ Wait
    \/ \E r \in Readers : Miss(r) \/ Fill(r) \/ FillRaises(r)

CacheSpec == CacheInit /\ [][CacheNext]_cache_vars

-----------------------------------------------------------------------------
CacheTypeOK ==
    /\ clock \in Times /\ row \in Times
    /\ entry # NoEntry => entry.value \in Times

\* What a reader is given was replaced less than Ttl + MaxFill ago: a slow call
\* that overwrites a newer entry with an older value, and calls that refill an
\* entry one after the other, do not add up.
StaleForOneTtl ==
    entry # NoEntry => clock < changed[entry.value] + Ttl + MaxFill

=============================================================================
