----------------------------- MODULE TokenStore -----------------------------
(***************************************************************************)
(* Refresh tokens of one user: issued by login, rotated by refresh, revoked *)
(* by logout, in several server processes that share Redis and fall back   *)
(* to their own memory, for good, at the first failed call.                *)
(*                                                                         *)
(* A refresh token is a JWT over the user's name and an expiry in whole    *)
(* seconds (create_refresh_token): two tokens for one name and one second  *)
(* are the same string.  pop makes the bytes of Redis a string with str(), *)
(* so the name is quoted once more, b'...', in every rotation that Redis   *)
(* answers; a token is its second and how often its name was quoted.  The  *)
(* expiry after seven days is left out.                                    *)
(*                                                                         *)
(* As the code stands no call reaches Redis: initialize passes keyword     *)
(* arguments that redis-py refuses (cache/redis_client.py:41-42), so        *)
(* get_redis raises in every process, Redis being up or not, and a process *)
(* knows the tokens of its own memory only.  wired tells this program from *)
(* the one whose client works, for which the fallback was written.         *)
(***************************************************************************)
EXTENDS Naturals, FiniteSets

LOCAL INSTANCE Functions

CONSTANTS
    Clients,     \* the user's devices
    Procs,       \* server processes
    MaxSecond,   \* bound: seconds of the clock
    MaxQuotes,   \* bound: rotations of a name that Redis answers
    MaxIssued,   \* bound: how many tokens are issued
    MaxFaults    \* bound: failed Redis calls and crashes

ASSUME TokenAssumption ==
    /\ IsFiniteSet(Procs)
    /\ {MaxSecond, MaxQuotes, MaxIssued, MaxFaults} \subseteq Nat

VARIABLES
    wired,       \* get_redis yields a client; FALSE of the code as it stands
    second,      \* the clock
    redis,       \* tokens that Redis knows
    memory,      \* per process: tokens of its _memory
    redis_ok,    \* per process: _redis_ok
    had,         \* per client: the tokens it was given
    held,        \* per client: the last of them, until it is refused
    rotating,    \* per client: a refresh between its pop and its store
    issued,      \* per token: how often it was stored
    spare,       \* per token: stored in Redis and, the answer lost, in memory
    exchanged,   \* per token: how often refresh accepted it
    faults       \* Redis calls that failed and processes that crashed

tok_vars == <<wired, second, redis, memory, redis_ok, had, held, rotating,
              issued, spare, exchanged, faults>>

Tokens == (0..MaxSecond) \X (0..MaxQuotes)
NoToken == <<MaxSecond + 1, 0>>
NoCall == [proc |-> "none", new |-> NoToken]

TokInit ==
    /\ wired \in BOOLEAN
    /\ second = 0
    /\ redis = {}
    /\ memory = [p \in Procs |-> {}]
    /\ redis_ok = [p \in Procs |-> TRUE]
    /\ had = [c \in Clients |-> {}]
    /\ held = [c \in Clients |-> NoToken]
    /\ rotating = [c \in Clients |-> NoCall]
    /\ issued = [t \in Tokens |-> 0]
    /\ spare = [t \in Tokens |-> 0]
    /\ exchanged = [t \in Tokens |-> 0]
    /\ faults = 0

\* A Redis call: it succeeds, has no effect, or has one and the answer is lost.
\* Without a client the first call of a process raises, and is its last.
Answers(p) ==
    IF redis_ok[p] THEN {"refused"} \union (IF wired THEN {"ok", "lost"} ELSE {})
    ELSE {"unused"}
Reaches(a) == a \in {"ok", "lost"}
Raises(a)  == a \in {"refused", "lost"}

\* except Exception: self._redis_ok = False.  What the missing client raises is
\* no fault of Redis.
Noted(p, a) ==
    /\ redis_ok' = [redis_ok EXCEPT ![p] = @ /\ ~Raises(a)]
    /\ Raises(a) /\ wired => faults < MaxFaults
    /\ faults' = IF Raises(a) /\ wired THEN faults + 1 ELSE faults

\* Mutant: tokens are kept in the memory of the process.
store_in_memory(p, t, a) ==
    /\ a \in Answers(p)
    /\ FoldFunction(+, 0, issued) < MaxIssued
    /\ redis' = redis
    /\ memory' = [memory EXCEPT ![p] = @ \union {t}]
    /\ Noted(p, a)
    /\ issued' = [issued EXCEPT ![t] = @ + 1]
    /\ spare' = spare

store(p, t, a) ==
    /\ a \in Answers(p)
    /\ FoldFunction(+, 0, issued) < MaxIssued
    /\ redis' = IF Reaches(a) THEN redis \union {t} ELSE redis
    /\ memory' = IF a = "ok" THEN memory
                 ELSE [memory EXCEPT ![p] = @ \union {t}]
    /\ Noted(p, a)
    /\ issued' = [issued EXCEPT ![t] = @ + 1]
    /\ spare' = IF a = "lost" THEN [spare EXCEPT ![t] = @ + 1] ELSE spare

Found(p, t, a) ==
    \/ a = "ok" /\ t \in redis
    \/ a # "ok" /\ t \in memory[p]

\* Mutant: the script returns the value and does not delete the key.
pop_kept(p, t, a) ==
    /\ a \in Answers(p)
    /\ redis' = redis
    /\ memory' = IF a = "ok" THEN memory ELSE [memory EXCEPT ![p] = @ \ {t}]
    /\ Noted(p, a)

pop(p, t, a) ==
    /\ a \in Answers(p)
    /\ redis' = IF Reaches(a) THEN redis \ {t} ELSE redis
    /\ memory' = IF a = "ok" THEN memory ELSE [memory EXCEPT ![p] = @ \ {t}]
    /\ Noted(p, a)

revoke(p, t, a) ==
    /\ a \in Answers(p)
    /\ redis' = IF Reaches(a) THEN redis \ {t} ELSE redis
    /\ memory' = [memory EXCEPT ![p] = @ \ {t}]
    /\ Noted(p, a)

Given(c, t) ==
    /\ had' = [had EXCEPT ![c] = @ \union {t}]
    /\ held' = [held EXCEPT ![c] = t]

login(c, p, a) ==
    /\ rotating[c] = NoCall
    /\ store(p, <<second, 0>>, a)
    /\ Given(c, <<second, 0>>)
    /\ UNCHANGED <<wired, second, rotating, exchanged>>

\* The name that pop returns for t, by how often it is quoted.
Quotes(t, a) == IF a = "ok" THEN t[2] + 1 ELSE t[2]

\* The new token is made right after the pop, and stored after an await.
refresh_tokens(c, p, t, a) ==
    /\ rotating[c] = NoCall
    /\ t \in had[c]
    /\ pop(p, t, a)
    /\ IF Found(p, t, a)
       THEN /\ Quotes(t, a) <= MaxQuotes
            /\ rotating' = [rotating EXCEPT ![c] =
                               [proc |-> p, new |-> <<second, Quotes(t, a)>>]]
            /\ exchanged' = [exchanged EXCEPT ![t] = @ + 1]
            /\ UNCHANGED held
       ELSE /\ held' = [held EXCEPT ![c] = IF @ = t THEN NoToken ELSE @]
            /\ UNCHANGED <<rotating, exchanged>>
    /\ UNCHANGED <<wired, second, had, issued, spare>>

store_rotated(c, a) ==
    /\ rotating[c] # NoCall
    /\ store(rotating[c].proc, rotating[c].new, a)
    /\ Given(c, rotating[c].new)
    /\ rotating' = [rotating EXCEPT ![c] = NoCall]
    /\ UNCHANGED <<wired, second, exchanged>>

logout(c, p, a) ==
    /\ rotating[c] = NoCall
    /\ held[c] # NoToken
    /\ revoke(p, held[c], a)
    /\ held' = [held EXCEPT ![c] = NoToken]
    /\ UNCHANGED <<wired, second, had, rotating, issued, spare, exchanged>>

\* A process dies and is started again: its memory and its requests are gone.
CrashProc(p) ==
    /\ memory' = [memory EXCEPT ![p] = {}]
    /\ redis_ok' = [redis_ok EXCEPT ![p] = TRUE]
    /\ rotating' = [c \in Clients |-> IF rotating[c].proc = p THEN NoCall
                                      ELSE rotating[c]]
    /\ faults < MaxFaults
    /\ faults' = faults + 1
    /\ UNCHANGED <<wired, second, redis, had, held, issued, spare, exchanged>>

NextSecond ==
    /\ second < MaxSecond
    /\ second' = second + 1
    /\ UNCHANGED <<wired, redis, memory, redis_ok, had, held, rotating, issued,
                   spare, exchanged, faults>>

TokNext ==
    \/ \E c \in Clients, p \in Procs : \E a \in Answers(p) :
          \/ login(c, p, a)
          \/ \E t \in Tokens : refresh_tokens(c, p, t, a)
          \/ logout(c, p, a)
    \/ \E c \in Clients, a \in {"ok", "refused", "lost", "unused"} :
          store_rotated(c, a)
    \/ \E p \in Procs : CrashProc(p)
    \/ NextSecond

TokSpec == TokInit /\ [][TokNext]_tok_vars

-----------------------------------------------------------------------------
TokTypeOK ==
    /\ wired \in BOOLEAN
    /\ second \in 0..MaxSecond
    /\ redis \subseteq Tokens
    /\ \A p \in Procs : memory[p] \subseteq Tokens /\ redis_ok[p] \in BOOLEAN
    /\ \A c \in Clients : had[c] \subseteq Tokens /\ held[c] \in had[c] \union {NoToken}

\* Rotation makes a token single-use: refresh accepts it no more often than it
\* was issued, whichever process is asked, with Redis calls that fail and
\* processes that restart.  The one exception is a store whose answer is lost:
\* the token is then in Redis and in the memory of the process, and each copy
\* is accepted once.
ExchangedOncePerIssue == \A t \in Tokens : exchanged[t] <= issued[t] + spare[t]

\* Where a client that is not in the middle of a refresh can refresh, while no
\* call to Redis is lost and no process crashes: the last token it was given is
\* in Redis, for every process, where get_redis works; as the code stands it is
\* in the memory of exactly one process, the one that stored it, and every
\* other process refuses it and so logs the client out.  The store is meant to
\* degrade "so that auth never breaks" (token_store.py:6-7).  Tokens that were
\* issued twice, within one second, are the exception: the first of the two
\* clients to use one takes it from the other.  (The name the tokens carry is
\* not the user's any more after a rotation that Redis answered.)
KnownToAllOrOne ==
    faults = 0 =>
        \A c \in Clients :
            (rotating[c] = NoCall /\ held[c] # NoToken /\ issued[held[c]] = 1)
               => IF wired THEN held[c] \in redis
                  ELSE \E p \in Procs : \A q \in Procs : held[c] \in memory[q] <=> q = p

=============================================================================
