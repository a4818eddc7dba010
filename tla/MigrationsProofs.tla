-------------------------- MODULE MigrationsProofs --------------------------
(***************************************************************************)
(* Proofs about Schema and Migrations: no command reaches the newest       *)
(* revision, whatever upgrades, downgrades and writes came before; at the  *)
(* one before it a database has what the ORM classes declare, but for      *)
(* three objects; and up to there an upgrade is refused only because of an *)
(* enum type that a downgrade left behind.                                 *)
(*                                                                         *)
(* The operations of a command are followed by induction over their        *)
(* number (Run).  What a sequence of them can do to a schema is a relation *)
(* of sets (Between, Done), from which SchemaInv, what holds of a database *)
(* at revision n, is kept by every command; whether a sequence can run is  *)
(* a matter of the order of its operations (Sorted).                       *)
(***************************************************************************)
EXTENDS Migrations, SumTheorems

-----------------------------------------------------------------------------
(* Running a sequence                                                      *)

\* What one element of a sequence does: an operation, a step or a revision.
Then(k, st, y) ==
    IF k = "operation"
    THEN IF ~st.ok THEN st ELSE IF Ok(st, y) THEN Effect(st, y) ELSE Failed(st)
    ELSE IF k = "step"
    THEN IF st.ok THEN RunStep(st, y) ELSE st
    ELSE IF st.ok THEN RunSteps(st, y.up) ELSE st

IsRun(F, k, st, seq, a, b) ==
    F = [n \in a..b |-> IF n = a THEN st ELSE Then(k, F[n - 1], seq[n])]

\* The elements a + 1 to b of seq, one after the other.
Run(k, st, seq, a, b) == (CHOOSE F : IsRun(F, k, st, seq, a, b))[b]

\* The recursive functions of Schema are runs.
LEMMA RunsAre ==
    /\ \A st, ops : RunOps(st, ops) = Run("operation", st, ops, 0, Len(ops))
    /\ \A st, steps : RunSteps(st, steps) = Run("step", st, steps, 0, Len(steps))
    /\ \A s, rows, a, b :
          Upgraded(s, rows, a, b) = Run("revision", Start(s, rows), Revisions, a, b)
  <1>1. ASSUME NEW st, NEW ops PROVE RunOps(st, ops) = Run("operation", st, ops, 0, Len(ops))
    BY DEF RunOps, Run, IsRun, Then
  <1>2. ASSUME NEW st, NEW steps PROVE RunSteps(st, steps) = Run("step", st, steps, 0, Len(steps))
    BY DEF RunSteps, Run, IsRun, Then
  <1>3. ASSUME NEW s, NEW rows, NEW a, NEW b
        PROVE  Upgraded(s, rows, a, b) = Run("revision", Start(s, rows), Revisions, a, b)
    BY DEF Upgraded, Run, IsRun, Then
  <1>4. QED BY <1>1, <1>2, <1>3

\* The function that Run takes its value from exists.
LEMMA RunExists ==
    ASSUME NEW k, NEW st, NEW seq, NEW a \in Nat, NEW b \in Nat
    PROVE  \E F : IsRun(F, k, st, seq, a, b)
  <1> DEFINE Def(F, i) == IF i = a THEN st ELSE Then(k, F[i - 1], seq[i])
             D == a..b
             Good(n, F) == \A i \in D : i <= a + n => F[i] = Def(F, i)
             P == {n \in Nat : \E F : F = [i \in D |-> F[i]] /\ Good(n, F)}
  <1>1. 0 \in P
    <2> DEFINE F == [i \in D |-> st]
    <2>1. Good(0, F)
      OBVIOUS
    <2>2. QED BY <2>1
  <1>2. ASSUME NEW n \in P PROVE n + 1 \in P
    <2>1. PICK F : Good(n, F)
      BY <1>2
    <2> DEFINE H == [i \in D |-> Def(F, i)]
    <2>2. ASSUME NEW i \in D, i <= a + (n + 1) PROVE H[i] = Def(H, i)
      <3>1. CASE i = a
        BY <3>1
      <3>2. CASE i # a
        <4>1. i - 1 \in D /\ i - 1 <= a + n
          BY <1>2, <2>2, <3>2
        <4>2. H[i - 1] = Def(F, i - 1) /\ F[i - 1] = Def(F, i - 1)
          BY <2>1, <4>1
        <4>3. H[i - 1] = F[i - 1]
          BY <4>2
        <4>4. H[i] = Def(F, i)
          OBVIOUS
        <4> HIDE DEF H
        <4>5. QED BY <3>2, <4>3, <4>4
      <3>3. QED BY <3>1, <3>2
    <2>3. n + 1 \in Nat /\ H = [i \in D |-> H[i]]
      BY <1>2
    <2> HIDE DEF H, Def
    <2>4. QED BY <2>2, <2>3
  <1> HIDE DEF P
  <1>3. P = Nat
    <2>1. P \in SUBSET Nat
      BY DEF P
    <2>2. QED BY <1>1, <1>2, <2>1, NatSetInduction
  <1>4. PICK F : F = [i \in D |-> F[i]] /\ Good(b, F)
    BY <1>3 DEF P
  <1>5. ASSUME NEW i \in D PROVE F[i] = Def(F, i)
    <2>1. i <= a + b
      OBVIOUS
    <2> HIDE DEF Def, D
    <2>2. QED BY <1>4, <2>1
  <1>6. F = [i \in D |-> Def(F, i)]
    BY <1>4, <1>5
  <1>7. QED BY <1>6 DEF IsRun

\* How far a run has got does not depend on how far it goes.
LEMMA RunPrefix ==
    ASSUME NEW k, NEW st, NEW seq, NEW a \in Nat, NEW b \in Nat, NEW c \in Nat,
           NEW F, IsRun(F, k, st, seq, a, b), NEW H, IsRun(H, k, st, seq, a, c),
           NEW m \in Nat, a + m <= b, a + m <= c
    PROVE  F[a + m] = H[a + m]
  <1> DEFINE P == {n \in Nat : a + n <= b /\ a + n <= c => F[a + n] = H[a + n]}
  <1>0. /\ \A i \in a..b : F[i] = IF i = a THEN st ELSE Then(k, F[i - 1], seq[i])
        /\ \A i \in a..c : H[i] = IF i = a THEN st ELSE Then(k, H[i - 1], seq[i])
    BY DEF IsRun
  <1>1. 0 \in P
    BY <1>0
  <1>2. ASSUME NEW n \in P PROVE n + 1 \in P
    <2> SUFFICES ASSUME a + (n + 1) <= b, a + (n + 1) <= c
                 PROVE  F[a + (n + 1)] = H[a + (n + 1)]
      BY <1>2
    <2> DEFINE i == a + (n + 1)
    <2>1. /\ i \in a..b /\ i \in a..c /\ i # a /\ i - 1 = a + n
          /\ a + n <= b /\ a + n <= c
      BY <1>2
    <2>2. F[i - 1] = H[i - 1]
      BY <1>2, <2>1
    <2> HIDE DEF i
    <2>3. F[i] = H[i]
      BY <1>0, <2>1, <2>2
    <2>4. QED BY <2>3 DEF i
  <1> HIDE DEF P
  <1>3. P = Nat
    <2>1. P \in SUBSET Nat
      BY DEF P
    <2>2. QED BY <1>1, <1>2, <2>1, NatSetInduction
  <1>4. QED BY <1>3 DEF P

\* A run begins with the state it is given.
LEMMA RunBase ==
    ASSUME NEW k, NEW st, NEW seq, NEW a \in Nat
    PROVE  Run(k, st, seq, a, a) = st
  <1> DEFINE F == CHOOSE F : IsRun(F, k, st, seq, a, a)
  <1>1. IsRun(F, k, st, seq, a, a)
    BY RunExists, Zenon
  <1>2. Run(k, st, seq, a, a) = F[a]
    BY DEF Run
  <1> HIDE DEF F
  <1>3. QED BY <1>1, <1>2 DEF IsRun

\* And goes on with one element after the other.
LEMMA RunNext ==
    ASSUME NEW k, NEW st, NEW seq, NEW a \in Nat, NEW b \in Nat, a <= b
    PROVE  Run(k, st, seq, a, b + 1) = Then(k, Run(k, st, seq, a, b), seq[b + 1])
  <1> DEFINE c == b + 1
             F == CHOOSE F : IsRun(F, k, st, seq, a, b)
             H == CHOOSE H : IsRun(H, k, st, seq, a, c)
  <1>1. c \in Nat /\ b \in a..c /\ c \in a..c /\ c # a /\ c - 1 = b
    OBVIOUS
  <1>2. IsRun(F, k, st, seq, a, b) /\ Run(k, st, seq, a, b) = F[b]
    BY RunExists, Zenon DEF Run
  <1>3. IsRun(H, k, st, seq, a, c) /\ Run(k, st, seq, a, c) = H[c]
    BY <1>1, RunExists, Zenon DEF Run
  <1> HIDE DEF F, H
  <1>4. F[b] = H[b]
    <2>1. PICK m \in Nat : b = a + m
      <3>1. b - a \in Nat /\ b = a + (b - a)
        OBVIOUS
      <3>2. QED BY <3>1
    <2>2. a + m <= b /\ a + m <= c
      BY <2>1
    <2> HIDE DEF c
    <2>3. F[a + m] = H[a + m]
      BY <1>1, <1>2, <1>3, <2>2, RunPrefix
    <2>4. QED BY <2>1, <2>3
  <1>5. H[c] = Then(k, H[b], seq[c])
    <2> HIDE DEF c
    <2>1. QED BY <1>1, <1>3 DEF IsRun
  <1>6. QED BY <1>2, <1>3, <1>4, <1>5

\* A property that every element keeps is kept by the run.
LEMMA RunStays ==
    ASSUME NEW k, NEW I, NEW st \in I, NEW seq, NEW b \in Nat,
           \A n \in 1..b : \A t \in I : Then(k, t, seq[n]) \in I
    PROVE  Run(k, st, seq, 0, b) \in I
  <1> DEFINE P == {n \in Nat : n <= b => Run(k, st, seq, 0, n) \in I}
  <1>1. 0 \in P
    BY RunBase
  <1>2. ASSUME NEW n \in P PROVE n + 1 \in P
    <2> SUFFICES ASSUME n + 1 <= b PROVE Run(k, st, seq, 0, n + 1) \in I
      BY <1>2
    <2>1. n \in Nat /\ 0 <= n /\ n + 1 \in 1..b /\ n <= b
      BY <1>2
    <2>2. Run(k, st, seq, 0, n) \in I
      BY <1>2, <2>1
    <2>3. QED BY <2>1, <2>2, RunNext
  <1> HIDE DEF P
  <1>3. P = Nat
    <2>1. P \in SUBSET Nat
      BY DEF P
    <2>2. QED BY <1>1, <1>2, <2>1, NatSetInduction
  <1>4. QED BY <1>3 DEF P

\* A sequence, and its elements.
IsSeq(s) == Len(s) \in Nat /\ s = [i \in 1..Len(s) |-> s[i]]
Elems(s) == {s[i] : i \in 1..Len(s)}

\* It is a sequence over every set that has its elements.
LEMMA SeqOver ==
    ASSUME NEW s, IsSeq(s), NEW S, \A i \in 1..Len(s) : s[i] \in S PROVE s \in Seq(S)
  <1> DEFINE n == Len(s)
  <1>1. n \in Nat /\ s = [i \in 1..n |-> s[i]]
    BY DEF IsSeq
  <1> HIDE DEF n
  <1>2. s \in [1..n -> S]
    BY <1>1 DEF n
  <1>3. QED BY <1>1, <1>2

\* Two sequences, one after the other.
LEMMA ConcatIs ==
    ASSUME NEW s, NEW t, IsSeq(s), IsSeq(t)
    PROVE  /\ IsSeq(s \o t) /\ Len(s \o t) = Len(s) + Len(t)
           /\ Len(s) \in Nat /\ Len(t) \in Nat
           /\ \A i \in 1..Len(s) : (s \o t)[i] = s[i]
           /\ \A i \in 1..Len(t) : (s \o t)[Len(s) + i] = t[i]
           /\ Elems(s \o t) = Elems(s) \union Elems(t)
  <1> DEFINE S == Elems(s) \union Elems(t)
             u == s \o t
             a == Len(s)
             b == Len(t)
  <1>1. s \in Seq(S) /\ t \in Seq(S)
    <2>1. /\ \A i \in 1..Len(s) : s[i] \in S
          /\ \A i \in 1..Len(t) : t[i] \in S
      BY DEF Elems
    <2> HIDE DEF S
    <2>2. QED BY <2>1, SeqOver
  <1> HIDE DEF S
  <1>2. u \in Seq(S) /\ Len(u) = a + b /\ a \in Nat /\ b \in Nat
    BY <1>1
  <1>3. IsSeq(u)
    <2> HIDE DEF u, a, b
    <2>1. Len(u) \in Nat /\ u = [i \in 1..Len(u) |-> u[i]]
      BY <1>2
    <2>2. QED BY <2>1 DEF IsSeq
  <1>4. /\ \A i \in 1..a : u[i] = s[i]
        /\ \A i \in 1..b : u[a + i] = t[i]
    BY <1>1
  <1> HIDE DEF u, a, b
  <1>5. /\ \A i \in 1..(a + b) : i \in 1..a \/ \E j \in 1..b : i = a + j
        /\ \A i \in 1..a : i \in 1..(a + b)
        /\ \A i \in 1..b : a + i \in 1..(a + b)
    <2>1. ASSUME NEW i \in 1..(a + b) PROVE i \in 1..a \/ \E j \in 1..b : i = a + j
      <3>1. CASE i <= a
        BY <1>2, <3>1
      <3>2. CASE i > a
        <4>1. i - a \in 1..b /\ i = a + (i - a)
          BY <1>2, <3>2
        <4>2. QED BY <4>1
      <3>3. QED BY <1>2, <3>1, <3>2
    <2>2. QED BY <1>2, <2>1
  <1>6. {u[i] : i \in 1..(a + b)} = {s[i] : i \in 1..a} \union {t[i] : i \in 1..b}
    BY <1>4, <1>5
  <1>7. Elems(u) = Elems(s) \union Elems(t)
    BY <1>2, <1>6 DEF Elems, a, b
  <1>8. QED BY <1>2, <1>3, <1>4, <1>7 DEF u, a, b

\* A sequence of two parts runs the second after the first.
LEMMA RunConcat ==
    ASSUME NEW k, NEW st, NEW s, NEW t, IsSeq(s), IsSeq(t)
    PROVE  Run(k, st, s \o t, 0, Len(s \o t))
             = Run(k, Run(k, st, s, 0, Len(s)), t, 0, Len(t))
  <1> DEFINE u == s \o t
             l == Len(s)
             mid == Run(k, st, s, 0, l)
             P == {n \in Nat : n <= l => Run(k, st, u, 0, n) = Run(k, st, s, 0, n)}
             Q == {n \in Nat : n <= Len(t) => Run(k, st, u, 0, l + n) = Run(k, mid, t, 0, n)}
  <1>1. /\ l \in Nat /\ Len(t) \in Nat /\ Len(u) = l + Len(t)
        /\ \A n \in 1..l : u[n] = s[n]
        /\ \A n \in 1..Len(t) : u[l + n] = t[n]
    BY ConcatIs
  <1> HIDE DEF u, l, mid
  <1>2. 0 \in P
    BY RunBase
  <1>3. ASSUME NEW n \in P PROVE n + 1 \in P
    <2> SUFFICES ASSUME n + 1 <= l PROVE Run(k, st, u, 0, n + 1) = Run(k, st, s, 0, n + 1)
      BY <1>3
    <2>1. n \in Nat /\ 0 <= n /\ n + 1 \in 1..l /\ n <= l
      BY <1>1, <1>3
    <2>2. Run(k, st, u, 0, n) = Run(k, st, s, 0, n) /\ u[n + 1] = s[n + 1]
      BY <1>1, <1>3, <2>1
    <2>3. QED BY <2>1, <2>2, RunNext
  <1>4. P = Nat
    <2>1. P \in SUBSET Nat
      OBVIOUS
    <2> HIDE DEF P
    <2>2. QED BY <1>2, <1>3, <2>1, NatSetInduction
  <1>5. Run(k, st, u, 0, l) = mid
    BY <1>1, <1>4 DEF mid
  <1>6. 0 \in Q
    BY <1>1, <1>5, RunBase
  <1>7. ASSUME NEW n \in Q PROVE n + 1 \in Q
    <2> SUFFICES ASSUME n + 1 <= Len(t)
                 PROVE  Run(k, st, u, 0, l + (n + 1)) = Run(k, mid, t, 0, n + 1)
      BY <1>7
    <2> DEFINE m == l + n
    <2>1. n \in Nat /\ 0 <= n /\ n + 1 \in 1..Len(t) /\ n <= Len(t)
          /\ m \in Nat /\ 0 <= m /\ l + (n + 1) = m + 1
      BY <1>1, <1>7
    <2>2. Run(k, st, u, 0, m) = Run(k, mid, t, 0, n) /\ u[l + (n + 1)] = t[n + 1]
      BY <1>1, <1>7, <2>1
    <2> HIDE DEF m
    <2>3. Run(k, st, u, 0, m + 1) = Then(k, Run(k, st, u, 0, m), u[m + 1])
      BY <2>1, RunNext
    <2>4. Run(k, mid, t, 0, n + 1) = Then(k, Run(k, mid, t, 0, n), t[n + 1])
      BY <2>1, RunNext
    <2>5. QED BY <2>1, <2>2, <2>3, <2>4
  <1>8. Q = Nat
    <2>1. Q \in SUBSET Nat
      OBVIOUS
    <2> HIDE DEF Q
    <2>2. QED BY <1>6, <1>7, <2>1, NatSetInduction
  <1>9. Run(k, st, u, 0, l + Len(t)) = Run(k, mid, t, 0, Len(t))
    <2>1. PICK m \in Nat : m = Len(t)
      BY <1>1
    <2>2. m \in Q /\ m <= m
      BY <1>8
    <2>3. Run(k, st, u, 0, l + m) = Run(k, mid, t, 0, m)
      BY <2>1, <2>2
    <2>4. QED BY <2>1, <2>3
  <1>10. QED BY <1>1, <1>9 DEF u, l, mid

\* The elements of Must are the operations, a step each.
LEMMA MustIs ==
    ASSUME NEW ops, IsSeq(ops)
    PROVE  /\ IsSeq(Must(ops)) /\ Len(Must(ops)) = Len(ops)
           /\ \A i \in 1..Len(ops) : Must(ops)[i] = [best |-> FALSE, ops |-> <<ops[i]>>]
  <1> DEFINE n == Len(ops)
  <1>1. n \in Nat /\ DOMAIN ops = 1..n
    BY DEF IsSeq
  <1>2. Must(ops) = [i \in 1..n |-> [best |-> FALSE, ops |-> <<ops[i]>>]]
    BY <1>1 DEF Must
  <1> HIDE DEF n
  <1>3. Len(Must(ops)) = n
    BY <1>1, <1>2
  <1>4. QED BY <1>1, <1>2, <1>3 DEF IsSeq, n

\* A run of one operation.
LEMMA OneOp ==
    ASSUME NEW st, NEW op PROVE RunOps(st, <<op>>) = Then("operation", st, op)
  <1>1. PICK s : s = <<op>>
    OBVIOUS
  <1>2. PICK z \in Nat : z = 0
    OBVIOUS
  <1>3. Len(s) = z + 1 /\ s[z + 1] = op
    BY <1>1, <1>2
  <1>4. Run("operation", st, s, z, z) = st
    BY RunBase
  <1>5. Run("operation", st, s, z, z + 1)
          = Then("operation", Run("operation", st, s, z, z), s[z + 1])
    BY RunNext
  <1>6. RunOps(st, s) = Run("operation", st, s, 0, Len(s))
    BY RunsAre
  <1>7. RunOps(st, s) = Then("operation", st, op)
    BY <1>2, <1>3, <1>4, <1>5, <1>6
  <1>8. QED BY <1>1, <1>7

\* A mandatory step does what its operation does.
LEMMA MustStep ==
    ASSUME NEW st, NEW op
    PROVE  Then("step", st, [best |-> FALSE, ops |-> <<op>>]) = Then("operation", st, op)
  <1> DEFINE y == [best |-> FALSE, ops |-> <<op>>]
  <1>1. y.best = FALSE /\ y.ops = <<op>>
    OBVIOUS
  <1> HIDE DEF y
  <1>2. RunStep(st, y) = RunOps(st, <<op>>)
    BY <1>1 DEF RunStep
  <1>3. Then("step", st, y) = IF st.ok THEN Then("operation", st, op) ELSE st
    BY <1>2, OneOp DEF Then
  <1>4. ~st.ok => Then("operation", st, op) = st
    BY DEF Then
  <1>5. QED BY <1>3, <1>4 DEF y

\* Mandatory steps run as their operations do.
LEMMA MustRuns ==
    ASSUME NEW st, NEW ops, IsSeq(ops)
    PROVE  RunSteps(st, Must(ops)) = RunOps(st, ops)
  <1> DEFINE l == Len(ops)
             m == Must(ops)
             P == {n \in Nat : n <= l =>
                      Run("step", st, m, 0, n) = Run("operation", st, ops, 0, n)}
  <1>1. l \in Nat /\ Len(m) = l
        /\ \A i \in 1..l : m[i] = [best |-> FALSE, ops |-> <<ops[i]>>]
    BY MustIs DEF IsSeq
  <1> HIDE DEF l, m
  <1>2. 0 \in P
    BY RunBase
  <1>3. ASSUME NEW n \in P PROVE n + 1 \in P
    <2> SUFFICES ASSUME n + 1 <= l
                 PROVE  Run("step", st, m, 0, n + 1) = Run("operation", st, ops, 0, n + 1)
      BY <1>3
    <2>1. n \in Nat /\ 0 <= n /\ n + 1 \in 1..l /\ n <= l
      BY <1>1, <1>3
    <2> DEFINE now == Run("step", st, m, 0, n)
    <2>2. now = Run("operation", st, ops, 0, n)
      BY <1>3, <2>1
    <2>3. Run("step", st, m, 0, n + 1) = Then("step", now, m[n + 1])
      BY <2>1, RunNext
    <2>4. Run("operation", st, ops, 0, n + 1)
            = Then("operation", Run("operation", st, ops, 0, n), ops[n + 1])
      BY <2>1, RunNext
    <2> HIDE DEF now
    <2>5. QED BY <1>1, <2>1, <2>2, <2>3, <2>4, MustStep
  <1>4. P = Nat
    <2>1. P \in SUBSET Nat
      OBVIOUS
    <2> HIDE DEF P
    <2>2. QED BY <1>2, <1>3, <2>1, NatSetInduction
  <1>5. PICK n \in Nat : n = l
    BY <1>1
  <1>6. n \in P /\ n <= n
    BY <1>4
  <1>7. Run("step", st, m, 0, n) = Run("operation", st, ops, 0, n)
    BY <1>5, <1>6
  <1>8. QED BY <1>1, <1>5, <1>7, RunsAre DEF l, m

\* Steps and operations one after the other.
LEMMA RunsConcat ==
    ASSUME NEW st, NEW s, NEW t, IsSeq(s), IsSeq(t)
    PROVE  /\ RunOps(st, s \o t) = RunOps(RunOps(st, s), t)
           /\ RunSteps(st, s \o t) = RunSteps(RunSteps(st, s), t)
  <1>1. PICK u : u = s \o t
    OBVIOUS
  <1>2. /\ Run("operation", st, u, 0, Len(u))
             = Run("operation", Run("operation", st, s, 0, Len(s)), t, 0, Len(t))
        /\ Run("step", st, u, 0, Len(u))
             = Run("step", Run("step", st, s, 0, Len(s)), t, 0, Len(t))
    BY <1>1, RunConcat
  <1>3. /\ RunOps(st, u) = RunOps(RunOps(st, s), t)
        /\ RunSteps(st, u) = RunSteps(RunSteps(st, s), t)
    BY <1>2, RunsAre
  <1>4. QED BY <1>1, <1>3

-----------------------------------------------------------------------------
(* What operations do to a schema                                          *)

\* The parts of an object.
LEMMA ObjectIs ==
    /\ \A t : Tab(t)[1] = "table" /\ Tab(t)[2] = t
    /\ \A n : Typ(n)[1] = "type" /\ Typ(n)[2] = n
    /\ \A t, c : Uq(t, c)[1] = "unique" /\ Uq(t, c)[2] = t /\ Uq(t, c)[3] = c
    /\ \A t, r : Fk(t, r)[1] = "fk" /\ Fk(t, r)[2] = t /\ Fk(t, r)[3] = r
    /\ \A t, c : Ix(t, c)[1] = "index" /\ Ix(t, c)[2] = t /\ Ix(t, c)[3] = c
    /\ \A t, c : Col(t, c)[1] = "column" /\ Col(t, c)[2] = t /\ Col(t, c)[3] = c
  BY DEF Tab, Typ, Uq, Fk, Ix, Col

\* The kinds of the objects that belong to a table, other than the table.
Parts == {"unique", "fk", "index", "column"}

\* An operation of a revision: its objects belong to one table, only a
\* create_table brings a table, and with it the table itself.
Proper(op) ==
    /\ op.do \in {"create_table", "drop_table", "add", "add_required", "drop",
                  "drop_type", "deduplicate"}
    /\ \A x \in op.objs : x[2] = op.on /\ (x = Tab(op.on) \/ x[1] \in Parts)
    /\ \A x \in op.types : x[1] = "type"
    /\ op.do = "create_table" => Tab(op.on) \in op.objs
    /\ op.do # "create_table" => Tab(op.on) \notin op.objs
    /\ op.do \in {"drop_table", "drop_type", "deduplicate"} => op.objs = {}
    /\ op.do \notin {"create_table", "drop_type"} => op.types = {}

\* The fields of a created table.
LEMMA CreateIs ==
    ASSUME NEW t, NEW u, NEW r, NEW y
    PROVE  /\ Proper(create_table(t, u, r, y))
           /\ create_table(t, u, r, y).do = "create_table"
           /\ create_table(t, u, r, y).on = t
           /\ create_table(t, u, r, y).objs = table(t, u, r)
           /\ \A x \in create_table(t, u, r, y).objs : x[1] = "fk" => x[3] \in r
  <1> DEFINE op == create_table(t, u, r, y)
  <1>1. op.do = "create_table" /\ op.on = t /\ op.objs = table(t, u, r)
        /\ op.types = {Typ(n) : n \in y}
    BY DEF create_table
  <1>2. \A x \in table(t, u, r) : /\ x[2] = t /\ (x = Tab(t) \/ x[1] \in Parts)
                                  /\ x[1] = "fk" => x[3] \in r
    BY ObjectIs DEF table, Parts
  <1>3. Tab(t) \in table(t, u, r)
    BY DEF table
  <1>4. \A x \in op.types : x[1] = "type"
    BY <1>1, ObjectIs
  <1> HIDE DEF op
  <1>5. Proper(op)
    BY <1>1, <1>2, <1>3, <1>4 DEF Proper
  <1>6. QED BY <1>1, <1>2, <1>5 DEF op

\* The fields of the other operations.
LEMMA OperationIs ==
    /\ \A t : /\ Proper(drop_table(t)) /\ drop_table(t).do = "drop_table"
              /\ drop_table(t).on = t
    /\ \A n : /\ Proper(drop_type(n)) /\ drop_type(n).do = "drop_type"
              /\ drop_type(n).types = {Typ(n)}
    /\ \A x : x[1] \in Parts =>
          /\ Proper(add(x)) /\ add(x).do = "add" /\ add(x).objs = {x} /\ add(x).on = x[2]
          /\ Proper(drop(x)) /\ drop(x).do = "drop" /\ drop(x).objs = {x} /\ drop(x).on = x[2]
          /\ Proper(add_required(x)) /\ add_required(x).do = "add_required"
          /\ add_required(x).objs = {x} /\ add_required(x).on = x[2]
    /\ Proper(deduplicate) /\ deduplicate.do = "deduplicate" /\ deduplicate.objs = {}
  <1>1. ASSUME NEW t
        PROVE  /\ Proper(drop_table(t)) /\ drop_table(t).do = "drop_table"
               /\ drop_table(t).on = t
    BY DEF drop_table, Proper
  <1>2. ASSUME NEW n
        PROVE  /\ Proper(drop_type(n)) /\ drop_type(n).do = "drop_type"
               /\ drop_type(n).types = {Typ(n)}
    <2>1. Typ(n)[1] = "type"
      BY ObjectIs
    <2>2. QED BY <2>1 DEF drop_type, Proper
  <1>3. ASSUME NEW x, x[1] \in Parts
        PROVE  /\ Proper(add(x)) /\ add(x).do = "add" /\ add(x).objs = {x} /\ add(x).on = x[2]
               /\ Proper(drop(x)) /\ drop(x).do = "drop" /\ drop(x).objs = {x} /\ drop(x).on = x[2]
               /\ Proper(add_required(x)) /\ add_required(x).do = "add_required"
               /\ add_required(x).objs = {x} /\ add_required(x).on = x[2]
    <2>1. \A t : x # Tab(t)
      BY <1>3, ObjectIs DEF Parts
    <2>2. QED BY <1>3, <2>1 DEF add, drop, add_required, Proper
  <1>4. Proper(deduplicate) /\ deduplicate.do = "deduplicate" /\ deduplicate.objs = {}
    BY DEF deduplicate, Proper
  <1>5. QED BY <1>1, <1>2, <1>3, <1>4

\* op removes x from whatever schema has it.
Takes(op, x) ==
    \/ op.do = "drop_table" /\ x[1] # "type" /\ x[2] = op.on
    \/ op.do = "drop" /\ x \in op.objs
    \/ op.do = "drop_type" /\ x \in op.types

\* Every object of a table comes with the table.
Owned(s) == \A x \in s : x[1] = "type" \/ Tab(x[2]) \in s

\* The operations O can turn the schema s into t.
Between(s, t, O) ==
    /\ \A x \in s : (\A op \in O : ~Takes(op, x)) => x \in t
    /\ \A x \in t : x \in s \/ \E op \in O : x \in Added(op)
    /\ Owned(s) => Owned(t)

\* And all of them have been done.
Done(t, O) ==
    \A op \in O :
        /\ \A x \in Added(op) : (\A o \in O : ~Takes(o, x)) => x \in t
        /\ \A x \in t : Takes(op, x) => \E o \in O : x \in Added(o)

\* The effect of one operation.
LEMMA EffectIs ==
    ASSUME NEW st, NEW op
    PROVE  /\ Effect(st, op).ok
           /\ \A x : x \in Effect(st, op).schema <=>
                        (x \in st.schema /\ ~Takes(op, x)) \/ x \in Added(op)
           /\ Effect(st, op).rows \subseteq st.rows
           /\ Effect(st, op).created
                = st.created \union (IF op.do = "create_table" THEN op.types ELSE {})
           /\ ~Failed(st).ok /\ Failed(st).schema = st.schema /\ Failed(st).rows = st.rows
  <1>1. /\ Effect(st, op).ok
        /\ Effect(st, op).schema = (st.schema \ Removed(st.schema, op)) \union Added(op)
        /\ Effect(st, op).rows = st.rows \ Emptied(op)
        /\ Effect(st, op).created
             = st.created \union (IF op.do = "create_table" THEN op.types ELSE {})
    BY DEF Effect
  <1>2. ~Failed(st).ok /\ Failed(st).schema = st.schema /\ Failed(st).rows = st.rows
    BY DEF Failed
  <1>3. \A x \in st.schema : x \in Removed(st.schema, op) <=> Takes(op, x)
    BY DEF Removed, Takes, OfTable
  <1>4. QED BY <1>1, <1>2, <1>3

\* An operation that succeeds leaves no object without its table.
LEMMA OwnedKept ==
    ASSUME NEW st, NEW op, Proper(op), Ok(st, op), Owned(st.schema)
    PROVE  Owned(Effect(st, op).schema)
  <1> DEFINE s == st.schema
             t == Effect(st, op).schema
  <1>1. \A x : x \in t <=> (x \in s /\ ~Takes(op, x)) \/ x \in Added(op)
    BY EffectIs
  <1>2. \A x \in s : x[1] = "type" \/ Tab(x[2]) \in s
    BY DEF Owned
  <1> HIDE DEF t
  <1>3. ASSUME NEW x \in t, x[1] # "type" PROVE Tab(x[2]) \in t
    <2>1. CASE x \in s /\ ~Takes(op, x)
      <3>1. Tab(x[2]) \in s
        BY <1>2, <1>3, <2>1
      <3>2. ~Takes(op, Tab(x[2]))
        BY <1>3, <2>1, ObjectIs DEF Takes, Proper
      <3>3. QED BY <1>1, <3>1, <3>2
    <2>2. CASE x \in Added(op)
      <3>1. x \in op.objs /\ x[2] = op.on /\ op.do \in {"create_table", "add", "add_required"}
        BY <1>3, <2>2 DEF Added, Proper
      <3>2. CASE op.do = "create_table"
        BY <1>1, <3>1, <3>2 DEF Added, Proper
      <3>3. CASE op.do # "create_table"
        <4>1. Tab(op.on) \in s
          BY <3>1, <3>3 DEF Ok, OkAdd
        <4>2. \A y : ~Takes(op, y)
          BY <3>1 DEF Takes
        <4>3. QED BY <1>1, <3>1, <4>1, <4>2
      <3>4. QED BY <3>2, <3>3
    <2>3. QED BY <1>1, <1>3, <2>1, <2>2
  <1>4. QED BY <1>3 DEF Owned, t

\* One more operation.
LEMMA BetweenNext ==
    ASSUME NEW s, NEW O, NEW st, NEW op, Proper(op), Between(s, st.schema, O)
    PROVE  LET new == Then("operation", st, op)
           IN  /\ Between(s, new.schema, O \union {op})
               /\ new.rows \subseteq st.rows
               /\ new.ok => st.ok /\ Ok(st, op) /\ new = Effect(st, op)
               /\ new.ok /\ Done(st.schema, O) => Done(new.schema, O \union {op})
  <1> DEFINE new == Then("operation", st, op)
             Q == O \union {op}
  <1>1. CASE ~st.ok
    <2>1. new = st
      BY <1>1 DEF Then
    <2>2. Between(s, st.schema, Q)
      BY DEF Between
    <2>3. QED BY <1>1, <2>1, <2>2
  <1>2. CASE st.ok /\ ~Ok(st, op)
    <2>1. new = Failed(st)
      BY <1>2 DEF Then
    <2>2. Between(s, st.schema, Q)
      BY DEF Between
    <2>3. QED BY <2>1, <2>2, EffectIs
  <1>3. CASE st.ok /\ Ok(st, op)
    <2>1. new = Effect(st, op)
      BY <1>3 DEF Then
    <2> DEFINE e == Effect(st, op)
               t == st.schema
               u == e.schema
    <2>2. /\ \A x : x \in u <=> (x \in t /\ ~Takes(op, x)) \/ x \in Added(op)
          /\ e.rows \subseteq st.rows /\ e.ok
      BY EffectIs
    <2>3. Owned(t) => Owned(u)
      BY <1>3, OwnedKept
    <2> HIDE DEF e, u, new
    <2>4. Between(s, u, Q)
      BY <2>2, <2>3 DEF Between
    <2>5. Done(t, O) => Done(u, Q)
      <3> SUFFICES ASSUME Done(t, O), NEW p \in Q
                   PROVE  /\ \A x \in Added(p) : (\A o \in Q : ~Takes(o, x)) => x \in u
                          /\ \A x \in u : Takes(p, x) => \E o \in Q : x \in Added(o)
        BY DEF Done
      <3>1. CASE p = op
        BY <2>2, <3>1
      <3>2. CASE p \in O
        BY <2>2, <3>2 DEF Done
      <3>3. QED BY <3>1, <3>2
    <2>6. QED BY <1>3, <2>1, <2>2, <2>4, <2>5 DEF e, u, new
  <1>4. QED BY <1>1, <1>2, <1>3

\* What a sequence of operations does to a schema.
LEMMA OpsBetween ==
    ASSUME NEW ops, IsSeq(ops), \A op \in Elems(ops) : Proper(op), NEW st
    PROVE  LET r == RunOps(st, ops)
           IN  /\ Between(st.schema, r.schema, Elems(ops))
               /\ r.rows \subseteq st.rows
               /\ r.ok => st.ok /\ Done(r.schema, Elems(ops))
  <1> DEFINE l == Len(ops)
             O(n) == {ops[i] : i \in 1..n}
             R(n) == Run("operation", st, ops, 0, n)
             Good(r, n) == /\ Between(st.schema, r.schema, O(n))
                           /\ r.rows \subseteq st.rows
                           /\ r.ok => st.ok /\ Done(r.schema, O(n))
             P == {n \in Nat : n <= l => Good(R(n), n)}
  <1>0. l \in Nat /\ O(l) = Elems(ops)
    BY DEF IsSeq, Elems
  <1>1. 0 \in P
    <2>1. R(0) = st /\ O(0) = {}
      BY RunBase
    <2>2. Between(st.schema, st.schema, {}) /\ Done(st.schema, {})
      BY DEF Between, Done
    <2> HIDE DEF R, O
    <2>3. Good(R(0), 0)
      BY <2>1, <2>2
    <2>4. QED BY <2>3
  <1>2. ASSUME NEW n \in P PROVE n + 1 \in P
    <2> SUFFICES ASSUME n + 1 <= l PROVE Good(R(n + 1), n + 1)
      BY <1>2
    <2>1. n \in Nat /\ 0 <= n /\ n + 1 \in 1..l /\ n <= l
      BY <1>0, <1>2
    <2> DEFINE op == ops[n + 1]
               now == R(n)
               new == Then("operation", now, op)
    <2>2. Good(now, n)
      BY <1>2, <2>1
    <2>3. R(n + 1) = new
      BY <2>1, RunNext
    <2>4. O(n + 1) = O(n) \union {op}
      <3>1. \A i \in 1..(n + 1) : i \in 1..n \/ i = n + 1
        BY <2>1
      <3>2. 1..n \subseteq 1..(n + 1) /\ n + 1 \in 1..(n + 1)
        BY <2>1
      <3>3. QED BY <3>1, <3>2
    <2>5. Proper(op)
      BY <2>1 DEF Elems
    <2> HIDE DEF R, O, op, now
    <2>6. /\ Between(st.schema, new.schema, O(n) \union {op})
          /\ new.rows \subseteq now.rows
          /\ new.ok => now.ok
          /\ new.ok /\ Done(now.schema, O(n)) => Done(new.schema, O(n) \union {op})
      BY <2>2, <2>5, BetweenNext
    <2> HIDE DEF new
    <2>7. QED BY <2>2, <2>3, <2>4, <2>6
  <1> HIDE DEF Good, R
  <1>3. P = Nat
    <2>1. P \in SUBSET Nat
      OBVIOUS
    <2> HIDE DEF P
    <2>2. QED BY <1>1, <1>2, <2>1, NatSetInduction
  <1>4. PICK n \in Nat : n = l
    BY <1>0
  <1>5. n \in P /\ n <= n
    BY <1>3
  <1>6. Good(R(l), l)
    BY <1>4, <1>5
  <1>7. QED BY <1>0, <1>6, RunsAre DEF Good, R

\* Two parts, and a larger set of operations.
LEMMA BetweenTrans ==
    ASSUME NEW s, NEW t, NEW u, NEW O, NEW Q, NEW W, O \subseteq W, Q \subseteq W,
           Between(s, t, O), Between(t, u, Q)
    PROVE  Between(s, u, W)
  BY DEF Between

\* The steps of a revision that consist of proper operations.
ProperSteps(steps) ==
    /\ IsSeq(steps)
    /\ \A y \in Elems(steps) : IsSeq(y.ops) /\ \A op \in Elems(y.ops) : Proper(op)
OpsIn(steps) == UNION {Elems(y.ops) : y \in Elems(steps)}

\* One step, which may be rolled back.
LEMMA StepBetween ==
    ASSUME NEW y, IsSeq(y.ops), \A op \in Elems(y.ops) : Proper(op), NEW st
    PROVE  LET r == Then("step", st, y)
           IN  /\ Between(st.schema, r.schema, Elems(y.ops))
               /\ r.rows \subseteq st.rows
               /\ y.best /\ st.ok => r.ok
               /\ r.ok => st.ok
  <1> DEFINE d == RunOps(st, y.ops)
             r == Then("step", st, y)
  <1>1. /\ Between(st.schema, d.schema, Elems(y.ops))
        /\ d.rows \subseteq st.rows
        /\ d.ok => st.ok
    BY OpsBetween
  <1>2. Between(st.schema, st.schema, Elems(y.ops))
    BY DEF Between
  <1>3. RunStep(st, y) = IF y.best /\ ~d.ok THEN st ELSE d
    BY DEF RunStep
  <1>4. r = IF st.ok THEN (IF y.best /\ ~d.ok THEN st ELSE d) ELSE st
    BY <1>3 DEF Then
  <1> HIDE DEF d, r
  <1>5. /\ Between(st.schema, r.schema, Elems(y.ops))
        /\ r.rows \subseteq st.rows
        /\ y.best /\ st.ok => r.ok
        /\ r.ok => st.ok
    BY <1>1, <1>2, <1>4
  <1>6. QED BY <1>5 DEF r

\* How far a run of steps has got.
LEMMA StepsUpTo ==
    ASSUME NEW steps, ProperSteps(steps), NEW st, NEW m \in Nat, m <= Len(steps)
    PROVE  LET r == Run("step", st, steps, 0, m)
           IN  /\ Between(st.schema, r.schema, OpsIn(steps))
               /\ r.rows \subseteq st.rows
               /\ r.ok => st.ok
               /\ (\A y \in Elems(steps) : y.best) /\ st.ok => r.ok
  <1> DEFINE l == Len(steps)
             R(n) == Run("step", st, steps, 0, n)
             O == OpsIn(steps)
             Good(r) == /\ Between(st.schema, r.schema, O)
                        /\ r.rows \subseteq st.rows
                        /\ r.ok => st.ok
                        /\ (\A y \in Elems(steps) : y.best) /\ st.ok => r.ok
             P == {n \in Nat : n <= l => Good(R(n))}
  <1>0. l \in Nat
    BY DEF ProperSteps, IsSeq
  <1>1. 0 \in P
    <2>1. R(0) = st
      BY RunBase
    <2>2. Between(st.schema, st.schema, O)
      BY DEF Between
    <2> HIDE DEF R, O
    <2>3. QED BY <2>1, <2>2
  <1>2. ASSUME NEW n \in P PROVE n + 1 \in P
    <2> SUFFICES ASSUME n + 1 <= l PROVE Good(R(n + 1))
      BY <1>2
    <2>1. n \in Nat /\ 0 <= n /\ n + 1 \in 1..l /\ n <= l
      BY <1>0, <1>2
    <2> DEFINE y == steps[n + 1]
               now == R(n)
               new == Then("step", now, y)
    <2>2. Good(now)
      BY <1>2, <2>1
    <2>3. R(n + 1) = new
      BY <2>1, RunNext
    <2>4. y \in Elems(steps)
      BY <2>1 DEF Elems
    <2>5. Elems(y.ops) \subseteq O /\ IsSeq(y.ops) /\ \A op \in Elems(y.ops) : Proper(op)
      BY <2>4 DEF ProperSteps, OpsIn
    <2> HIDE DEF R, O, y, now
    <2>6. /\ Between(now.schema, new.schema, Elems(y.ops))
          /\ new.rows \subseteq now.rows
          /\ y.best /\ now.ok => new.ok
          /\ new.ok => now.ok
      BY <2>5, StepBetween
    <2> HIDE DEF new
    <2>7. Between(st.schema, new.schema, O)
      BY <2>2, <2>5, <2>6, BetweenTrans
    <2>8. QED BY <2>2, <2>3, <2>4, <2>6, <2>7
  <1> HIDE DEF Good, R
  <1>3. P = Nat
    <2>1. P \in SUBSET Nat
      OBVIOUS
    <2> HIDE DEF P
    <2>2. QED BY <1>1, <1>2, <2>1, NatSetInduction
  <1>4. QED BY <1>3 DEF Good, R

\* What is in the schema, or not in it, after the first m steps stays so, if no
\* step takes it away or adds it.
LEMMA StepsFrom ==
    ASSUME NEW steps, ProperSteps(steps), NEW st, NEW m \in Nat, m <= Len(steps), NEW x
    PROVE  LET R(n) == Run("step", st, steps, 0, n)
           IN  /\ x \in R(m).schema /\ (\A op \in OpsIn(steps) : ~Takes(op, x))
                    => x \in RunSteps(st, steps).schema
               /\ x \notin R(m).schema /\ (\A op \in OpsIn(steps) : x \notin Added(op))
                    => x \notin RunSteps(st, steps).schema
  <1> DEFINE l == Len(steps)
             R(n) == Run("step", st, steps, 0, n)
             Kept(s) ==
                 /\ x \in R(m).schema /\ (\A op \in OpsIn(steps) : ~Takes(op, x)) => x \in s
                 /\ x \notin R(m).schema /\ (\A op \in OpsIn(steps) : x \notin Added(op))
                      => x \notin s
             P == {n \in Nat : m + n <= l => Kept(R(m + n).schema)}
  <1>0. l \in Nat
    BY DEF ProperSteps, IsSeq
  <1>1. 0 \in P
    <2>1. m + 0 = m
      OBVIOUS
    <2> HIDE DEF R
    <2>2. Kept(R(m + 0).schema)
      BY <2>1
    <2>3. QED BY <2>2
  <1>2. ASSUME NEW n \in P PROVE n + 1 \in P
    <2> DEFINE i == m + n
    <2> SUFFICES ASSUME i + 1 <= l PROVE Kept(R(i + 1).schema)
      <3>1. i + 1 = m + (n + 1)
        BY <1>2
      <3> HIDE DEF Kept, R
      <3>2. QED BY <1>2, <3>1
    <2>1. i \in Nat /\ 0 <= i /\ i + 1 \in 1..l /\ i <= l
      BY <1>0, <1>2
    <2> DEFINE y == steps[i + 1]
               now == R(i)
               new == Then("step", now, y)
    <2>2. Kept(now.schema)
      BY <1>2, <2>1
    <2> HIDE DEF i, Kept
    <2>3. R(i + 1) = new
      BY <2>1, RunNext
    <2>4. y \in Elems(steps)
      BY <2>1 DEF Elems
    <2>5. Elems(y.ops) \subseteq OpsIn(steps) /\ IsSeq(y.ops)
          /\ \A op \in Elems(y.ops) : Proper(op)
      BY <2>4 DEF ProperSteps, OpsIn
    <2> HIDE DEF R, y, now
    <2>6. Between(now.schema, new.schema, Elems(y.ops))
      BY <2>5, StepBetween
    <2> HIDE DEF new
    <2>7. Kept(new.schema)
      BY <2>2, <2>5, <2>6 DEF Between, Kept
    <2>8. QED BY <2>3, <2>7
  <1>3. P = Nat
    <2>1. P \in SUBSET Nat
      OBVIOUS
    <2> HIDE DEF P
    <2>2. QED BY <1>1, <1>2, <2>1, NatSetInduction
  <1>4. l - m \in Nat /\ m + (l - m) = l /\ l <= l
    BY <1>0
  <1> HIDE DEF Kept, R, l
  <1>5. Kept(R(l).schema)
    <2>1. PICK n \in Nat : m + n = l
      BY <1>4
    <2>2. n \in P /\ m + n <= l
      BY <1>3, <1>4, <2>1
    <2>3. Kept(R(m + n).schema)
      BY <2>2
    <2>4. QED BY <2>1, <2>3
  <1>6. RunSteps(st, steps) = R(l)
    BY RunsAre DEF R, l
  <1>7. QED BY <1>5, <1>6 DEF Kept, R

\* Best-effort steps all succeed or leave no trace.  One that adds an object
\* to a table that stays leaves the object there, whether or not it was there
\* before; one that drops an object leaves none.
LEMMA TryIs ==
    ASSUME NEW steps, ProperSteps(steps), \A y \in Elems(steps) : y.best, NEW st, st.ok
    PROVE  LET r == RunSteps(st, steps)
           IN  /\ r.ok
               /\ Between(st.schema, r.schema, OpsIn(steps))
               /\ r.rows \subseteq st.rows
               /\ \A y \in Elems(steps) : \A x :
                    /\ /\ y.ops = <<add(x)>> /\ x[1] \in Parts /\ x # HubKey
                       /\ Tab(x[2]) \in st.schema
                       /\ \A op \in OpsIn(steps) : ~Takes(op, x) /\ ~Takes(op, Tab(x[2]))
                       => x \in r.schema
                    /\ /\ y.ops = <<drop(x)>> /\ x[1] \in Parts /\ x # Uq(x[2], "id")
                       /\ \A op \in OpsIn(steps) : x \notin Added(op)
                       => x \notin r.schema
  <1> DEFINE l == Len(steps)
             R(n) == Run("step", st, steps, 0, n)
             r == RunSteps(st, steps)
  <1>0. l \in Nat
    BY DEF ProperSteps, IsSeq
  <1>1. r.ok /\ Between(st.schema, r.schema, OpsIn(steps)) /\ r.rows \subseteq st.rows
    <2>1. r = Run("step", st, steps, 0, l)
      BY RunsAre
    <2>2. QED BY <1>0, <2>1, StepsUpTo
  <1>2. ASSUME NEW y \in Elems(steps), NEW x, x[1] \in Parts
        PROVE  \E m \in 1..l :
                 /\ R(m) = Then("step", R(m - 1), y)
                 /\ R(m - 1).ok /\ Between(st.schema, R(m - 1).schema, OpsIn(steps))
                 /\ \A op : y.ops = <<op>> =>
                        R(m) = IF Ok(R(m - 1), op) THEN Effect(R(m - 1), op) ELSE R(m - 1)
    <2>1. PICK m \in 1..l : y = steps[m]
      BY DEF Elems
    <2>2. PICK n \in Nat : m = n + 1 /\ n <= l /\ 0 <= n /\ m - 1 = n
      <3>1. m - 1 \in Nat /\ m = (m - 1) + 1 /\ m - 1 <= l /\ 0 <= m - 1
        BY <1>0
      <3>2. QED BY <3>1
    <2>3. R(m) = Then("step", R(n), y)
      BY <2>1, <2>2, RunNext
    <2>4. R(n).ok /\ Between(st.schema, R(n).schema, OpsIn(steps))
      BY <2>2, StepsUpTo
    <2> DEFINE now == R(n)
    <2> HIDE DEF R
    <2>5. ASSUME NEW op, y.ops = <<op>>
          PROVE  R(m) = IF Ok(now, op) THEN Effect(now, op) ELSE now
      <3> DEFINE d == Then("operation", now, op)
      <3>1. RunOps(now, y.ops) = d
        BY <2>5, OneOp
      <3>2. d = IF Ok(now, op) THEN Effect(now, op) ELSE Failed(now)
        BY <2>4 DEF Then
      <3>3. Effect(now, op).ok /\ ~Failed(now).ok
        BY EffectIs
      <3> HIDE DEF d
      <3>4. RunStep(now, y) = IF ~d.ok THEN now ELSE d
        BY <3>1 DEF RunStep
      <3>5. R(m) = RunStep(now, y)
        BY <2>3, <2>4 DEF Then
      <3>6. d.ok <=> Ok(now, op)
        BY <3>2, <3>3
      <3>7. QED BY <3>2, <3>4, <3>5, <3>6
    <2>6. QED BY <2>2, <2>3, <2>4, <2>5
  <1>3. ASSUME NEW y \in Elems(steps), NEW x, y.ops = <<add(x)>>, x[1] \in Parts, x # HubKey,
               Tab(x[2]) \in st.schema,
               \A op \in OpsIn(steps) : ~Takes(op, x) /\ ~Takes(op, Tab(x[2]))
        PROVE  x \in r.schema
    <2>1. PICK m \in 1..l :
              /\ R(m - 1).ok /\ Between(st.schema, R(m - 1).schema, OpsIn(steps))
              /\ R(m) = IF Ok(R(m - 1), add(x)) THEN Effect(R(m - 1), add(x)) ELSE R(m - 1)
      BY <1>2, <1>3
    <2>2. PICK now : now = R(m - 1)
      OBVIOUS
    <2>3. Tab(x[2]) \in now.schema
      BY <1>3, <2>1, <2>2 DEF Between
    <2>4. add(x).do = "add" /\ add(x).on = x[2] /\ add(x).objs = {x}
      BY <1>3, OperationIs
    <2>5. x \notin now.schema => Ok(now, add(x))
      BY <1>3, <2>3, <2>4 DEF Ok, OkAdd, HubKey
    <2>6. x \in Added(add(x)) /\ ~Takes(add(x), x)
      BY <2>4 DEF Added, Takes
    <2>7. x \in Effect(now, add(x)).schema
      BY <2>6, EffectIs
    <2> HIDE DEF R
    <2>8. x \in R(m).schema
      BY <2>1, <2>2, <2>5, <2>7
    <2>9. m \in Nat /\ m <= l
      BY <1>0
    <2>10. QED BY <1>3, <2>8, <2>9, StepsFrom DEF R
  <1>4. ASSUME NEW y \in Elems(steps), NEW x, y.ops = <<drop(x)>>, x[1] \in Parts,
               x # Uq(x[2], "id"), \A op \in OpsIn(steps) : x \notin Added(op)
        PROVE  x \notin r.schema
    <2>1. PICK m \in 1..l :
              R(m) = IF Ok(R(m - 1), drop(x)) THEN Effect(R(m - 1), drop(x)) ELSE R(m - 1)
      BY <1>2, <1>4
    <2>2. PICK now : now = R(m - 1)
      OBVIOUS
    <2>4. drop(x).do = "drop" /\ drop(x).on = x[2] /\ drop(x).objs = {x}
      BY <1>4, OperationIs
    <2>5. x \in now.schema => Ok(now, drop(x))
      BY <1>4, <2>4 DEF Ok, OkDrop
    <2>6. x \notin Added(drop(x)) /\ Takes(drop(x), x)
      BY <2>4 DEF Added, Takes
    <2>7. x \notin Effect(now, drop(x)).schema
      BY <2>6, EffectIs
    <2> HIDE DEF R
    <2>8. x \notin R(m).schema
      BY <2>1, <2>2, <2>5, <2>7
    <2>9. m \in Nat /\ m <= l
      BY <1>0
    <2>10. QED BY <1>4, <2>8, <2>9, StepsFrom DEF R
  <1>5. QED BY <1>1, <1>3, <1>4

\* Operations that only add, all of which succeed, add what they have.
LEMMA AddsOnly ==
    ASSUME NEW ops, IsSeq(ops),
           \A op \in Elems(ops) : Proper(op) /\ op.do \in {"create_table", "add", "deduplicate"},
           NEW st, RunOps(st, ops).ok
    PROVE  LET t == RunOps(st, ops).schema
           IN  /\ st.ok
               /\ \A x \in st.schema : x \in t
               /\ \A op \in Elems(ops) : \A x \in op.objs : x \in t
               /\ \A x \in t : x \in st.schema \/ x[1] = "type"
                                 \/ \E op \in Elems(ops) : x \in op.objs
               /\ Owned(st.schema) => Owned(t)
  <1> DEFINE r == RunOps(st, ops)
             O == Elems(ops)
  <1>1. Between(st.schema, r.schema, O) /\ st.ok /\ Done(r.schema, O)
    BY OpsBetween
  <1>2. \A op \in O : Proper(op) /\ op.do \in {"create_table", "add", "deduplicate"}
    OBVIOUS
  <1> HIDE DEF r, O
  <1>3. \A op \in O : \A x : ~Takes(op, x)
    BY <1>2 DEF Takes
  <1>4. \A op \in O : \A x : /\ x \in op.objs => x \in Added(op)
                             /\ x \in Added(op) => x \in op.objs \/ x[1] = "type"
    BY <1>2 DEF Added, Proper
  <1>5. QED BY <1>1, <1>3, <1>4 DEF Between, Done, r, O

\* Operations that only drop leave what none of them drops.
LEMMA DropsOnly ==
    ASSUME NEW ops, IsSeq(ops),
           \A op \in Elems(ops) : Proper(op) /\ op.do \in {"drop_table", "drop", "drop_type"},
           NEW st, RunOps(st, ops).ok
    PROVE  LET t == RunOps(st, ops).schema
           IN  /\ st.ok
               /\ \A x : x \in t <=> x \in st.schema /\ \A op \in Elems(ops) : ~Takes(op, x)
               /\ Owned(st.schema) => Owned(t)
  <1> DEFINE r == RunOps(st, ops)
             O == Elems(ops)
  <1>1. Between(st.schema, r.schema, O) /\ st.ok /\ Done(r.schema, O)
    BY OpsBetween
  <1>2. \A op \in O : op.do \in {"drop_table", "drop", "drop_type"}
    OBVIOUS
  <1> HIDE DEF r, O
  <1>3. \A op \in O : Added(op) = {}
    BY <1>2 DEF Added
  <1>4. QED BY <1>1, <1>3 DEF Between, Done, r, O

\* The operations on each element of a sequence.
LEMMA MappedIs ==
    ASSUME NEW s, IsSeq(s)
    PROVE  LET a == [i \in DOMAIN s |-> add(s[i])]
               d == [i \in DOMAIN s |-> drop(s[i])]
               t == [i \in DOMAIN s |-> drop_table(s[i])]
               y == [i \in DOMAIN s |-> drop_type(s[i])]
           IN  /\ IsSeq(a) /\ Elems(a) = {add(x) : x \in Elems(s)} /\ Adds(s) = Must(a)
               /\ IsSeq(d) /\ Elems(d) = {drop(x) : x \in Elems(s)} /\ Drops(s) = Must(d)
               /\ IsSeq(t) /\ Elems(t) = {drop_table(x) : x \in Elems(s)}
               /\ DropTables(s) = Must(t)
               /\ IsSeq(y) /\ Elems(y) = {drop_type(x) : x \in Elems(s)}
               /\ DropTypes(s) = Must(y)
  <1> DEFINE n == Len(s)
             a == [i \in 1..n |-> add(s[i])]
             d == [i \in 1..n |-> drop(s[i])]
             t == [i \in 1..n |-> drop_table(s[i])]
             y == [i \in 1..n |-> drop_type(s[i])]
  <1>1. n \in Nat /\ DOMAIN s = 1..n
    BY DEF IsSeq
  <1> HIDE DEF n
  <1>2. Len(a) = n /\ Len(d) = n /\ Len(t) = n /\ Len(y) = n
    BY <1>1
  <1>3. IsSeq(a) /\ IsSeq(d) /\ IsSeq(t) /\ IsSeq(y)
    BY <1>1, <1>2 DEF IsSeq
  <1>4. Elems(a) = {add(x) : x \in Elems(s)} /\ Elems(d) = {drop(x) : x \in Elems(s)}
    BY <1>1, <1>2 DEF Elems, n
  <1>5. /\ Elems(t) = {drop_table(x) : x \in Elems(s)}
        /\ Elems(y) = {drop_type(x) : x \in Elems(s)}
    BY <1>1, <1>2 DEF Elems, n
  <1>6. Adds(s) = Must(a) /\ Drops(s) = Must(d) /\ DropTables(s) = Must(t) /\ DropTypes(s) = Must(y)
    BY <1>1 DEF Adds, Drops, DropTables, DropTypes
  <1>7. QED BY <1>1, <1>3, <1>4, <1>5, <1>6

-----------------------------------------------------------------------------
(* The revisions                                                           *)

\* The tables that each revision creates and its downgrade drops.
Names ==
  <<{"transport_segments", "transport_exceptions", "tracking_events",
     "route_plans", "return_orders", "pod_records", "transport_orders",
     "shipments", "inventory_logs", "sync_logs", "stock_movements",
     "split_child_orders", "packing_records", "order_status_logs",
     "order_items", "inventory", "device_sessions", "user_roles",
     "terminal_devices", "role_permissions", "picking_waves", "orders",
     "merge_groups", "locations", "warehouses", "users", "transfer_hubs",
     "skus", "roles", "reference_entities", "permissions",
     "label_templates", "hub_connections", "freight_tiers", "customers",
     "carrier_routes", "carrier_configs", "barcode_records"},
    {"credit_memo_lines", "credit_memos", "invoice_lines", "invoices",
     "purchase_order_lines", "purchase_orders", "addresses", "vendors",
     "address_master"},
    {"pda_pending_mutations"},
    {"notification_preferences", "notifications"},
    {"webhook_delivery_logs", "webhook_targets"},
    {},
    {"stock_inventory_logs", "stock_out_lines", "stock_out", "stock_in_lines",
     "stock_in"},
    {"transfer_order_lines", "transfer_logs", "transfer_orders", "waybills",
     "outbox_events"},
    {}>>

\* No table is created by two revisions.
LEMMA NamesApart ==
    \A j, k \in 1..9 : \A t : t \in Names[j] /\ t \in Names[k] => j = k
  <1>1. \A t \in Names[1] : \A k \in 2..9 : t \notin Names[k]
    BY DEF Names
  <1>2. \A t \in Names[2] : \A k \in 3..9 : t \notin Names[k]
    BY DEF Names
  <1>3. \A t : \A j, k \in 3..9 : t \in Names[j] /\ t \in Names[k] => j = k
    BY DEF Names
  <1>4. QED BY <1>1, <1>2, <1>3

\* Objects that revisions add to a table one by one.
Extra(x) == x[1] \in {"index", "column"} \/ (x[1] = "unique" /\ x[3] = "id")

\* Keys that no create_table has.
CarrierKey == Uq("carrier_configs", "carrier_code")

\* A table of revision n.
Creates(op, n) ==
    /\ op.do = "create_table" /\ op.on \in Names[n]
    /\ \A x \in op.objs :
          /\ ~Extra(x) /\ x # CarrierKey /\ x # HubKey
          /\ x[1] = "fk" /\ x[3] \in Names[8] =>
                x[3] = "transfer_orders" /\ x[2] \in {"transfer_logs", "transfer_order_lines"}

Fine(op, n) ==
    /\ Proper(op)
    /\ \/ Creates(op, n)
       \/ /\ op.do = "add" /\ op.on \in Names[n] \ {"orders", "stock_movements"}
          /\ \A x \in op.objs : Extra(x)

\* Where it is one.
LEMMA FineCreate ==
    ASSUME NEW n, NEW t \in Names[n], NEW u, NEW r, NEW y, "id" \notin u,
           t = "carrier_configs" => "carrier_code" \notin u,
           t = "hub_connections" => "from_hub_code+to_hub_code" \notin u,
           \A z \in r : z \in Names[8] =>
              z = "transfer_orders" /\ t \in {"transfer_logs", "transfer_order_lines"}
    PROVE  Fine(create_table(t, u, r, y), n)
  <1>1. PICK op : op = create_table(t, u, r, y)
    OBVIOUS
  <1>2. /\ Proper(op) /\ op.do = "create_table" /\ op.on = t
        /\ op.objs = table(t, u, r)
    BY <1>1, CreateIs
  <1>3. ASSUME NEW x \in table(t, u, r)
        PROVE  /\ ~Extra(x) /\ x # CarrierKey /\ x # HubKey
               /\ x[1] = "fk" /\ x[3] \in Names[8] =>
                     x[3] = "transfer_orders" /\ x[2] \in {"transfer_logs", "transfer_order_lines"}
    <2>1. /\ CarrierKey[1] = "unique" /\ CarrierKey[2] = "carrier_configs"
          /\ CarrierKey[3] = "carrier_code"
          /\ HubKey[1] = "unique" /\ HubKey[2] = "hub_connections"
          /\ HubKey[3] = "from_hub_code+to_hub_code"
      BY ObjectIs DEF CarrierKey, HubKey
    <2>2. \/ x[1] = "table"
          \/ x[1] = "unique" /\ x[2] = t /\ x[3] \in u
          \/ x[1] = "fk" /\ x[2] = t /\ x[3] \in r
      BY ObjectIs DEF table
    <2>3. QED BY <2>1, <2>2 DEF Extra
  <1>4. QED BY <1>1, <1>2, <1>3 DEF Fine, Creates

\* And an object added.
LEMMA FineAdd ==
    ASSUME NEW n, NEW t \in Names[n], t \notin {"orders", "stock_movements"}
    PROVE  /\ \A c : Fine(add(Col(t, c)), n) /\ Fine(add(Ix(t, c)), n)
           /\ Fine(add(Uq(t, "id")), n)
  <1>1. ASSUME NEW x, x[1] \in Parts, Extra(x), x[2] = t PROVE Fine(add(x), n)
    BY <1>1, OperationIs DEF Fine
  <1>2. QED BY <1>1, ObjectIs DEF Extra, Parts

\* A sequence of them.
FineSeq(ops, n) == IsSeq(ops) /\ \A op \in Elems(ops) : Fine(op, n)

\* And two.
LEMMA FineConcat ==
    ASSUME NEW n, NEW s, NEW t, FineSeq(s, n), FineSeq(t, n) PROVE FineSeq(s \o t, n)
  <1>1. IsSeq(s) /\ IsSeq(t) /\ \A op \in Elems(s) \union Elems(t) : Fine(op, n)
    BY DEF FineSeq
  <1>2. PICK u : u = s \o t /\ IsSeq(u) /\ Elems(u) = Elems(s) \union Elems(t)
    BY <1>1, ConcatIs
  <1>3. FineSeq(u, n)
    BY <1>1, <1>2 DEF FineSeq
  <1>4. QED BY <1>2, <1>3

\* The operations that build the schema, revision by revision.
LEMMA FirstTables ==
    \A ops \in {full_schema_reference, full_schema_warehouse, full_schema_stock,
                full_schema_shipping, full_schema_transport} :
        FineSeq(ops, 1)
  <1>1. \A t \in Names[1] : t \notin Names[8]
    BY NamesApart
  <1>2. IsSeq(full_schema_reference)
    BY DEF full_schema_reference, IsSeq
  <1>3. \A op \in Elems(full_schema_reference) : Fine(op, 1)
    BY <1>1, FineCreate, FineAdd DEF full_schema_reference, Elems, Names
  <1>4. IsSeq(full_schema_warehouse)
    BY DEF full_schema_warehouse, IsSeq
  <1>5. \A op \in Elems(full_schema_warehouse) : Fine(op, 1)
    BY <1>1, FineCreate, FineAdd DEF full_schema_warehouse, Elems, Names
  <1>6. IsSeq(full_schema_stock)
    BY DEF full_schema_stock, IsSeq
  <1>7. \A op \in Elems(full_schema_stock) : Fine(op, 1)
    BY <1>1, FineCreate, FineAdd DEF full_schema_stock, Elems, Names
  <1>8. IsSeq(full_schema_shipping)
    BY DEF full_schema_shipping, IsSeq
  <1>9. \A op \in Elems(full_schema_shipping) : Fine(op, 1)
    BY <1>1, FineCreate, FineAdd DEF full_schema_shipping, Elems, Names
  <1>10. IsSeq(full_schema_transport)
    BY DEF full_schema_transport, IsSeq
  <1>11. \A op \in Elems(full_schema_transport) : Fine(op, 1)
    BY <1>1, FineCreate, FineAdd DEF full_schema_transport, Elems, Names
  <1>12. QED BY <1>2, <1>3, <1>4, <1>5, <1>6, <1>7, <1>8, <1>9, <1>10, <1>11 DEF FineSeq

\* The same of the later revisions that create tables.
LEMMA LaterTables ==
    /\ FineSeq(missing_purchase_tables, 2) /\ FineSeq(missing_billing_tables, 2)
    /\ FineSeq(missing_purchase_tables \o missing_billing_tables, 2)
    /\ FineSeq(pda_table, 3)
    /\ FineSeq(notification_tables, 4)
    /\ FineSeq(webhook_tables, 5)
    /\ FineSeq(stock_tables, 7)
    /\ FineSeq(transfer_tables, 8)
  <1>1. \A n \in 1..7 : \A t \in Names[n] : t \notin Names[8]
    BY NamesApart
  <1> DEFINE purchase == <<create_table("vendors", {"code"}, {}, {}),
                           create_table("addresses", {}, {}, {}),
                           create_table("purchase_orders", {"po_number"}, {"vendors"}, {}),
                           create_table("purchase_order_lines", {},
                                        {"purchase_orders", "skus"}, {})>>
             billing == <<create_table("invoices", {"invoice_number"}, {}, {}),
                          create_table("invoice_lines", {}, {"invoices"}, {}),
                          create_table("credit_memos", {"credit_memo_number"}, {"invoices"}, {}),
                          create_table("credit_memo_lines", {}, {"credit_memos"}, {}),
                          create_table("address_master", {}, {}, {})>>
  <1>2. IsSeq(purchase) /\ IsSeq(billing)
    BY DEF IsSeq
  <1>3. \A op \in Elems(purchase) : Fine(op, 2)
    BY <1>1, FineCreate DEF Elems, Names
  <1>4. \A op \in Elems(billing) : Fine(op, 2)
    BY <1>1, FineCreate DEF Elems, Names
  <1>5. ASSUME NEW t \in {"purchase_order_lines", "invoice_lines", "credit_memo_lines"}
        PROVE  IsSeq(AddTimestamps(t)) /\ \A op \in Elems(AddTimestamps(t)) : Fine(op, 2)
    <2>1. t \in Names[2]
      BY <1>5 DEF Names
    <2>2. QED BY <1>5, <2>1, FineAdd DEF IsSeq, Elems, AddTimestamps
  <1>6. /\ missing_purchase_tables = purchase \o AddTimestamps("purchase_order_lines")
        /\ missing_billing_tables = billing \o AddTimestamps("invoice_lines")
                                      \o AddTimestamps("credit_memo_lines")
    BY DEF missing_purchase_tables, missing_billing_tables
  <1> HIDE DEF purchase, billing
  <1>7. PICK p, i, c : /\ p = AddTimestamps("purchase_order_lines")
                       /\ i = AddTimestamps("invoice_lines")
                       /\ c = AddTimestamps("credit_memo_lines")
    OBVIOUS
  <1>8. FineSeq(purchase, 2) /\ FineSeq(billing, 2) /\ FineSeq(p, 2) /\ FineSeq(i, 2) /\ FineSeq(c, 2)
    BY <1>2, <1>3, <1>4, <1>5, <1>7 DEF FineSeq
  <1>9. FineSeq(missing_purchase_tables, 2) /\ FineSeq(missing_billing_tables, 2)
    BY <1>6, <1>7, <1>8, FineConcat
  <1>10. IsSeq(pda_table)
    BY DEF pda_table, IsSeq
  <1>11. \A op \in Elems(pda_table) : Fine(op, 3)
    BY <1>1, FineCreate DEF pda_table, Elems, Names
  <1>12. IsSeq(notification_tables)
    BY DEF notification_tables, IsSeq
  <1>13. \A op \in Elems(notification_tables) : Fine(op, 4)
    BY <1>1, FineCreate DEF notification_tables, Elems, Names
  <1>14. IsSeq(webhook_tables)
    BY DEF webhook_tables, IsSeq
  <1>15. \A op \in Elems(webhook_tables) : Fine(op, 5)
    BY <1>1, FineCreate DEF webhook_tables, Elems, Names
  <1>16. IsSeq(stock_tables)
    BY DEF stock_tables, IsSeq
  <1>17. \A op \in Elems(stock_tables) : Fine(op, 7)
    BY <1>1, FineCreate DEF stock_tables, Elems, Names
  <1>18. IsSeq(transfer_tables)
    BY DEF transfer_tables, IsSeq
  <1>19. \A op \in Elems(transfer_tables) : Fine(op, 8)
    BY <1>1, FineCreate DEF transfer_tables, Elems, Names
  <1>20. QED BY FineConcat, <1>9, <1>10, <1>11, <1>12, <1>13, <1>14, <1>15, <1>16, <1>17, <1>18, <1>19 DEF FineSeq

full_schema ==
    full_schema_reference \o full_schema_warehouse \o full_schema_stock
      \o full_schema_shipping \o full_schema_transport

missing_tables == missing_purchase_tables \o missing_billing_tables

\* The operations with which each revision creates its tables.
Builds == <<full_schema, missing_tables, pda_table, notification_tables,
            webhook_tables, <<>>, stock_tables, transfer_tables, <<>>>>

\* What they create, table by table.
Tables(n) == {op.objs : op \in {o \in Elems(Builds[n]) : o.do = "create_table"}}

\* The parts of the first revision are its operations.
LEMMA FullSchema ==
    /\ FineSeq(full_schema, 1)
    /\ \A p \in {full_schema_reference, full_schema_warehouse, full_schema_stock,
                 full_schema_shipping, full_schema_transport} :
          Elems(p) \subseteq Elems(full_schema)
  <1> DEFINE a == full_schema_reference
             b == full_schema_warehouse
             c == full_schema_stock
             d == full_schema_shipping
             e == full_schema_transport
  <1>1. FineSeq(a, 1) /\ FineSeq(b, 1) /\ FineSeq(c, 1) /\ FineSeq(d, 1) /\ FineSeq(e, 1)
    BY FirstTables
  <1> HIDE DEF a, b, c, d, e
  <1>2. ASSUME NEW s, NEW t, FineSeq(s, 1), FineSeq(t, 1)
        PROVE  /\ FineSeq(s \o t, 1)
               /\ Elems(s) \subseteq Elems(s \o t) /\ Elems(t) \subseteq Elems(s \o t)
    <2>1. IsSeq(s) /\ IsSeq(t) /\ FineSeq(s \o t, 1)
      BY <1>2, FineConcat DEF FineSeq
    <2>2. Elems(s \o t) = Elems(s) \union Elems(t)
      BY <2>1, ConcatIs
    <2>3. QED BY <2>1, <2>2
  <1>3. PICK ab : ab = a \o b /\ FineSeq(ab, 1) /\ Elems(a) \subseteq Elems(ab)
                  /\ Elems(b) \subseteq Elems(ab)
    BY <1>1, <1>2
  <1>4. PICK abc : abc = ab \o c /\ FineSeq(abc, 1) /\ Elems(ab) \subseteq Elems(abc)
                   /\ Elems(c) \subseteq Elems(abc)
    BY <1>1, <1>2, <1>3
  <1>5. PICK abcd : abcd = abc \o d /\ FineSeq(abcd, 1) /\ Elems(abc) \subseteq Elems(abcd)
                    /\ Elems(d) \subseteq Elems(abcd)
    BY <1>1, <1>2, <1>4
  <1>6. PICK all : all = abcd \o e /\ FineSeq(all, 1) /\ Elems(abcd) \subseteq Elems(all)
                   /\ Elems(e) \subseteq Elems(all)
    BY <1>1, <1>2, <1>5
  <1>7. full_schema = all
    BY <1>3, <1>4, <1>5, <1>6 DEF full_schema, a, b, c, d, e
  <1>8. QED BY <1>3, <1>4, <1>5, <1>6, <1>7 DEF a, b, c, d, e

\* All of them create tables that their downgrade drops, or add to those.
LEMMA BuildsFine == \A n \in 1..9 : FineSeq(Builds[n], n)
  <1>1. IsSeq(<<>>) /\ Elems(<<>>) = {}
    BY DEF IsSeq, Elems
  <1>2. FineSeq(<<>>, 6) /\ FineSeq(<<>>, 9)
    BY <1>1 DEF FineSeq
  <1>3. FineSeq(missing_tables, 2)
    BY LaterTables DEF missing_tables
  <1>4. /\ Builds[1] = full_schema /\ Builds[2] = missing_tables /\ Builds[3] = pda_table
        /\ Builds[4] = notification_tables /\ Builds[5] = webhook_tables
        /\ Builds[6] = <<>> /\ Builds[7] = stock_tables /\ Builds[8] = transfer_tables
        /\ Builds[9] = <<>>
    BY DEF Builds
  <1>5. \A n \in 1..9 : n \in {1, 2, 3, 4, 5, 6, 7, 8, 9}
    OBVIOUS
  <1>6. QED BY <1>2, <1>3, <1>4, <1>5, FullSchema, LaterTables

\* What the revisions consist of.
LEMMA RevisionsAre ==
    /\ HeadRevision = 9 /\ LastRevision = 8
    /\ \A n \in {1, 2, 3, 4, 5, 7} : Revisions[n].up = Must(Builds[n])
    /\ Revisions[6].up = Adds(performance_indexes)
    /\ Revisions[8].up = Must(Builds[8]) \o transfer_reconciled
    /\ Revisions[9].up = Must(fix_tms_schema_drift)
    /\ Revisions[1].down = Drops(<<Ix("inventory", "batch_no+expiry_date"),
                                   Ix("merge_groups", "is_deleted")>>)
                             \o DropTables(full_schema_dropped)
    /\ Revisions[2].down = DropTables(missing_tables_dropped)
    /\ Revisions[3].down = DropTables(<<"pda_pending_mutations">>)
    /\ Revisions[4].down = DropTables(<<"notification_preferences", "notifications">>)
                             \o DropTypes(<<"notificationtype", "notificationchannel">>)
    /\ Revisions[5].down = DropTables(<<"webhook_delivery_logs", "webhook_targets">>)
                             \o DropTypes(<<"webhookstatus", "deliverystatus">>)
    /\ Revisions[6].down = Drops(performance_indexes)
    /\ Revisions[7].down = DropTables(<<"stock_inventory_logs", "stock_out_lines",
                                        "stock_out", "stock_in_lines", "stock_in">>)
    /\ Revisions[8].down = transfer_undone
  <1>1. HeadRevision = 9 /\ LastRevision = 8
    <2>1. HeadRevision = 9
      BY DEF HeadRevision, Revisions
    <2>2. QED BY <2>1 DEF LastRevision
  <1>2. /\ Revisions[1].up = Must(full_schema) /\ Revisions[2].up = Must(missing_tables)
        /\ Revisions[3].up = Must(pda_table) /\ Revisions[4].up = Must(notification_tables)
        /\ Revisions[5].up = Must(webhook_tables) /\ Revisions[7].up = Must(stock_tables)
    BY DEF Revisions, full_schema, missing_tables
  <1>3. \A n \in {1, 2, 3, 4, 5, 7} : Revisions[n].up = Must(Builds[n])
    BY <1>2 DEF Builds
  <1>4. /\ Revisions[6].up = Adds(performance_indexes)
        /\ Revisions[8].up = Must(transfer_tables) \o transfer_reconciled
        /\ Revisions[9].up = Must(fix_tms_schema_drift)
        /\ Builds[8] = transfer_tables
    BY DEF Revisions, Builds
  <1>5. /\ Revisions[1].down = Drops(<<Ix("inventory", "batch_no+expiry_date"),
                                       Ix("merge_groups", "is_deleted")>>)
                                 \o DropTables(full_schema_dropped)
        /\ Revisions[2].down = DropTables(missing_tables_dropped)
        /\ Revisions[3].down = DropTables(<<"pda_pending_mutations">>)
        /\ Revisions[4].down = DropTables(<<"notification_preferences", "notifications">>)
                                 \o DropTypes(<<"notificationtype", "notificationchannel">>)
    BY DEF Revisions
  <1>6. /\ Revisions[5].down = DropTables(<<"webhook_delivery_logs", "webhook_targets">>)
                                 \o DropTypes(<<"webhookstatus", "deliverystatus">>)
        /\ Revisions[6].down = Drops(performance_indexes)
        /\ Revisions[7].down = DropTables(<<"stock_inventory_logs", "stock_out_lines",
                                            "stock_out", "stock_in_lines", "stock_in">>)
        /\ Revisions[8].down = transfer_undone
    BY DEF Revisions
  <1>7. QED BY <1>1, <1>3, <1>4, <1>5, <1>6

\* Every operation of a part that creates a table is one of the revision.
LEMMA BuiltIs ==
    ASSUME NEW k, NEW p, NEW m \in Nat, m = Len(p), Elems(p) \subseteq Elems(Builds[k])
    PROVE  \A i \in 1..m : p[i].do = "create_table" => p[i].objs \in Tables(k)
  <1>1. \A i \in 1..m : p[i] \in Elems(Builds[k])
    BY DEF Elems
  <1>2. QED BY <1>1 DEF Tables

\* What the parts of the revisions create.
LEMMA PartsBuild ==
    LET Part(p, k, m) == \A i \in 1..m : p[i].do = "create_table" => p[i].objs \in Tables(k)
    IN  /\ Part(full_schema_reference, 1, 10) /\ Part(full_schema_warehouse, 1, 11)
        /\ Part(full_schema_stock, 1, 9) /\ Part(full_schema_shipping, 1, 8)
        /\ Part(full_schema_transport, 1, 6)
        /\ Part(pda_table, 3, 1) /\ Part(notification_tables, 4, 2)
        /\ Part(webhook_tables, 5, 2) /\ Part(stock_tables, 7, 5)
        /\ Part(transfer_tables, 8, 5)
  <1>1. /\ 10 = Len(full_schema_reference) /\ 11 = Len(full_schema_warehouse)
        /\ 9 = Len(full_schema_stock) /\ 8 = Len(full_schema_shipping)
        /\ 6 = Len(full_schema_transport)
    BY DEF full_schema_reference, full_schema_warehouse, full_schema_stock,
           full_schema_shipping, full_schema_transport
  <1>2. /\ 1 = Len(pda_table) /\ 2 = Len(notification_tables) /\ 2 = Len(webhook_tables)
        /\ 5 = Len(stock_tables) /\ 5 = Len(transfer_tables)
    BY DEF pda_table, notification_tables, webhook_tables, stock_tables, transfer_tables
  <1>3. /\ Builds[1] = full_schema /\ Builds[3] = pda_table /\ Builds[4] = notification_tables
        /\ Builds[5] = webhook_tables /\ Builds[7] = stock_tables
        /\ Builds[8] = transfer_tables
    BY DEF Builds
  <1>4. QED BY <1>1, <1>2, <1>3, FullSchema, BuiltIs

\* And the second revision.
LEMMA MissingBuilt ==
    /\ {table("vendors", {"code"}, {}), table("addresses", {}, {}),
        table("purchase_orders", {"po_number"}, {"vendors"}),
        table("purchase_order_lines", {}, {"purchase_orders", "skus"})} \subseteq Tables(2)
    /\ billing_models \union core_models \subseteq Tables(2)
  <1> DEFINE purchase == <<create_table("vendors", {"code"}, {}, {}),
                           create_table("addresses", {}, {}, {}),
                           create_table("purchase_orders", {"po_number"}, {"vendors"}, {}),
                           create_table("purchase_order_lines", {},
                                        {"purchase_orders", "skus"}, {})>>
             billing == <<create_table("invoices", {"invoice_number"}, {}, {}),
                          create_table("invoice_lines", {}, {"invoices"}, {}),
                          create_table("credit_memos", {"credit_memo_number"}, {"invoices"}, {}),
                          create_table("credit_memo_lines", {}, {"credit_memos"}, {}),
                          create_table("address_master", {}, {}, {})>>
             P(t) == AddTimestamps(t)
  <1>1. IsSeq(purchase) /\ IsSeq(billing) /\ 4 = Len(purchase) /\ 5 = Len(billing)
    BY DEF IsSeq
  <1>2. \A t : IsSeq(P(t))
    BY DEF IsSeq, AddTimestamps
  <1>3. Builds[2] = (purchase \o P("purchase_order_lines"))
                       \o (billing \o P("invoice_lines") \o P("credit_memo_lines"))
    BY DEF Builds, missing_tables, missing_purchase_tables, missing_billing_tables
  <1>4. Elems(purchase) \subseteq Elems(Builds[2]) /\ Elems(billing) \subseteq Elems(Builds[2])
    <2> HIDE DEF purchase, billing, P
    <2>1. PICK a, b, c : /\ a = P("purchase_order_lines") /\ b = P("invoice_lines")
                         /\ c = P("credit_memo_lines")
                         /\ IsSeq(a) /\ IsSeq(b) /\ IsSeq(c)
      BY <1>2
    <2>2. PICK pa : pa = purchase \o a /\ IsSeq(pa) /\ Elems(purchase) \subseteq Elems(pa)
      <3>1. IsSeq(purchase \o a) /\ Elems(purchase \o a) = Elems(purchase) \union Elems(a)
        BY <1>1, <2>1, ConcatIs
      <3>2. QED BY <3>1
    <2>3. PICK bb : bb = billing \o b /\ IsSeq(bb) /\ Elems(billing) \subseteq Elems(bb)
      <3>1. IsSeq(billing \o b) /\ Elems(billing \o b) = Elems(billing) \union Elems(b)
        BY <1>1, <2>1, ConcatIs
      <3>2. QED BY <3>1
    <2>4. PICK bc : bc = bb \o c /\ IsSeq(bc) /\ Elems(bb) \subseteq Elems(bc)
      <3>1. IsSeq(bb \o c) /\ Elems(bb \o c) = Elems(bb) \union Elems(c)
        BY <2>1, <2>3, ConcatIs
      <3>2. QED BY <3>1
    <2>5. Elems(pa \o bc) = Elems(pa) \union Elems(bc)
      BY <2>2, <2>4, ConcatIs
    <2>6. Builds[2] = pa \o bc
      BY <1>3, <2>1, <2>2, <2>3, <2>4
    <2>7. QED BY <2>2, <2>3, <2>4, <2>5, <2>6
  <1>5. \A i \in 1..4 : purchase[i].do = "create_table" => purchase[i].objs \in Tables(2)
    <2> HIDE DEF purchase
    <2>1. QED BY <1>1, <1>4, BuiltIs
  <1>6. \A i \in 1..5 : billing[i].do = "create_table" => billing[i].objs \in Tables(2)
    <2> HIDE DEF billing
    <2>1. QED BY <1>1, <1>4, BuiltIs
  <1>7. {table("vendors", {"code"}, {}), table("addresses", {}, {}),
         table("purchase_orders", {"po_number"}, {"vendors"}),
         table("purchase_order_lines", {}, {"purchase_orders", "skus"})} \subseteq Tables(2)
    BY <1>5, CreateIs
  <1>8. billing_models \union core_models \subseteq Tables(2)
    BY <1>6, CreateIs DEF billing_models, core_models
  <1>9. QED BY <1>7, <1>8

\* The revisions create every table that the ORM classes declare, with its keys
\* and references, but for the keys of carrier_configs and hub_connections.
LEMMA ModelsBuilt ==
    /\ auth_models \union barcode_models \union oms_models \union shared_models
         \union master_models \union movement_models \union transport_models
         \union return_models \union device_models \subseteq Tables(1)
    /\ fulfilment_models \subseteq Tables(1) \union Tables(2)
    /\ outbox_models \union logistics_models \union transfer_models \subseteq Tables(8)
    /\ notification_models \subseteq Tables(4) /\ pda_models \subseteq Tables(3)
    /\ webhook_models \subseteq Tables(5)
    /\ stock_in_models \union stock_out_models \subseteq Tables(7)
    /\ {table("carrier_configs", {}, {}), table("transfer_hubs", {"code"}, {}),
        table("carrier_routes", {}, {}), table("hub_connections", {}, {}),
        table("transport_segments", {}, {"transport_orders"}),
        table("route_plans", {"transport_order_id"}, {"transport_orders"})} \subseteq Tables(1)
  <1>1. {"username", "email"} = {"email", "username"}
    OBVIOUS
  <1>2. auth_models \subseteq Tables(1)
    BY <1>1, PartsBuild, CreateIs DEF auth_models, full_schema_reference, full_schema_warehouse, full_schema_stock
  <1>3. barcode_models \subseteq Tables(1)
    BY PartsBuild, CreateIs DEF barcode_models, full_schema_reference
  <1>4. oms_models \subseteq Tables(1)
    BY PartsBuild, CreateIs DEF oms_models, full_schema_warehouse, full_schema_stock, full_schema_shipping
  <1>5. shared_models \subseteq Tables(1)
    BY PartsBuild, CreateIs DEF shared_models, full_schema_reference, full_schema_stock
  <1>6. master_models \subseteq Tables(1)
    BY PartsBuild, CreateIs DEF master_models, full_schema_warehouse, full_schema_stock
  <1>7. movement_models \subseteq Tables(1)
    BY PartsBuild, CreateIs DEF movement_models, full_schema_reference, full_schema_warehouse, full_schema_shipping
  <1>8. transport_models \subseteq Tables(1)
    BY PartsBuild, CreateIs DEF transport_models, full_schema_shipping, full_schema_transport
  <1>9. return_models \subseteq Tables(1)
    BY PartsBuild, CreateIs DEF return_models, full_schema_reference, full_schema_transport
  <1>10. device_models \subseteq Tables(1)
    BY PartsBuild, CreateIs DEF device_models, full_schema_stock, full_schema_shipping
  <1>11. {table("packing_records", {}, {"picking_waves"}),
         table("shipments", {}, {"orders", "packing_records", "warehouses"})} \subseteq Tables(1)
    BY PartsBuild, CreateIs DEF full_schema_stock, full_schema_shipping
  <1>12. fulfilment_models \subseteq Tables(1) \union Tables(2)
    BY <1>11, MissingBuilt DEF fulfilment_models
  <1>13. outbox_models \subseteq Tables(8)
    BY PartsBuild, CreateIs DEF outbox_models, transfer_tables
  <1>14. logistics_models \subseteq Tables(8)
    BY PartsBuild, CreateIs DEF logistics_models, transfer_tables
  <1>15. transfer_models \subseteq Tables(8)
    BY PartsBuild, CreateIs DEF transfer_models, transfer_tables
  <1>16. notification_models \subseteq Tables(4)
    BY PartsBuild, CreateIs DEF notification_models, notification_tables
  <1>17. pda_models \subseteq Tables(3)
    BY PartsBuild, CreateIs DEF pda_models, pda_table
  <1>18. webhook_models \subseteq Tables(5)
    BY PartsBuild, CreateIs DEF webhook_models, webhook_tables
  <1>19. stock_in_models \subseteq Tables(7)
    BY PartsBuild, CreateIs DEF stock_in_models, stock_tables
  <1>20. stock_out_models \subseteq Tables(7)
    BY PartsBuild, CreateIs DEF stock_out_models, stock_tables
  <1>21. {table("carrier_configs", {}, {}), table("transfer_hubs", {"code"}, {}),
         table("carrier_routes", {}, {}), table("hub_connections", {}, {})} \subseteq Tables(1)
    BY PartsBuild, CreateIs DEF full_schema_reference, full_schema_warehouse
  <1>22. {table("transport_segments", {}, {"transport_orders"}),
         table("route_plans", {"transport_order_id"}, {"transport_orders"})} \subseteq Tables(1)
    BY PartsBuild, CreateIs DEF full_schema_transport
  <1>23. QED BY <1>2, <1>3, <1>4, <1>5, <1>6, <1>7, <1>8, <1>9, <1>10, <1>11, <1>12, <1>13, <1>14, <1>15, <1>16, <1>17, <1>18, <1>19, <1>20, <1>21, <1>22

-----------------------------------------------------------------------------
(* What holds of the schema at each revision                               *)

\* The objects that revision n creates with its tables.
Made(n) == UNION Tables(n)

CarrierRef == Fk("transport_orders", "carrier_configs")
UserRole == Uq("user_roles", "user_id+role_id")
RolePermission == Uq("role_permissions", "role_id+permission_id")

\* What revision 8, or its downgrade, takes away from earlier tables.
Reconciled == {CarrierRef, UserRole, RolePermission}

Performance == {Ix("orders", "created_at"), Ix("stock_movements", "sku_id"),
                Ix("stock_movements", "created_at")}

\* The tables of the revisions 1 to n are there, with their keys and references
\* but for those that revision 8 reconciles, and no other tables.
TablesInv(s, n) ==
    /\ \A x \in s : x[1] \in Parts \union {"table", "type"}
    /\ Owned(s)
    /\ \A t : Tab(t) \in s => \E k \in 1..n : t \in Names[k]
    /\ \A k \in 1..n : \A x \in Made(k) : x \notin Reconciled => x \in s
    /\ CarrierKey \notin s
    /\ \A x \in s : x[1] = "fk" /\ x[3] \in Names[8] =>
          x[3] = "transfer_orders" /\ x[2] \in {"transfer_logs", "transfer_order_lines"}

\* The objects that revisions 6, 8 and 9 are about: the last of these never runs.
KeysInv(s, n) ==
    /\ n < 6 => \A x \in Performance : x \notin s
    /\ n >= 8 => UserRole \in s /\ RolePermission \in s /\ CarrierRef \notin s
    /\ HubKey \notin s

SchemaInv(s, n) == TablesInv(s, n) /\ KeysInv(s, n)

\* The particular objects.
LEMMA SpecialIs ==
    /\ CarrierKey[1] = "unique" /\ CarrierKey[2] = "carrier_configs"
    /\ CarrierKey[3] = "carrier_code"
    /\ HubKey[1] = "unique" /\ HubKey[2] = "hub_connections"
    /\ HubKey[3] = "from_hub_code+to_hub_code"
    /\ CarrierRef[1] = "fk" /\ CarrierRef[2] = "transport_orders"
    /\ CarrierRef[3] = "carrier_configs"
    /\ UserRole[1] = "unique" /\ UserRole[2] = "user_roles"
    /\ UserRole[3] = "user_id+role_id"
    /\ RolePermission[1] = "unique" /\ RolePermission[2] = "role_permissions"
    /\ RolePermission[3] = "role_id+permission_id"
    /\ \A x \in Performance : x[1] = "index" /\ x[2] \in {"orders", "stock_movements"}
    /\ ~Extra(CarrierKey) /\ ~Extra(HubKey) /\ ~Extra(CarrierRef) /\ ~Extra(UserRole)
    /\ ~Extra(RolePermission) /\ \A t : ~Extra(Tab(t))
  <1>1. /\ CarrierKey[1] = "unique" /\ CarrierKey[2] = "carrier_configs"
        /\ CarrierKey[3] = "carrier_code"
        /\ HubKey[1] = "unique" /\ HubKey[2] = "hub_connections"
        /\ HubKey[3] = "from_hub_code+to_hub_code"
    BY ObjectIs DEF CarrierKey, HubKey
  <1>2. /\ CarrierRef[1] = "fk" /\ CarrierRef[2] = "transport_orders"
        /\ CarrierRef[3] = "carrier_configs"
        /\ UserRole[1] = "unique" /\ UserRole[2] = "user_roles"
        /\ UserRole[3] = "user_id+role_id"
        /\ RolePermission[1] = "unique" /\ RolePermission[2] = "role_permissions"
        /\ RolePermission[3] = "role_id+permission_id"
    BY ObjectIs DEF CarrierRef, UserRole, RolePermission
  <1>3. \A x \in Performance : x[1] = "index" /\ x[2] \in {"orders", "stock_movements"}
    BY ObjectIs DEF Performance
  <1>4. QED BY <1>1, <1>2, <1>3, ObjectIs DEF Extra

\* What is created with a table.
LEMMA MadeIs ==
    ASSUME NEW k \in 1..9, NEW x \in Made(k)
    PROVE  /\ \E op \in Elems(Builds[k]) : op.do = "create_table" /\ x \in op.objs
           /\ x[2] \in Names[k] /\ ~Extra(x) /\ x # CarrierKey /\ x # HubKey
           /\ x = Tab(x[2]) \/ x[1] \in {"unique", "fk"}
  <1>1. PICK op \in Elems(Builds[k]) : op.do = "create_table" /\ x \in op.objs
    BY DEF Made, Tables
  <1>2. Proper(op) /\ Creates(op, k)
    BY <1>1, BuildsFine DEF FineSeq, Fine
  <1>3. x[2] = op.on /\ (x = Tab(op.on) \/ x[1] \in Parts)
    BY <1>1, <1>2 DEF Proper
  <1>4. QED BY <1>1, <1>2, <1>3 DEF Creates, Extra, Parts

\* The revisions create what the classes declare, but for two keys.
LEMMA DeclaredIs ==
    /\ \A x \in Declared : x = HubKey \/ x = CarrierKey \/ \E k \in 1..8 : x \in Made(k)
    /\ CarrierKey \in Declared /\ CarrierRef \in Declared /\ HubKey \in Declared
  <1> DEFINE All == {D : D \in Tables(1) \union Tables(2) \union Tables(3) \union Tables(4)
                             \union Tables(5) \union Tables(7) \union Tables(8)}
             carriers == table("carrier_configs", {"carrier_code"}, {})
             hubs == table("hub_connections", {"from_hub_code+to_hub_code"}, {})
  <1>1. /\ auth_models \subseteq All /\ barcode_models \subseteq All /\ core_models \subseteq All
        /\ outbox_models \subseteq All /\ logistics_models \subseteq All
        /\ notification_models \subseteq All /\ pda_models \subseteq All
        /\ webhook_models \subseteq All /\ oms_models \subseteq All
        /\ shared_models \subseteq All /\ master_models \subseteq All
        /\ movement_models \subseteq All /\ fulfilment_models \subseteq All
        /\ billing_models \subseteq All /\ transfer_models \subseteq All
        /\ stock_in_models \subseteq All /\ stock_out_models \subseteq All
        /\ transport_models \subseteq All /\ return_models \subseteq All
        /\ device_models \subseteq All
    BY ModelsBuilt, MissingBuilt
  <1>2. routing_models \subseteq All \union {carriers} /\ planning_models \subseteq All \union {hubs}
    BY ModelsBuilt DEF routing_models, planning_models
  <1>3. \A D \in All : \A x \in D : \E k \in 1..8 : x \in Made(k)
    <2>1. \A k : \A D \in Tables(k) : \A x \in D : x \in Made(k)
      BY DEF Made
    <2>2. QED BY <2>1
  <1>4. \A x \in carriers : x = CarrierKey \/ x \in table("carrier_configs", {}, {})
    BY DEF table, CarrierKey
  <1>5. \A x \in hubs : x = HubKey \/ x \in table("hub_connections", {}, {})
    BY DEF table, HubKey
  <1>6. table("carrier_configs", {}, {}) \in All /\ table("hub_connections", {}, {}) \in All
    BY ModelsBuilt
  <1>7. CarrierKey \in carriers /\ carriers \in routing_models
    BY DEF table, CarrierKey, routing_models
  <1>8. PICK T, H : /\ T \in transport_models /\ CarrierRef \in T
                    /\ H \in planning_models /\ HubKey \in H
    <2>1. PICK T \in transport_models : CarrierRef \in T
      BY DEF table, CarrierRef, transport_models
    <2>2. hubs \in planning_models /\ HubKey \in hubs
      BY DEF table, HubKey, planning_models
    <2>3. QED BY <2>1, <2>2
  <1> HIDE DEF All, carriers, hubs
  <1>9. \A x \in Declared : x = HubKey \/ x = CarrierKey \/ \E k \in 1..8 : x \in Made(k)
    <2> SUFFICES ASSUME NEW x \in Declared
                 PROVE  x = HubKey \/ x = CarrierKey \/ \E k \in 1..8 : x \in Made(k)
      OBVIOUS
    <2>1. PICK D \in All \union {carriers, hubs} : x \in D
      BY <1>1, <1>2 DEF Declared
    <2>2. QED BY <1>3, <1>4, <1>5, <1>6, <2>1
  <1>10. QED BY <1>7, <1>8, <1>9 DEF Declared

\* A revision that has created its tables.
LEMMA BuildKeeps ==
    ASSUME NEW n \in 1..9, NEW st, RunOps(st, Builds[n]).ok, TablesInv(st.schema, n - 1)
    PROVE  LET t == RunOps(st, Builds[n]).schema
           IN  /\ st.ok /\ TablesInv(t, n)
               /\ \A x \in st.schema : x \in t
               /\ HubKey \in t => HubKey \in st.schema
               /\ \A x \in Performance : x \in t => x \in st.schema
  <1> DEFINE ops == Builds[n]
             s == st.schema
             t == RunOps(st, Builds[n]).schema
  <1>1. IsSeq(ops) /\ \A op \in Elems(ops) : Fine(op, n)
    BY BuildsFine DEF FineSeq
  <1>2. \A op \in Elems(ops) : Proper(op) /\ op.do \in {"create_table", "add", "deduplicate"}
    BY <1>1 DEF Fine, Creates
  <1>3. /\ st.ok /\ \A x \in s : x \in t
        /\ \A op \in Elems(ops) : \A x \in op.objs : x \in t
        /\ \A x \in t : x \in s \/ x[1] = "type" \/ \E op \in Elems(ops) : x \in op.objs
        /\ Owned(s) => Owned(t)
    BY <1>1, <1>2, AddsOnly
  <1>4. \A op \in Elems(ops) : \A x \in op.objs :
            /\ x[1] \in Parts \union {"table"} /\ x[2] \in Names[n]
            /\ x # CarrierKey /\ x # HubKey /\ x \notin Performance
            /\ x[1] = "fk" /\ x[3] \in Names[8] =>
                  x[3] = "transfer_orders" /\ x[2] \in {"transfer_logs", "transfer_order_lines"}
    <2> SUFFICES ASSUME NEW op \in Elems(ops), NEW x \in op.objs
                 PROVE  /\ x[1] \in Parts \union {"table"} /\ x[2] \in Names[n]
                        /\ x # CarrierKey /\ x # HubKey /\ x \notin Performance
                        /\ x[1] = "fk" /\ x[3] \in Names[8] =>
                              /\ x[3] = "transfer_orders"
                              /\ x[2] \in {"transfer_logs", "transfer_order_lines"}
      OBVIOUS
    <2>1. Fine(op, n) /\ Proper(op)
      BY <1>1 DEF Fine
    <2>2. x[2] = op.on /\ (x = Tab(op.on) \/ x[1] \in Parts)
      BY <2>1 DEF Proper
    <2>3. x[1] \in Parts \union {"table"}
      BY <2>2, ObjectIs
    <2>4. CASE Creates(op, n)
      <3>1. x # CarrierKey /\ x # HubKey /\ ~Extra(x) /\ op.on \in Names[n]
        BY <2>4 DEF Creates
      <3>2. x \notin Performance
        BY <3>1, SpecialIs DEF Extra
      <3>3. QED BY <2>2, <2>3, <2>4, <3>1, <3>2 DEF Creates
    <2>5. CASE /\ op.on \in Names[n] \ {"orders", "stock_movements"}
               /\ \A z \in op.objs : Extra(z)
      <3>1. x # CarrierKey /\ x # HubKey /\ x \notin Performance
        BY <2>2, <2>5, SpecialIs
      <3>2. x[1] # "fk"
        BY <2>5 DEF Extra
      <3>3. QED BY <2>2, <2>3, <2>5, <3>1, <3>2
    <2>6. QED BY <2>1, <2>4, <2>5 DEF Fine
  <1>5. \A x \in Made(n) : x \in t
    BY <1>3, MadeIs
  <1>6. /\ \A x \in s : x[1] \in Parts \union {"table", "type"}
        /\ Owned(s)
        /\ \A z : Tab(z) \in s => \E k \in 1..(n - 1) : z \in Names[k]
        /\ \A k \in 1..(n - 1) : \A x \in Made(k) : x \notin Reconciled => x \in s
        /\ CarrierKey \notin s
        /\ \A x \in s : x[1] = "fk" /\ x[3] \in Names[8] =>
              x[3] = "transfer_orders" /\ x[2] \in {"transfer_logs", "transfer_order_lines"}
    BY DEF TablesInv
  <1> HIDE DEF ops, s, t
  <1>7. \A k \in 1..n : k \in 1..(n - 1) \/ k = n
    OBVIOUS
  <1>8. \A x \in t : x[1] \in Parts \union {"table", "type"}
    BY <1>3, <1>4, <1>6
  <1>9. ASSUME NEW z, Tab(z) \in t PROVE \E k \in 1..n : z \in Names[k]
    <2>1. Tab(z)[1] # "type" /\ Tab(z)[2] = z
      BY ObjectIs
    <2>2. CASE Tab(z) \in s
      <3>1. 1..(n - 1) \subseteq 1..n
        OBVIOUS
      <3>2. QED BY <1>6, <2>2, <3>1
    <2>3. CASE \E op \in Elems(ops) : Tab(z) \in op.objs
      BY <1>4, <2>1, <2>3
    <2>4. QED BY <1>3, <1>9, <2>1, <2>2, <2>3
  <1>10. \A k \in 1..n : \A x \in Made(k) : x \notin Reconciled => x \in t
    BY <1>3, <1>5, <1>6, <1>7
  <1>11. CarrierKey \notin t
    BY <1>3, <1>4, <1>6, SpecialIs
  <1>12. \A x \in t : x[1] = "fk" /\ x[3] \in Names[8] =>
              x[3] = "transfer_orders" /\ x[2] \in {"transfer_logs", "transfer_order_lines"}
    BY <1>3, <1>4, <1>6
  <1>13. TablesInv(t, n)
    BY <1>3, <1>6, <1>8, <1>9, <1>10, <1>11, <1>12 DEF TablesInv
  <1>14. /\ HubKey \in t => HubKey \in s
         /\ \A x \in Performance : x \in t => x \in s
    BY <1>3, <1>4, SpecialIs
  <1>15. QED BY <1>3, <1>13, <1>14 DEF s, t

\* The operations of a downgrade from revision n, one of the first seven: they
\* drop the tables of the revision, and what was added to tables one by one.
Undoes(op, n) ==
    /\ Proper(op)
    /\ \/ op.do = "drop_table" /\ op.on \in Names[n]
       \/ op.do = "drop" /\ \A x \in op.objs : Extra(x)
       \/ op.do = "drop_type"
Undoing(ops, n) ==
    /\ IsSeq(ops)
    /\ \A op \in Elems(ops) : Undoes(op, n)
    /\ \A t \in Names[n] : drop_table(t) \in Elems(ops)

\* The names in the downgrades are those of the tables created.
LEMMA DroppedNames ==
    /\ IsSeq(full_schema_dropped) /\ Elems(full_schema_dropped) = Names[1]
    /\ IsSeq(missing_tables_dropped) /\ Elems(missing_tables_dropped) = Names[2]
    /\ IsSeq(performance_indexes) /\ Elems(performance_indexes) = Performance
  <1>1. IsSeq(full_schema_dropped) /\ IsSeq(missing_tables_dropped)
    BY DEF IsSeq, full_schema_dropped, missing_tables_dropped
  <1>2. IsSeq(performance_indexes) /\ Elems(performance_indexes) = Performance
    BY DEF IsSeq, performance_indexes, Performance, Elems
  <1>3. Elems(missing_tables_dropped) = Names[2]
    BY DEF missing_tables_dropped, Names, Elems
  <1>4. Elems(full_schema_dropped) = Names[1]
    BY DEF full_schema_dropped, Names, Elems
  <1>5. QED BY <1>1, <1>2, <1>3, <1>4

\* Drops of several objects, tables and types.
LEMMA DropsAre ==
    ASSUME NEW s, IsSeq(s)
    PROVE  /\ (\A x \in Elems(s) : x[1] \in Parts) =>
                \E ops : /\ IsSeq(ops) /\ Drops(s) = Must(ops)
                         /\ Elems(ops) = {drop(x) : x \in Elems(s)}
           /\ \E ops : /\ IsSeq(ops) /\ DropTables(s) = Must(ops)
                       /\ Elems(ops) = {drop_table(x) : x \in Elems(s)}
           /\ \E ops : /\ IsSeq(ops) /\ DropTypes(s) = Must(ops)
                       /\ Elems(ops) = {drop_type(x) : x \in Elems(s)}
  BY MappedIs

\* Dropping tables of a revision, and nothing else.
LEMMA UndoingTables ==
    ASSUME NEW n, NEW s, IsSeq(s), Elems(s) = Names[n]
    PROVE  \E ops : Undoing(ops, n) /\ DropTables(s) = Must(ops)
  <1>1. PICK ops : /\ IsSeq(ops) /\ DropTables(s) = Must(ops)
                   /\ Elems(ops) = {drop_table(x) : x \in Names[n]}
    BY DropsAre
  <1>2. Undoing(ops, n)
    BY <1>1, OperationIs DEF Undoing, Undoes
  <1>3. QED BY <1>1, <1>2

\* Some of it before, or types after it.
LEMMA UndoingMore ==
    ASSUME NEW n, NEW ops, Undoing(ops, n), NEW more, IsSeq(more),
           \A op \in Elems(more) : Undoes(op, n)
    PROVE  /\ Undoing(ops \o more, n) /\ Undoing(more \o ops, n)
           /\ \A st : RunSteps(st, Must(ops) \o Must(more)) = RunOps(st, ops \o more)
           /\ \A st : RunSteps(st, Must(more) \o Must(ops)) = RunOps(st, more \o ops)
  <1>1. IsSeq(ops)
    BY DEF Undoing
  <1>2. ASSUME NEW a, NEW b, IsSeq(a), IsSeq(b)
        PROVE  /\ IsSeq(a \o b) /\ Elems(a \o b) = Elems(a) \union Elems(b)
               /\ \A st : RunSteps(st, Must(a) \o Must(b)) = RunOps(st, a \o b)
    <2>1. IsSeq(a \o b) /\ Elems(a \o b) = Elems(a) \union Elems(b)
      BY <1>2, ConcatIs
    <2>2. IsSeq(Must(a)) /\ IsSeq(Must(b))
      BY <1>2, MustIs
    <2>3. ASSUME NEW st PROVE RunSteps(st, Must(a) \o Must(b)) = RunOps(st, a \o b)
      <3>1. RunSteps(st, Must(a) \o Must(b)) = RunSteps(RunSteps(st, Must(a)), Must(b))
        BY <2>2, RunsConcat
      <3>2. RunSteps(st, Must(a)) = RunOps(st, a)
        BY <1>2, MustRuns
      <3>3. RunSteps(RunOps(st, a), Must(b)) = RunOps(RunOps(st, a), b)
        BY <1>2, MustRuns
      <3>4. RunOps(st, a \o b) = RunOps(RunOps(st, a), b)
        BY <1>2, RunsConcat
      <3>5. QED BY <3>1, <3>2, <3>3, <3>4
    <2>4. QED BY <2>1, <2>3
  <1>3. PICK p, q : /\ p = ops \o more /\ q = more \o ops /\ IsSeq(p) /\ IsSeq(q)
                    /\ Elems(p) = Elems(ops) \union Elems(more)
                    /\ Elems(q) = Elems(ops) \union Elems(more)
    <2>1. /\ IsSeq(ops \o more) /\ Elems(ops \o more) = Elems(ops) \union Elems(more)
          /\ IsSeq(more \o ops) /\ Elems(more \o ops) = Elems(more) \union Elems(ops)
      BY <1>1, <1>2
    <2>2. QED BY <2>1
  <1>4. Undoing(p, n) /\ Undoing(q, n)
    BY <1>3 DEF Undoing
  <1>5. QED BY <1>1, <1>2, <1>3, <1>4

\* Each downgrade from one of the first seven runs as such operations.
LEMMA DownRuns ==
    ASSUME NEW n \in 1..7
    PROVE  \E ops : /\ Undoing(ops, n)
                    /\ \A st : RunSteps(st, Revisions[n].down) = RunOps(st, ops)
                    /\ n = 6 => \A x \in Performance : drop(x) \in Elems(ops)
  <1> DEFINE Goal(k) ==
               \E ops : /\ Undoing(ops, k)
                        /\ \A st : RunSteps(st, Revisions[k].down) = RunOps(st, ops)
                        /\ k = 6 => \A x \in Performance : drop(x) \in Elems(ops)
  <1>1. ASSUME NEW k, k # 6, NEW s, IsSeq(s), Elems(s) = Names[k],
               Revisions[k].down = DropTables(s)
        PROVE  Goal(k)
    <2>1. PICK ops : Undoing(ops, k) /\ DropTables(s) = Must(ops)
      BY <1>1, UndoingTables
    <2>2. \A st : RunSteps(st, Must(ops)) = RunOps(st, ops)
      BY <2>1, MustRuns DEF Undoing
    <2>3. QED BY <1>1, <2>1, <2>2
  <1>2. ASSUME NEW k, k # 6, NEW ops, Undoing(ops, k), NEW more, IsSeq(more),
               \A op \in Elems(more) : Undoes(op, k),
               \/ Revisions[k].down = Must(ops) \o Must(more)
               \/ Revisions[k].down = Must(more) \o Must(ops)
        PROVE  Goal(k)
    <2>1. PICK p, q : p = ops \o more /\ q = more \o ops
      OBVIOUS
    <2>2. /\ Undoing(p, k) /\ Undoing(q, k)
          /\ \A st : RunSteps(st, Must(ops) \o Must(more)) = RunOps(st, p)
          /\ \A st : RunSteps(st, Must(more) \o Must(ops)) = RunOps(st, q)
      BY <1>2, <2>1, UndoingMore
    <2>3. CASE Revisions[k].down = Must(ops) \o Must(more)
      BY <1>2, <2>2, <2>3
    <2>4. CASE Revisions[k].down = Must(more) \o Must(ops)
      BY <1>2, <2>2, <2>4
    <2>5. QED BY <1>2, <2>3, <2>4
  <1>3. ASSUME NEW s, IsSeq(s), \A x \in Elems(s) : x[1] \in Parts /\ Extra(x),
               Revisions[6].down = Drops(s), Elems(s) = Performance
        PROVE  Goal(6)
    <2>1. PICK ops : /\ IsSeq(ops) /\ Drops(s) = Must(ops)
                     /\ Elems(ops) = {drop(x) : x \in Elems(s)}
      BY <1>3, DropsAre
    <2>2. \A op \in Elems(ops) : Undoes(op, 6)
      BY <1>3, <2>1, OperationIs DEF Undoes
    <2>3. Names[6] = {}
      BY DEF Names
    <2>4. Undoing(ops, 6)
      BY <2>1, <2>2, <2>3 DEF Undoing
    <2>5. \A st : RunSteps(st, Must(ops)) = RunOps(st, ops)
      BY <2>1, MustRuns
    <2>6. QED BY <1>3, <2>1, <2>4, <2>5
  <1> HIDE DEF Goal
  <1>4. ASSUME NEW k \in {4, 5}, NEW s, IsSeq(s), Elems(s) = Names[k], NEW y, IsSeq(y),
               Revisions[k].down = DropTables(s) \o DropTypes(y)
        PROVE  Goal(k)
    <2>1. PICK more : /\ IsSeq(more) /\ DropTypes(y) = Must(more)
                      /\ Elems(more) = {drop_type(x) : x \in Elems(y)}
      BY <1>4, DropsAre
    <2>2. \A op \in Elems(more) : Undoes(op, k)
      BY <2>1, OperationIs DEF Undoes
    <2>3. PICK ops : Undoing(ops, k) /\ DropTables(s) = Must(ops)
      BY <1>4, UndoingTables
    <2>4. Revisions[k].down = Must(ops) \o Must(more) /\ k # 6
      BY <1>4, <2>1, <2>3
    <2>5. QED BY <1>2, <2>1, <2>2, <2>3, <2>4
  <1>5. Goal(1)
    <2>1. PICK xs : xs = <<Ix("inventory", "batch_no+expiry_date"),
                           Ix("merge_groups", "is_deleted")>>
      OBVIOUS
    <2>2. /\ IsSeq(xs)
          /\ Elems(xs) = {Ix("inventory", "batch_no+expiry_date"), Ix("merge_groups", "is_deleted")}
      BY <2>1 DEF IsSeq, Elems
    <2>3. \A x \in Elems(xs) : Extra(x) /\ x[1] \in Parts
      BY <2>2, ObjectIs DEF Extra, Parts
    <2>4. PICK more : /\ IsSeq(more) /\ Drops(xs) = Must(more)
                      /\ Elems(more) = {drop(x) : x \in Elems(xs)}
      BY <2>2, <2>3, DropsAre
    <2>5. \A op \in Elems(more) : Undoes(op, 1)
      BY <2>3, <2>4, OperationIs DEF Undoes
    <2>6. PICK ops : Undoing(ops, 1) /\ DropTables(full_schema_dropped) = Must(ops)
      BY DroppedNames, UndoingTables
    <2>7. Revisions[1].down = Drops(xs) \o DropTables(full_schema_dropped)
      BY <2>1, RevisionsAre
    <2>8. Revisions[1].down = Must(more) \o Must(ops) /\ 1 # 6
      BY <2>4, <2>6, <2>7
    <2>9. QED BY <1>2, <2>4, <2>5, <2>6, <2>8
  <1>6. Goal(2)
    <2>1. Revisions[2].down = DropTables(missing_tables_dropped) /\ 2 # 6
      BY RevisionsAre
    <2>2. QED BY <1>1, <2>1, DroppedNames
  <1>7. Goal(3)
    <2>1. PICK s : s = <<"pda_pending_mutations">>
      OBVIOUS
    <2>2. IsSeq(s) /\ Elems(s) = Names[3]
      BY <2>1 DEF IsSeq, Elems, Names
    <2>3. Revisions[3].down = DropTables(s) /\ 3 # 6
      BY <2>1, RevisionsAre
    <2>4. QED BY <1>1, <2>2, <2>3
  <1>8. Goal(4)
    <2>1. PICK s : s = <<"notification_preferences", "notifications">>
      OBVIOUS
    <2>2. IsSeq(s) /\ Elems(s) = Names[4]
      BY <2>1 DEF IsSeq, Elems, Names
    <2>3. PICK y : y = <<"notificationtype", "notificationchannel">>
      OBVIOUS
    <2>4. IsSeq(y)
      BY <2>3 DEF IsSeq
    <2>5. Revisions[4].down = DropTables(s) \o DropTypes(y)
      BY <2>1, <2>3, RevisionsAre
    <2>6. QED BY <1>4, <2>2, <2>4, <2>5
  <1>9. Goal(5)
    <2>1. PICK s : s = <<"webhook_delivery_logs", "webhook_targets">>
      OBVIOUS
    <2>2. IsSeq(s) /\ Elems(s) = Names[5]
      BY <2>1 DEF IsSeq, Elems, Names
    <2>3. PICK y : y = <<"webhookstatus", "deliverystatus">>
      OBVIOUS
    <2>4. IsSeq(y)
      BY <2>3 DEF IsSeq
    <2>5. Revisions[5].down = DropTables(s) \o DropTypes(y)
      BY <2>1, <2>3, RevisionsAre
    <2>6. QED BY <1>4, <2>2, <2>4, <2>5
  <1>10. Goal(7)
    <2>1. PICK s : s = <<"stock_inventory_logs", "stock_out_lines", "stock_out",
                          "stock_in_lines", "stock_in">>
      OBVIOUS
    <2>2. IsSeq(s) /\ Elems(s) = Names[7]
      BY <2>1 DEF IsSeq, Elems, Names
    <2>3. Revisions[7].down = DropTables(s) /\ 7 # 6
      BY <2>1, RevisionsAre
    <2>4. QED BY <1>1, <2>2, <2>3
  <1>11. Goal(6)
    <2>1. \A x \in Performance : x[1] \in Parts /\ Extra(x)
      BY SpecialIs DEF Parts, Extra
    <2>2. Revisions[6].down = Drops(performance_indexes)
      BY RevisionsAre
    <2>3. QED BY <1>3, <2>1, <2>2, DroppedNames
  <1>12. Goal(n)
    <2>1. n \in {1, 2, 3, 4, 5, 6, 7}
      OBVIOUS
    <2>2. QED BY <1>5, <1>6, <1>7, <1>8, <1>9, <1>10, <1>11, <2>1
  <1>13. QED BY <1>12 DEF Goal

\* A downgrade that succeeds leaves the schema of the revision before.
LEMMA DownKeeps ==
    ASSUME NEW n \in 1..7, NEW st, RunSteps(st, Revisions[n].down).ok,
           SchemaInv(st.schema, n)
    PROVE  SchemaInv(RunSteps(st, Revisions[n].down).schema, n - 1)
  <1> DEFINE s == st.schema
             t == RunSteps(st, Revisions[n].down).schema
  <1>1. PICK ops : /\ Undoing(ops, n)
                   /\ RunSteps(st, Revisions[n].down) = RunOps(st, ops)
                   /\ n = 6 => \A x \in Performance : drop(x) \in Elems(ops)
    BY DownRuns
  <1>2. \A op \in Elems(ops) : Proper(op) /\ op.do \in {"drop_table", "drop", "drop_type"}
    BY <1>1 DEF Undoing, Undoes
  <1>3. /\ \A x : x \in t <=> x \in s /\ \A op \in Elems(ops) : ~Takes(op, x)
        /\ Owned(s) => Owned(t)
    BY <1>1, <1>2, DropsOnly DEF Undoing
  <1>4. TablesInv(s, n) /\ KeysInv(s, n)
    BY DEF SchemaInv
  <1> HIDE DEF s, t
  <1>5. ASSUME NEW x \in s, x \notin t, x[1] # "type"
        PROVE  x[2] \in Names[n] \/ Extra(x)
    <2>1. PICK op \in Elems(ops) : Takes(op, x)
      BY <1>3, <1>5
    <2>2. QED BY <1>1, <1>5, <2>1 DEF Undoing, Undoes, Takes, Proper
  <1>6. \A z \in Names[n] : Tab(z) \notin t
    <2> SUFFICES ASSUME NEW z \in Names[n] PROVE Tab(z) \notin t
      OBVIOUS
    <2>1. drop_table(z) \in Elems(ops) /\ drop_table(z).do = "drop_table" /\ drop_table(z).on = z
      BY <1>1, OperationIs DEF Undoing
    <2>2. Takes(drop_table(z), Tab(z))
      BY <2>1, ObjectIs DEF Takes
    <2>3. QED BY <1>3, <2>1, <2>2
  <1>7. ASSUME NEW x, x[1] \in Parts, drop(x) \in Elems(ops) PROVE x \notin t
    <2>1. Takes(drop(x), x)
      BY <1>7, OperationIs DEF Takes
    <2>2. QED BY <1>3, <1>7, <2>1
  <1>8. n \in 1..9 /\ \A k \in 1..n : k \in 1..(n - 1) \/ k = n
    OBVIOUS
  <1>9. \A k \in 1..(n - 1) : k \in 1..n /\ k \in 1..9 /\ k # n
    BY <1>8
  <1>10. TablesInv(t, n - 1)
    <2>1. /\ \A x \in t : x[1] \in Parts \union {"table", "type"}
          /\ Owned(t) /\ CarrierKey \notin t
          /\ \A x \in t : x[1] = "fk" /\ x[3] \in Names[8] =>
              x[3] = "transfer_orders" /\ x[2] \in {"transfer_logs", "transfer_order_lines"}
      BY <1>3, <1>4 DEF TablesInv
    <2>2. \A z : Tab(z) \in t => \E k \in 1..(n - 1) : z \in Names[k]
      BY <1>3, <1>4, <1>6, <1>8 DEF TablesInv
    <2>3. ASSUME NEW k \in 1..(n - 1), NEW x \in Made(k), x \notin Reconciled PROVE x \in t
      <3>1. x \in s
        BY <1>4, <1>9, <2>3 DEF TablesInv
      <3>2. x[2] \in Names[k] /\ ~Extra(x) /\ x[1] # "type"
        <4>1. k \in 1..9
          BY <1>9
        <4>2. /\ x[2] \in Names[k] /\ ~Extra(x)
              /\ x = Tab(x[2]) \/ x[1] \in {"unique", "fk"}
          BY <4>1, MadeIs
        <4>3. QED BY <4>2, ObjectIs
      <3>3. x[2] \notin Names[n]
        BY <1>8, <1>9, <3>2, NamesApart
      <3>4. QED BY <1>5, <3>1, <3>2, <3>3
    <2>4. QED BY <2>1, <2>2, <2>3 DEF TablesInv
  <1>11. KeysInv(t, n - 1)
    <2>1. n - 1 < 6 => \A x \in Performance : x \notin t
      <3>1. CASE n = 6
        BY <1>1, <1>7, <3>1, SpecialIs DEF Parts
      <3>2. CASE n < 6
        BY <1>3, <1>4, <3>2 DEF KeysInv
      <3>3. QED BY <1>8, <3>1, <3>2
    <2>2. ~(n - 1 >= 8) /\ HubKey \notin t
      BY <1>3, <1>4 DEF KeysInv
    <2>3. QED BY <2>1, <2>2 DEF KeysInv
  <1>12. QED BY <1>10, <1>11 DEF SchemaInv, t

-----------------------------------------------------------------------------
(* Revision 8 and its downgrade                                            *)

\* Best-effort operations that add what is in A, take what is in R away, and
\* otherwise deal only with objects added one by one.
Repairs(op, A, R) ==
    /\ Proper(op)
    /\ \/ op.do \in {"add", "add_required"} /\ \A x \in op.objs : Extra(x) \/ x \in A
       \/ op.do = "drop" /\ \A x \in op.objs : Extra(x) \/ x \in R
Repairing(steps, A, R) ==
    /\ IsSeq(steps)
    /\ \A y \in Elems(steps) :
          y.best /\ IsSeq(y.ops) /\ \A op \in Elems(y.ops) : Repairs(op, A, R)

\* A step that repairs.
LEMMA RepairingTry ==
    ASSUME NEW A, NEW R, NEW ops, IsSeq(ops), \A op \in Elems(ops) : Repairs(op, A, R)
    PROVE  /\ Repairing(Try(ops), A, R)
           /\ \E y \in Elems(Try(ops)) : y.ops = ops
  <1>1. PICK y : y = [best |-> TRUE, ops |-> ops]
    OBVIOUS
  <1>2. y.best /\ y.ops = ops
    BY <1>1
  <1>3. Try(ops) = <<y>>
    BY <1>1 DEF Try
  <1>4. IsSeq(<<y>>) /\ Elems(<<y>>) = {y}
    BY DEF IsSeq, Elems
  <1>5. QED BY <1>2, <1>3, <1>4 DEF Repairing

\* One operation alone.
LEMMA RepairingOne ==
    ASSUME NEW A, NEW R, NEW x, x[1] \in Parts
    PROVE  /\ Extra(x) \/ x \in A =>
                /\ Repairing(Try(<<add(x)>>), A, R)
                /\ \E y \in Elems(Try(<<add(x)>>)) : y.ops = <<add(x)>>
           /\ Extra(x) \/ x \in R =>
                /\ Repairing(Try(<<drop(x)>>), A, R)
                /\ \E y \in Elems(Try(<<drop(x)>>)) : y.ops = <<drop(x)>>
  <1>1. \A op : IsSeq(<<op>>) /\ Elems(<<op>>) = {op}
    BY DEF IsSeq, Elems
  <1>2. Extra(x) \/ x \in A => Repairs(add(x), A, R)
    BY OperationIs DEF Repairs
  <1>3. Extra(x) \/ x \in R => Repairs(drop(x), A, R)
    BY OperationIs DEF Repairs
  <1>4. PICK a, d : a = <<add(x)>> /\ d = <<drop(x)>>
    OBVIOUS
  <1>5. /\ IsSeq(a) /\ IsSeq(d)
        /\ Extra(x) \/ x \in A => \A op \in Elems(a) : Repairs(op, A, R)
        /\ Extra(x) \/ x \in R => \A op \in Elems(d) : Repairs(op, A, R)
    BY <1>1, <1>2, <1>3, <1>4
  <1>6. QED BY <1>4, <1>5, RepairingTry

\* And a sequence of repairs.
LEMMA RepairingConcat ==
    ASSUME NEW A, NEW R, NEW s, NEW t, Repairing(s, A, R), Repairing(t, A, R)
    PROVE  /\ Repairing(s \o t, A, R)
           /\ \A y \in Elems(s) : y \in Elems(s \o t)
           /\ \A y \in Elems(t) : y \in Elems(s \o t)
  <1>1. IsSeq(s) /\ IsSeq(t)
    BY DEF Repairing
  <1>2. PICK u : u = s \o t /\ IsSeq(u) /\ Elems(u) = Elems(s) \union Elems(t)
    <2>1. IsSeq(s \o t) /\ Elems(s \o t) = Elems(s) \union Elems(t)
      BY <1>1, ConcatIs
    <2>2. QED BY <2>1
  <1>3. Repairing(u, A, R)
    BY <1>2 DEF Repairing
  <1>4. QED BY <1>2, <1>3

Given == {UserRole, RolePermission}

\* What revision 8 reconciles.
LEMMA ReconciledIs ==
    /\ Repairing(transfer_reconciled, Given, {CarrierRef})
    /\ \E y \in Elems(transfer_reconciled) : y.ops = <<drop(CarrierRef)>>
    /\ \E y \in Elems(transfer_reconciled) : y.ops = <<add(UserRole)>>
    /\ \E y \in Elems(transfer_reconciled) : y.ops = <<add(RolePermission)>>
  <1> DEFINE D(x) == Try(<<drop(x)>>)
             I(x) == Try(<<add(x)>>)
             Good(s) == Repairing(s, Given, {CarrierRef})
             Has(s, z) == \E y \in Elems(s) : y.ops = z
  <1>1. \A x : x[1] \in Parts /\ (Extra(x) \/ x = CarrierRef) => Good(D(x)) /\ Has(D(x), <<drop(x)>>)
    BY RepairingOne
  <1>2. \A x : x[1] \in Parts /\ (Extra(x) \/ x \in Given) => Good(I(x)) /\ Has(I(x), <<add(x)>>)
    BY RepairingOne
  <1>3. \A s, t : Good(s) /\ Good(t) => Good(s \o t)
    BY RepairingConcat
  <1>4. \A s, t : Good(s) /\ Good(t) =>
            \A z : Has(s, z) \/ Has(t, z) => Has(s \o t, z)
    BY RepairingConcat
  <1>5. \A t, c : /\ Col(t, c)[1] \in Parts /\ Extra(Col(t, c))
                  /\ Ix(t, c)[1] \in Parts /\ Extra(Ix(t, c))
    BY ObjectIs DEF Parts, Extra
  <1>6. \A t : Uq(t, "id")[1] \in Parts /\ Extra(Uq(t, "id"))
    BY ObjectIs DEF Parts, Extra
  <1>7. CarrierRef[1] \in Parts /\ UserRole[1] \in Parts /\ RolePermission[1] \in Parts
        /\ UserRole \in Given /\ RolePermission \in Given
    BY SpecialIs DEF Parts, Given
  <1> DEFINE S(t) == D(Col(t, "updated_at")) \o D(Col(t, "created_at"))
  <1>8. transfer_reconciled =
            D(CarrierRef) \o D(Uq("carrier_configs", "id"))
              \o S("credit_memo_lines") \o D(Uq("freight_tiers", "id"))
              \o D(Ix("inventory", "batch_no+expiry_date")) \o S("invoice_lines")
              \o D(Ix("merge_groups", "is_deleted")) \o D(Col("merge_groups", "is_deleted"))
              \o D(Col("merge_groups", "deleted_at")) \o D(Ix("orders", "created_at"))
              \o S("purchase_order_lines") \o I(Col("return_orders", "shipment_status"))
              \o I(RolePermission) \o D(Ix("stock_movements", "created_at"))
              \o D(Ix("stock_movements", "sku_id")) \o I(UserRole)
              \o I(Col("vendors", "is_active"))
    BY DEF transfer_reconciled, DropTimestamps, CarrierRef, RolePermission, UserRole
  <1> HIDE DEF D, I, Good, Has
  <1>9. \A t : Good(S(t))
    BY <1>1, <1>3, <1>5
  <1> HIDE DEF S
  <1>10. Good(transfer_reconciled)
    BY <1>1, <1>2, <1>3, <1>5, <1>6, <1>7, <1>8, <1>9
  <1>11. ASSUME NEW z
         PROVE  LET K(s) == Good(s) /\ Has(s, z)
                IN  \A s, t : /\ K(s) /\ Good(t) => K(s \o t)
                              /\ Good(s) /\ K(t) => K(s \o t)
    BY <1>3, <1>4
  <1>12. Has(transfer_reconciled, <<drop(CarrierRef)>>)
    <2> DEFINE K(s) == Good(s) /\ Has(s, <<drop(CarrierRef)>>)
    <2>1. \A s, t : K(s) /\ Good(t) => K(s \o t)
      BY <1>11
    <2>2. K(D(CarrierRef))
      BY <1>1, <1>7
    <2>3. \A s : K(s) => Has(s, <<drop(CarrierRef)>>)
      OBVIOUS
    <2> HIDE DEF K
    <2>4. K(transfer_reconciled)
      BY <1>1, <1>2, <1>5, <1>6, <1>7, <1>8, <1>9, <2>1, <2>2
    <2>5. QED BY <2>3, <2>4
  <1>13. Has(transfer_reconciled, <<add(UserRole)>>)
    <2> DEFINE K(s) == Good(s) /\ Has(s, <<add(UserRole)>>)
    <2>1. \A s, t : K(s) /\ Good(t) => K(s \o t)
      BY <1>11
    <2>2. \A s : Good(s) => K(s \o I(UserRole))
      BY <1>2, <1>7, <1>11
    <2>3. \A s : K(s) => Has(s, <<add(UserRole)>>)
      OBVIOUS
    <2> HIDE DEF K
    <2>4. K(transfer_reconciled)
      BY <1>1, <1>2, <1>3, <1>5, <1>6, <1>7, <1>8, <1>9, <2>1, <2>2
    <2>5. QED BY <2>3, <2>4
  <1>14. Has(transfer_reconciled, <<add(RolePermission)>>)
    <2> DEFINE K(s) == Good(s) /\ Has(s, <<add(RolePermission)>>)
    <2>1. \A s, t : K(s) /\ Good(t) => K(s \o t)
      BY <1>11
    <2>2. \A s : Good(s) => K(s \o I(RolePermission))
      BY <1>2, <1>7, <1>11
    <2>3. \A s : K(s) => Has(s, <<add(RolePermission)>>)
      OBVIOUS
    <2> HIDE DEF K
    <2>4. K(transfer_reconciled)
      BY <1>1, <1>2, <1>3, <1>5, <1>6, <1>7, <1>8, <1>9, <2>1, <2>2
    <2>5. QED BY <2>3, <2>4
  <1>15. QED BY <1>10, <1>12, <1>13, <1>14 DEF Good, Has

\* Repairs leave the tables as they are.
LEMMA RepairingKeeps ==
    ASSUME NEW A, NEW R, A \subseteq Given, R \subseteq Reconciled, NEW steps,
           Repairing(steps, A, R), NEW n \in 0..9, NEW st, st.ok, TablesInv(st.schema, n)
    PROVE  LET t == RunSteps(st, steps).schema
           IN  /\ RunSteps(st, steps).ok /\ TablesInv(t, n)
               /\ ProperSteps(steps) /\ \A y \in Elems(steps) : y.best
               /\ \A op \in OpsIn(steps) : \A x :
                    /\ Takes(op, x) => Extra(x) \/ x \in R
                    /\ x \in Added(op) => Extra(x) \/ x \in A
               /\ \A x \in st.schema : x \in t \/ Extra(x) \/ x \in R
               /\ \A x \in t : x \in st.schema \/ Extra(x) \/ x \in A
  <1> DEFINE r == RunSteps(st, steps)
             s == st.schema
             t == r.schema
  <1>1. ProperSteps(steps) /\ \A y \in Elems(steps) : y.best
    BY DEF Repairing, ProperSteps, Repairs
  <1>2. \A op \in OpsIn(steps) : Repairs(op, A, R)
    BY DEF Repairing, OpsIn
  <1>3. r.ok /\ Between(s, t, OpsIn(steps))
    BY <1>1, TryIs
  <1> HIDE DEF r, s, t
  <1>4. \A op \in OpsIn(steps) : \A x :
            /\ Takes(op, x) => Extra(x) \/ x \in R
            /\ x \in Added(op) => Proper(op) /\ x \in op.objs /\ (Extra(x) \/ x \in A)
    BY <1>2 DEF Repairs, Proper, Takes, Added
  <1>5. /\ \A x \in s : x \in t \/ Extra(x) \/ x \in R
        /\ \A x \in t : x \in s \/ Extra(x) \/ x \in A
        /\ Owned(s) => Owned(t)
    BY <1>3, <1>4 DEF Between
  <1>6. \A x \in A : x[1] = "unique" /\ x # CarrierKey
    BY SpecialIs DEF Given
  <1>7. TablesInv(s, n)
    BY DEF s
  <1>8. TablesInv(t, n)
    <2>1. \A x : Extra(x) => /\ x[1] \in Parts /\ x[1] # "fk" /\ x # CarrierKey
                             /\ \A z : x # Tab(z)
      BY SpecialIs DEF Extra, Parts
    <2>2. /\ \A x \in t : x[1] \in Parts \union {"table", "type"}
          /\ Owned(t)
      BY <1>5, <1>6, <1>7, <2>1 DEF TablesInv, Parts
    <2>3. \A z : Tab(z)[1] = "table"
      BY ObjectIs
    <2>4. \A z : Tab(z) \in t => Tab(z) \in s
      BY <1>5, <1>6, <2>1, <2>3
    <2>5. CarrierKey \notin t
      BY <1>5, <1>6, <1>7, <2>1 DEF TablesInv
    <2>6. \A x \in t : x[1] = "fk" => x \in s
      BY <1>5, <1>6, <2>1
    <2>7. ASSUME NEW k \in 1..n, NEW x \in Made(k), x \notin Reconciled PROVE x \in t
      <3>1. x \in s
        BY <1>7, <2>7 DEF TablesInv
      <3>2. ~Extra(x)
        <4>1. k \in 1..9
          OBVIOUS
        <4>2. QED BY <4>1, MadeIs
      <3>3. QED BY <1>5, <2>7, <3>1, <3>2
    <2>8. QED BY <1>7, <2>2, <2>4, <2>5, <2>6, <2>7 DEF TablesInv
  <1>9. QED BY <1>1, <1>3, <1>4, <1>5, <1>8 DEF r, s, t

\* An upgrade by one revision that succeeds.
LEMMA UpKeeps ==
    ASSUME NEW n \in 1..8, NEW st, RunSteps(st, Revisions[n].up).ok, SchemaInv(st.schema, n - 1)
    PROVE  SchemaInv(RunSteps(st, Revisions[n].up).schema, n)
  <1> DEFINE s == st.schema
             r == RunSteps(st, Revisions[n].up)
             t == r.schema
  <1>1. TablesInv(s, n - 1) /\ KeysInv(s, n - 1) /\ r.ok
    BY DEF SchemaInv
  <1>2. CASE n \in {1, 2, 3, 4, 5, 7}
    <2>1. IsSeq(Builds[n]) /\ Revisions[n].up = Must(Builds[n])
      BY <1>2, BuildsFine, RevisionsAre DEF FineSeq
    <2>2. r = RunOps(st, Builds[n])
      BY <2>1, MustRuns
    <2> HIDE DEF s, r
    <2>3. /\ TablesInv(t, n)
          /\ HubKey \in t => HubKey \in s
          /\ \A x \in Performance : x \in t => x \in s
      BY <1>1, <2>2, BuildKeeps DEF s
    <2>4. KeysInv(t, n)
      BY <1>1, <1>2, <2>3 DEF KeysInv
    <2>5. QED BY <2>3, <2>4 DEF SchemaInv, r
  <1>3. CASE n = 6
    <2> DEFINE X == Performance
    <2>1. PICK ops : /\ IsSeq(ops) /\ r = RunOps(st, ops)
                     /\ \A op \in Elems(ops) : /\ Proper(op) /\ op.do \in {"add", "deduplicate"}
                                               /\ op.objs \subseteq X
                     /\ \A x \in X : add(x) \in Elems(ops) /\ add(x).objs = {x}
      <3>1. PICK ops : /\ IsSeq(ops) /\ Elems(ops) = {add(x) : x \in Performance}
                       /\ Adds(performance_indexes) = Must(ops)
        BY MappedIs, DroppedNames
      <3>2. r = RunOps(st, ops)
        BY <1>3, <3>1, MustRuns, RevisionsAre
      <3>3. \A x \in Performance : Proper(add(x)) /\ add(x).do = "add" /\ add(x).objs = {x}
        BY OperationIs, SpecialIs DEF Parts
      <3> HIDE DEF r
      <3>4. QED BY <3>1, <3>2, <3>3
    <2> HIDE DEF r
    <2>2. /\ \A x \in s : x \in t
          /\ \A op \in Elems(ops) : \A x \in op.objs : x \in t
          /\ \A x \in t : x \in s \/ x[1] = "type" \/ \E op \in Elems(ops) : x \in op.objs
          /\ Owned(s) => Owned(t)
      BY <1>1, <2>1, AddsOnly
    <2> HIDE DEF s, t
    <2>3. \A x \in X : x \in t
      BY <2>1, <2>2
    <2>4. \A x \in t : x \in s \/ x[1] = "type" \/ x \in X
      BY <2>1, <2>2
    <2>5. \A x \in X : x[1] = "index" /\ x # CarrierKey
      BY SpecialIs
    <2>6. Names[n] = {} /\ Made(n) = {}
      <3>1. Names[n] = {} /\ Builds[n] = <<>>
        BY <1>3 DEF Names, Builds
      <3>2. Elems(Builds[n]) = {}
        BY <3>1 DEF Elems
      <3>3. QED BY <3>1, <3>2 DEF Made, Tables
    <2>7. \A k \in 1..n : k \in 1..(n - 1) \/ k = n
      OBVIOUS
    <2>8. 1..(n - 1) \subseteq 1..n
      OBVIOUS
    <2>9. TablesInv(t, n)
      <3>1. \A z : Tab(z) \in t => Tab(z) \in s
        BY <2>4, <2>5, ObjectIs
      <3>2. \A x \in t : x[1] \in Parts \union {"table", "type"}
        BY <1>1, <2>4, <2>5 DEF TablesInv, Parts
      <3>3. CarrierKey \notin t /\ Owned(t) /\ \A x \in t : x[1] = "fk" => x \in s
        BY <1>1, <2>2, <2>4, <2>5, SpecialIs DEF TablesInv
      <3>4. \A k \in 1..n : \A x \in Made(k) : x \notin Reconciled => x \in t
        BY <1>1, <2>2, <2>6, <2>7 DEF TablesInv
      <3>5. \A z : Tab(z) \in t => \E k \in 1..n : z \in Names[k]
        BY <1>1, <2>8, <3>1 DEF TablesInv
      <3>6. QED BY <1>1, <3>2, <3>3, <3>4, <3>5 DEF TablesInv
    <2>10. KeysInv(t, n)
      <3>1. HubKey \notin t
        BY <1>1, <2>4, <2>5, SpecialIs DEF KeysInv
      <3>2. QED BY <1>3, <3>1 DEF KeysInv
    <2>11. QED BY <2>9, <2>10 DEF SchemaInv, t, r
  <1>4. CASE n = 8
    <2> DEFINE mid == RunOps(st, Builds[8])
               m == mid.schema
    <2>1. IsSeq(Builds[8]) /\ Repairing(transfer_reconciled, Given, {CarrierRef})
      BY BuildsFine, ReconciledIs DEF FineSeq
    <2>2. r = RunSteps(mid, transfer_reconciled)
      <3>1. IsSeq(Must(Builds[8])) /\ IsSeq(transfer_reconciled)
        BY <2>1, MustIs DEF Repairing
      <3>2. r = RunSteps(RunSteps(st, Must(Builds[8])), transfer_reconciled)
        BY <1>4, <3>1, RunsConcat, RevisionsAre
      <3>3. QED BY <2>1, <3>2, MustRuns
    <2> HIDE DEF r
    <2>3. mid.ok
      <3>1. ProperSteps(transfer_reconciled) /\ Len(transfer_reconciled) \in Nat
        BY <2>1 DEF Repairing, ProperSteps, Repairs, IsSeq
      <3> HIDE DEF mid
      <3>2. PICK l \in Nat : l = Len(transfer_reconciled) /\ l <= l
        BY <3>1
      <3>3. r = Run("step", mid, transfer_reconciled, 0, l)
        BY <2>2, <3>2, RunsAre
      <3>4. QED BY <1>1, <3>1, <3>2, <3>3, StepsUpTo
    <2>4. /\ TablesInv(m, 8)
          /\ \A x \in s : x \in m
          /\ HubKey \in m => HubKey \in s
      <3>1. 8 \in 1..9 /\ n - 1 = 8 - 1
        BY <1>4
      <3>2. TablesInv(s, 8 - 1)
        BY <1>1, <3>1
      <3>3. QED BY <2>3, <3>1, <3>2, BuildKeeps
    <2> HIDE DEF mid, m, s
    <2>5. /\ r.ok /\ TablesInv(t, 8)
          /\ ProperSteps(transfer_reconciled) /\ \A y \in Elems(transfer_reconciled) : y.best
          /\ \A op \in OpsIn(transfer_reconciled) : \A x :
                    /\ Takes(op, x) => Extra(x) \/ x \in {CarrierRef}
                    /\ x \in Added(op) => Extra(x) \/ x \in Given
          /\ \A x \in t : x \in m \/ Extra(x) \/ x \in Given
      <3>1. PICK R, k : R = {CarrierRef} /\ k = 8
        OBVIOUS
      <3>2. R \subseteq Reconciled /\ Given \subseteq Given /\ k \in 0..9
        BY <3>1 DEF Reconciled
      <3>3. TablesInv(mid.schema, k)
        BY <2>4, <3>1 DEF m
      <3> DEFINE u == RunSteps(mid, transfer_reconciled)
      <3>4. /\ u.ok /\ TablesInv(u.schema, k)
            /\ ProperSteps(transfer_reconciled) /\ \A y \in Elems(transfer_reconciled) : y.best
            /\ \A op \in OpsIn(transfer_reconciled) : \A x :
                    /\ Takes(op, x) => Extra(x) \/ x \in R
                    /\ x \in Added(op) => Extra(x) \/ x \in Given
            /\ \A x \in u.schema : x \in mid.schema \/ Extra(x) \/ x \in Given
        <4>1. Repairing(transfer_reconciled, Given, R)
          BY <2>1, <3>1
        <4>2. QED BY <2>3, <3>2, <3>3, <4>1, RepairingKeeps
      <3>5. QED BY <2>2, <3>1, <3>4 DEF m
    <2>6. \A x \in Given : x \in t
      <3> SUFFICES ASSUME NEW x \in Given PROVE x \in t
        OBVIOUS
      <3>1. PICK y \in Elems(transfer_reconciled) : y.ops = <<add(x)>>
        BY ReconciledIs DEF Given
      <3>2. x[1] \in Parts /\ x # HubKey /\ ~Extra(x) /\ x # CarrierRef
            /\ x[2] \in {"user_roles", "role_permissions"}
        BY SpecialIs DEF Given, Parts
      <3>3. \A op \in OpsIn(transfer_reconciled) : ~Takes(op, x) /\ ~Takes(op, Tab(x[2]))
        BY <2>5, <3>2, SpecialIs, ObjectIs
      <3>4. Tab(x[2]) \in m
        <4>1. table("user_roles", {"user_id+role_id"}, {"roles", "users"}) \in Tables(1)
              /\ table("role_permissions", {"role_id+permission_id"}, {"permissions", "roles"})
                    \in Tables(1)
          BY ModelsBuilt DEF auth_models
        <4>2. Tab("user_roles") \in Made(1) /\ Tab("role_permissions") \in Made(1)
          BY <4>1 DEF Made, table
        <4>3. \A z : Tab(z) \notin Reconciled
          BY SpecialIs, ObjectIs DEF Reconciled
        <4>4. QED BY <2>4, <3>2, <4>2, <4>3 DEF TablesInv
      <3>5. QED BY <2>2, <2>3, <2>5, <3>1, <3>2, <3>3, <3>4, TryIs DEF m
    <2>7. CarrierRef \notin t
      <3>1. PICK y \in Elems(transfer_reconciled) : y.ops = <<drop(CarrierRef)>>
        BY ReconciledIs
      <3>2. /\ CarrierRef[1] \in Parts /\ CarrierRef # Uq(CarrierRef[2], "id")
            /\ ~Extra(CarrierRef) /\ CarrierRef \notin Given
        BY SpecialIs, ObjectIs DEF Given, Parts
      <3>3. \A op \in OpsIn(transfer_reconciled) : CarrierRef \notin Added(op)
        BY <2>5, <3>2
      <3>4. QED BY <2>2, <2>3, <2>5, <3>1, <3>2, <3>3, TryIs
    <2>8. HubKey \notin t
      BY <1>1, <1>4, <2>4, <2>5, SpecialIs DEF KeysInv, Given
    <2>9. KeysInv(t, 8)
      BY <2>6, <2>7, <2>8 DEF KeysInv, Given
    <2>10. QED BY <1>4, <2>5, <2>9 DEF SchemaInv, r
  <1>5. QED BY <1>2, <1>3, <1>4

\* The downgrade of revision 8 repairs, and then drops its tables.
transfer_dropped ==
    <<drop_table("transfer_order_lines"), drop_table("transfer_logs"),
      drop_table("transfer_orders"), drop_table("waybills"), drop_table("outbox_events")>>

\* Its steps are the repairs and that one.
LEMMA UndoneIs ==
    \E steps : /\ Repairing(steps, {}, Given)
               /\ transfer_undone = steps \o Try(transfer_dropped)
  <1> DEFINE Good(s) == Repairing(s, {}, Given)
             Ops(s) == IsSeq(s) /\ \A op \in Elems(s) : Repairs(op, {}, Given)
  <1>1. \A s, t : Good(s) /\ Good(t) => Good(s \o t)
    BY RepairingConcat
  <1>2. \A s : Ops(s) => Good(Try(s))
    BY RepairingTry
  <1>3. /\ \A x : IsSeq(<<x>>) /\ Elems(<<x>>) = {x}
        /\ \A x, y : IsSeq(<<x, y>>) /\ Elems(<<x, y>>) = {x, y}
        /\ \A x, y, z : IsSeq(<<x, y, z>>) /\ Elems(<<x, y, z>>) = {x, y, z}
    BY DEF IsSeq, Elems
  <1>4. \A x : x[1] \in Parts =>
            /\ Extra(x) => /\ Repairs(add(x), {}, Given) /\ Repairs(add_required(x), {}, Given)
                           /\ Repairs(drop(x), {}, Given)
            /\ x \in Given => Repairs(drop(x), {}, Given)
    BY OperationIs DEF Repairs
  <1>5. \A t, c : /\ Col(t, c)[1] \in Parts /\ Extra(Col(t, c))
                  /\ Ix(t, c)[1] \in Parts /\ Extra(Ix(t, c))
    BY ObjectIs DEF Parts, Extra
  <1>6. \A t : Uq(t, "id")[1] \in Parts /\ Extra(Uq(t, "id"))
    BY ObjectIs DEF Parts, Extra
  <1>7. /\ UserRole[1] \in Parts /\ RolePermission[1] \in Parts
        /\ UserRole \in Given /\ RolePermission \in Given
    BY SpecialIs DEF Parts, Given
  <1> HIDE DEF Good
  <1>8. PICK a, b, c, d : /\ a = <<drop(Col("vendors", "is_active"))>>
                          /\ b = <<drop(UserRole)>>
                          /\ c = <<add(Ix("stock_movements", "sku_id")),
                                   add(Ix("stock_movements", "created_at"))>>
                          /\ d = <<drop(RolePermission), drop(Col("return_orders", "shipment_status"))>>
    OBVIOUS
  <1>9. PICK e, f, g : /\ e = <<add(Ix("orders", "created_at"))>>
                       /\ f = <<add(Col("merge_groups", "deleted_at")),
                                add_required(Col("merge_groups", "is_deleted")),
                                add(Ix("merge_groups", "is_deleted"))>>
                       /\ g = <<add(Ix("inventory", "batch_no+expiry_date"))>>
    OBVIOUS
  <1>10. PICK h, i : /\ h = <<add(Uq("freight_tiers", "id"))>>
                     /\ i = <<add(Uq("carrier_configs", "id"))>>
    OBVIOUS
  <1>11. PICK j, k, l : /\ j = AddTimestamps("purchase_order_lines")
                        /\ k = AddTimestamps("invoice_lines")
                        /\ l = AddTimestamps("credit_memo_lines")
    OBVIOUS
  <1>12. Ops(a) /\ Ops(b) /\ Ops(c) /\ Ops(d)
    BY <1>3, <1>4, <1>5, <1>7, <1>8
  <1>13. Ops(e) /\ Ops(f) /\ Ops(g)
    BY <1>3, <1>4, <1>5, <1>9
  <1>14. Ops(h) /\ Ops(i)
    BY <1>3, <1>4, <1>6, <1>10
  <1>15. Ops(j) /\ Ops(k) /\ Ops(l)
    BY <1>3, <1>4, <1>5, <1>11 DEF AddTimestamps
  <1> HIDE DEF Ops
  <1>16. PICK steps : steps = Try(a) \o Try(b) \o Try(c) \o Try(d) \o Try(j) \o Try(e)
                                \o Try(f) \o Try(k) \o Try(g) \o Try(h) \o Try(l) \o Try(i)
    OBVIOUS
  <1>17. Good(steps)
    BY <1>1, <1>2, <1>12, <1>13, <1>14, <1>15, <1>16
  <1>18. transfer_undone = steps \o Try(transfer_dropped)
    BY <1>8, <1>9, <1>10, <1>11, <1>16
       DEF transfer_undone, transfer_dropped, UserRole, RolePermission
  <1>19. QED BY <1>17, <1>18 DEF Good

\* What is left of the schema m without the tables Z.
Left(st, m, Z) ==
    st.ok /\ \A x : x \in st.schema <=> x \in m /\ (x[1] = "type" \/ x[2] \notin Z)

\* A table that no other one references can be dropped.
LEMMA DropTableOk ==
    ASSUME NEW st, NEW m, NEW Z, Left(st, m, Z), NEW z, z \notin Z, Tab(z) \in m,
           \A x \in m : x[1] = "fk" /\ x[3] = z => x[2] \in Z \union {z}
    PROVE  Left(Then("operation", st, drop_table(z)), m, Z \union {z})
  <1> DEFINE op == drop_table(z)
  <1>1. op.do = "drop_table" /\ op.on = z /\ Proper(op)
    BY OperationIs
  <1> HIDE DEF op
  <1>2. Tab(z) \in st.schema
    BY ObjectIs DEF Left
  <1>3. Refers(st.schema, z) = {}
    BY DEF Refers, Left
  <1>4. Ok(st, op)
    BY <1>1, <1>2, <1>3 DEF Ok
  <1>5. Then("operation", st, op) = Effect(st, op)
    BY <1>4 DEF Then, Left
  <1>6. Added(op) = {}
    BY <1>1 DEF Added
  <1>7. \A x : Takes(op, x) <=> x[1] # "type" /\ x[2] = z
    BY <1>1 DEF Takes
  <1> DEFINE e == Effect(st, op)
  <1>8. e.ok /\ \A x : x \in e.schema <=> (x \in st.schema /\ ~Takes(op, x)) \/ x \in Added(op)
    BY EffectIs
  <1> HIDE DEF e
  <1>9. Left(e, m, Z \union {z})
    BY <1>6, <1>7, <1>8 DEF Left
  <1>10. QED BY <1>5, <1>9 DEF e, op

\* The tables of revision 8 can be dropped in this order.
LEMMA TransferDropped ==
    ASSUME NEW st, st.ok, TablesInv(st.schema, 8)
    PROVE  Left(RunOps(st, transfer_dropped), st.schema, Names[8])
  <1> DEFINE R(n) == Run("operation", st, transfer_dropped, 0, n)
             m == st.schema
  <1>1. R(0) = st
    BY RunBase
  <1>2. \A n \in 0..4 : R(n + 1) = Then("operation", R(n), transfer_dropped[n + 1])
    BY RunNext
  <1>3. Len(transfer_dropped) = 5
    BY DEF transfer_dropped
  <1>4. RunOps(st, transfer_dropped) = R(5)
    BY <1>3, RunsAre
  <1>5. \A z \in Names[8] : Tab(z) \in m
    <2>1. \A D \in outbox_models \union logistics_models \union transfer_models : D \in Tables(8)
      BY ModelsBuilt
    <2>2. \A z \in Names[8] : \E D \in outbox_models \union logistics_models \union transfer_models :
              Tab(z) \in D
      <3>1. \A t, u, r : Tab(t) \in table(t, u, r)
        BY DEF table
      <3>2. /\ \E D \in transfer_models : Tab("transfer_order_lines") \in D
            /\ \E D \in transfer_models : Tab("transfer_logs") \in D
            /\ \E D \in transfer_models : Tab("transfer_orders") \in D
            /\ \E D \in logistics_models : Tab("waybills") \in D
            /\ \E D \in outbox_models : Tab("outbox_events") \in D
        BY <3>1 DEF transfer_models, logistics_models, outbox_models
      <3>3. QED BY <3>2 DEF Names
    <2>3. \A z \in Names[8] : Tab(z) \in Made(8) /\ Tab(z) \notin Reconciled
      BY <2>1, <2>2, SpecialIs, ObjectIs DEF Made, Reconciled
    <2>4. QED BY <2>3 DEF TablesInv
  <1>6. \A x \in m : x[1] = "fk" /\ x[3] \in Names[8] =>
            x[3] = "transfer_orders" /\ x[2] \in {"transfer_logs", "transfer_order_lines"}
    BY DEF TablesInv
  <1>7. Names[8] = {"transfer_order_lines", "transfer_logs", "transfer_orders", "waybills",
                    "outbox_events"}
    BY DEF Names
  <1>8. /\ R(1) = Then("operation", R(0), drop_table("transfer_order_lines"))
        /\ R(2) = Then("operation", R(1), drop_table("transfer_logs"))
        /\ R(3) = Then("operation", R(2), drop_table("transfer_orders"))
        /\ R(4) = Then("operation", R(3), drop_table("waybills"))
        /\ R(5) = Then("operation", R(4), drop_table("outbox_events"))
    <2> HIDE DEF R
    <2>1. QED BY <1>2 DEF transfer_dropped
  <1> HIDE DEF R, m
  <1>9. Left(R(0), m, {})
    BY <1>1 DEF Left, m
  <1>10. Left(R(1), m, {"transfer_order_lines"})
    <2>1. {} \union {"transfer_order_lines"} = {"transfer_order_lines"}
      OBVIOUS
    <2>2. Left(R(1), m, {} \union {"transfer_order_lines"})
      BY <1>5, <1>6, <1>7, <1>8, <1>9, DropTableOk
    <2>3. QED BY <2>1, <2>2
  <1>11. Left(R(2), m, {"transfer_order_lines", "transfer_logs"})
    <2>1. PICK Z : Z = {"transfer_order_lines"}
      OBVIOUS
    <2>2. Left(R(2), m, Z \union {"transfer_logs"})
      BY <1>5, <1>6, <1>7, <1>8, <1>10, <2>1, DropTableOk
    <2>3. Z \union {"transfer_logs"} = {"transfer_order_lines", "transfer_logs"}
      BY <2>1
    <2>4. QED BY <2>2, <2>3
  <1>12. Left(R(3), m, {"transfer_order_lines", "transfer_logs", "transfer_orders"})
    <2>1. PICK Z : Z = {"transfer_order_lines", "transfer_logs"}
      OBVIOUS
    <2>2. Left(R(3), m, Z \union {"transfer_orders"})
      BY <1>5, <1>6, <1>7, <1>8, <1>11, <2>1, DropTableOk
    <2>3. Z \union {"transfer_orders"} = {"transfer_order_lines", "transfer_logs", "transfer_orders"}
      BY <2>1
    <2>4. QED BY <2>2, <2>3
  <1>13. PICK Y : Y = {"transfer_order_lines", "transfer_logs", "transfer_orders", "waybills"}
    OBVIOUS
  <1>14. Left(R(4), m, Y)
    <2>1. PICK Z : Z = {"transfer_order_lines", "transfer_logs", "transfer_orders"}
      OBVIOUS
    <2>2. Left(R(4), m, Z \union {"waybills"})
      BY <1>5, <1>6, <1>7, <1>8, <1>12, <2>1, DropTableOk
    <2>3. Z \union {"waybills"} = Y
      BY <1>13, <2>1
    <2>4. QED BY <2>2, <2>3
  <1>15. Left(R(5), m, Names[8])
    <2>1. Left(R(5), m, Y \union {"outbox_events"})
      BY <1>5, <1>6, <1>7, <1>8, <1>13, <1>14, DropTableOk
    <2>2. Y \union {"outbox_events"} = Names[8]
      BY <1>7, <1>13
    <2>3. QED BY <2>1, <2>2
  <1>16. QED BY <1>4, <1>15 DEF m

\* The downgrade of revision 8, which never fails.
LEMMA DownEightKeeps ==
    ASSUME NEW st, st.ok, SchemaInv(st.schema, 8)
    PROVE  SchemaInv(RunSteps(st, Revisions[8].down).schema, 7)
  <1>1. PICK steps : /\ Repairing(steps, {}, Given)
                     /\ transfer_undone = steps \o Try(transfer_dropped)
    BY UndoneIs
  <1> DEFINE mid == RunSteps(st, steps)
             r == RunSteps(st, Revisions[8].down)
             m == mid.schema
             t == r.schema
  <1>2. TablesInv(st.schema, 8) /\ HubKey \notin st.schema
    BY DEF SchemaInv, KeysInv
  <1>3. mid.ok /\ TablesInv(m, 8) /\ HubKey \notin m
    <2>1. PICK A, k : A = {} /\ k = 8
      OBVIOUS
    <2>2. A \subseteq Given /\ Given \subseteq Reconciled /\ k \in 0..9
      BY <2>1 DEF Given, Reconciled
    <2>3. Repairing(steps, A, Given) /\ TablesInv(st.schema, k)
      BY <1>1, <1>2, <2>1
    <2>4. /\ mid.ok /\ TablesInv(m, k)
          /\ \A x \in m : x \in st.schema \/ Extra(x) \/ x \in A
      BY <2>2, <2>3, RepairingKeeps
    <2>5. QED BY <1>2, <2>1, <2>4, SpecialIs
  <1>4. r = RunSteps(mid, Try(transfer_dropped))
    <2>1. PICK y : y = [best |-> TRUE, ops |-> transfer_dropped]
      OBVIOUS
    <2>2. IsSeq(<<y>>)
      BY DEF IsSeq
    <2>3. IsSeq(Try(transfer_dropped)) /\ IsSeq(steps)
      BY <1>1, <2>1, <2>2 DEF Try, Repairing
    <2>4. QED BY <1>1, <2>3, RunsConcat, RevisionsAre
  <1> HIDE DEF mid, r
  <1>5. Left(RunOps(mid, transfer_dropped), m, Names[8])
    BY <1>3, TransferDropped
  <1>6. r = RunOps(mid, transfer_dropped)
    <2>1. PICK y : y = [best |-> TRUE, ops |-> transfer_dropped]
      OBVIOUS
    <2>2. y.best /\ y.ops = transfer_dropped
      BY <2>1
    <2>3. PICK one, z : one = <<y>> /\ z = 0
      OBVIOUS
    <2>4. Len(one) = z + 1 /\ one[z + 1] = y /\ z \in Nat /\ z <= z
      BY <2>3
    <2>5. r = Run("step", mid, one, z, z + 1)
      BY <1>4, <2>1, <2>3, <2>4, RunsAre DEF Try
    <2>6. r = Then("step", mid, y)
      BY <2>4, <2>5, RunBase, RunNext
    <2>7. r = RunStep(mid, y)
      BY <1>3, <2>6 DEF Then
    <2>8. QED BY <1>5, <2>2, <2>7 DEF RunStep, Left
  <1> HIDE DEF m, t
  <1>7. \A x : x \in t <=> x \in m /\ (x[1] = "type" \/ x[2] \notin Names[8])
    BY <1>5, <1>6 DEF Left, t
  <1>8. TablesInv(t, 7)
    <2>1. /\ \A x \in t : x[1] \in Parts \union {"table", "type"}
          /\ CarrierKey \notin t
          /\ \A x \in t : x[1] = "fk" /\ x[3] \in Names[8] =>
                x[3] = "transfer_orders" /\ x[2] \in {"transfer_logs", "transfer_order_lines"}
      BY <1>3, <1>7 DEF TablesInv
    <2>2. Owned(t)
      BY <1>3, <1>7, ObjectIs DEF TablesInv, Owned
    <2>3. ASSUME NEW z, Tab(z) \in t PROVE \E k \in 1..7 : z \in Names[k]
      <3>1. Tab(z) \in m /\ z \notin Names[8]
        BY <1>7, <2>3, ObjectIs
      <3>2. PICK k \in 1..8 : z \in Names[k]
        BY <1>3, <3>1 DEF TablesInv
      <3>3. QED BY <3>1, <3>2
    <2>4. ASSUME NEW k \in 1..7, NEW x \in Made(k), x \notin Reconciled PROVE x \in t
      <3>1. k \in 1..8 /\ k \in 1..9 /\ 8 \in 1..9 /\ k # 8
        OBVIOUS
      <3>2. x \in m
        BY <1>3, <2>4, <3>1 DEF TablesInv
      <3>3. x[2] \in Names[k]
        BY <3>1, MadeIs
      <3>4. x[2] \notin Names[8]
        BY <3>1, <3>3, NamesApart
      <3>5. QED BY <1>7, <3>2, <3>4
    <2>5. QED BY <2>1, <2>2, <2>3, <2>4 DEF TablesInv
  <1>9. KeysInv(t, 7)
    BY <1>3, <1>7 DEF KeysInv
  <1>10. QED BY <1>8, <1>9 DEF SchemaInv, t, r

-----------------------------------------------------------------------------
(* Upgrades and downgrades                                                 *)

\* Mandatory steps consist of proper operations if their operations are.
LEMMA ProperMust ==
    ASSUME NEW ops, IsSeq(ops), \A op \in Elems(ops) : Proper(op) PROVE ProperSteps(Must(ops))
  <1>1. /\ IsSeq(Must(ops)) /\ Len(Must(ops)) = Len(ops)
        /\ \A i \in 1..Len(ops) : Must(ops)[i] = [best |-> FALSE, ops |-> <<ops[i]>>]
    BY MustIs
  <1>2. \A op : IsSeq(<<op>>) /\ Elems(<<op>>) = {op}
    BY DEF IsSeq, Elems
  <1>3. ASSUME NEW y \in Elems(Must(ops)) PROVE IsSeq(y.ops) /\ \A op \in Elems(y.ops) : Proper(op)
    <2>1. PICK i \in 1..Len(ops) : y = [best |-> FALSE, ops |-> <<ops[i]>>]
      BY <1>1 DEF Elems
    <2>2. y.ops = <<ops[i]>> /\ ops[i] \in Elems(ops)
      BY <2>1 DEF Elems
    <2>3. QED BY <1>2, <2>2
  <1>4. QED BY <1>1, <1>3 DEF ProperSteps

\* The steps of the first eight upgrades do.
LEMMA ProperUp == \A n \in 1..8 : ProperSteps(Revisions[n].up)
  <1>1. \A n \in 1..9 : IsSeq(Builds[n]) /\ \A op \in Elems(Builds[n]) : Proper(op)
    BY BuildsFine DEF FineSeq, Fine
  <1>2. \A n \in {1, 2, 3, 4, 5, 7} : ProperSteps(Revisions[n].up)
    BY <1>1, ProperMust, RevisionsAre
  <1>3. ProperSteps(Revisions[6].up)
    <2>1. PICK ops : /\ IsSeq(ops) /\ Elems(ops) = {add(x) : x \in Performance}
                     /\ Adds(performance_indexes) = Must(ops)
      BY MappedIs, DroppedNames
    <2>2. \A x \in Performance : Proper(add(x))
      BY OperationIs, SpecialIs DEF Parts
    <2>3. ProperSteps(Must(ops))
      BY <2>1, <2>2, ProperMust
    <2>4. QED BY <2>1, <2>3, RevisionsAre
  <1>4. ProperSteps(Revisions[8].up)
    <2>1. PICK a, b : a = Must(Builds[8]) /\ b = transfer_reconciled
      OBVIOUS
    <2>2. ProperSteps(a) /\ ProperSteps(b)
      BY <1>1, <2>1, ProperMust, ReconciledIs DEF Repairing, Repairs, ProperSteps
    <2>3. IsSeq(a \o b) /\ Elems(a \o b) = Elems(a) \union Elems(b)
      BY <2>2, ConcatIs DEF ProperSteps
    <2>4. ProperSteps(a \o b)
      BY <2>2, <2>3 DEF ProperSteps
    <2>5. QED BY <2>1, <2>4, RevisionsAre
  <1>5. \A n \in 1..8 : n \in {1, 2, 3, 4, 5, 7} \/ n = 6 \/ n = 8
    OBVIOUS
  <1>6. QED BY <1>2, <1>3, <1>4, <1>5

\* Running proper steps adds no rows, and cannot repair a failure.
LEMMA StepsShrink ==
    ASSUME NEW steps, ProperSteps(steps), NEW st
    PROVE  RunSteps(st, steps).rows \subseteq st.rows /\ (RunSteps(st, steps).ok => st.ok)
  <1>1. PICK l \in Nat : l = Len(steps) /\ l <= l
    BY DEF ProperSteps, IsSeq
  <1>2. RunSteps(st, steps) = Run("step", st, steps, 0, l)
    BY <1>1, RunsAre
  <1>3. QED BY <1>1, <1>2, StepsUpTo

\* An upgrade over several revisions.
LEMMA UpgradedKeeps ==
    ASSUME NEW s, NEW rows, NEW a \in 0..8, NEW b \in 0..8, a <= b, SchemaInv(s, a)
    PROVE  LET r == Upgraded(s, rows, a, b)
           IN  /\ r.ok => SchemaInv(r.schema, b)
               /\ r.rows \subseteq rows
  <1> DEFINE st == Start(s, rows)
             R(n) == Run("revision", st, Revisions, a, n)
             Good(r, n) == (r.ok => SchemaInv(r.schema, n)) /\ r.rows \subseteq rows
             P == {n \in Nat : a + n <= b => Good(R(a + n), a + n)}
  <1>0. st.ok /\ st.schema = s /\ st.rows = rows
    BY DEF Start
  <1>1. 0 \in P
    <2>1. a + 0 = a /\ a \in Nat
      OBVIOUS
    <2>2. R(a) = st
      BY <2>1, RunBase
    <2> HIDE DEF R, st
    <2>3. Good(R(a), a)
      BY <1>0, <2>2
    <2>4. QED BY <2>1, <2>3
  <1>2. ASSUME NEW n \in P PROVE n + 1 \in P
    <2> DEFINE i == a + n
    <2> SUFFICES ASSUME i + 1 <= b PROVE Good(R(i + 1), i + 1)
      <3>1. i + 1 = a + (n + 1)
        BY <1>2
      <3> HIDE DEF Good, R
      <3>2. QED BY <1>2, <3>1
    <2>1. /\ i \in Nat /\ a \in Nat /\ a <= i /\ i + 1 \in 1..8 /\ (i + 1) - 1 = i /\ i <= b
      BY <1>2
    <2> HIDE DEF Good
    <2>2. Good(R(i), i)
      BY <1>2, <2>1
    <2> HIDE DEF i
    <2> DEFINE now == R(i)
               y == Revisions[i + 1]
    <2>3. R(i + 1) = Then("revision", now, y)
      BY <2>1, RunNext
    <2> HIDE DEF R, now
    <2>4. Then("revision", now, y) = IF now.ok THEN RunSteps(now, y.up) ELSE now
      BY DEF Then
    <2>5. CASE ~now.ok
      BY <2>2, <2>3, <2>4, <2>5 DEF Good, now
    <2>6. CASE now.ok
      <3> DEFINE r == RunSteps(now, y.up)
      <3>1. R(i + 1) = r
        BY <2>3, <2>4, <2>6
      <3>2. r.rows \subseteq now.rows
        BY <2>1, ProperUp, StepsShrink
      <3>3. SchemaInv(now.schema, (i + 1) - 1)
        BY <2>1, <2>2, <2>6 DEF Good, now
      <3>4. r.ok => SchemaInv(r.schema, i + 1)
        BY <2>1, <3>3, UpKeeps
      <3> HIDE DEF r
      <3>5. QED BY <2>2, <3>1, <3>2, <3>4 DEF Good, now
    <2>7. QED BY <2>5, <2>6
  <1> HIDE DEF Good, R
  <1>3. P = Nat
    <2>1. P \in SUBSET Nat
      OBVIOUS
    <2> HIDE DEF P
    <2>2. QED BY <1>1, <1>2, <2>1, NatSetInduction
  <1>4. PICK n \in Nat : a + n = b
    <2>1. b - a \in Nat /\ a + (b - a) = b
      OBVIOUS
    <2>2. QED BY <2>1
  <1>5. Good(R(b), b)
    <2>1. n \in P /\ a + n <= b
      <3> HIDE DEF P
      <3>1. QED BY <1>3, <1>4
    <2>2. Good(R(a + n), a + n)
      BY <2>1
    <2>3. QED BY <1>4, <2>2
  <1>6. Upgraded(s, rows, a, b) = R(b)
    BY RunsAre DEF R
  <1>7. QED BY <1>5, <1>6 DEF Good

\* A downgrade by one revision.
LEMMA DowngradedKeeps ==
    ASSUME NEW s, NEW rows, NEW n \in 1..8, SchemaInv(s, n), Downgraded(s, rows, n).ok
    PROVE  /\ SchemaInv(Downgraded(s, rows, n).schema, n - 1)
           /\ Downgraded(s, rows, n).rows \subseteq rows
  <1>1. PICK st : st = Start(s, rows)
    OBVIOUS
  <1>2. st.ok /\ st.schema = s /\ st.rows = rows
    BY <1>1 DEF Start
  <1> DEFINE r == RunSteps(st, Revisions[n].down)
  <1>3. Downgraded(s, rows, n) = r
    BY <1>1 DEF Downgraded
  <1>4. CASE n \in 1..7
    <2>1. SchemaInv(r.schema, n - 1)
      BY <1>2, <1>3, <1>4, DownKeeps
    <2>2. PICK ops : /\ Undoing(ops, n)
                     /\ \A z : RunSteps(z, Revisions[n].down) = RunOps(z, ops)
      BY <1>4, DownRuns
    <2>3. RunOps(st, ops).rows \subseteq st.rows
      BY <2>2, OpsBetween DEF Undoing, Undoes
    <2>4. QED BY <1>2, <1>3, <2>1, <2>2, <2>3
  <1>5. CASE n = 8
    <2>1. SchemaInv(r.schema, n - 1)
      <3>1. SchemaInv(st.schema, 8) /\ n - 1 = 7
        BY <1>2, <1>5
      <3>2. QED BY <1>2, <1>5, <3>1, DownEightKeeps
    <2>2. ProperSteps(Revisions[8].down)
      <3>1. PICK steps : /\ Repairing(steps, {}, Given)
                         /\ transfer_undone = steps \o Try(transfer_dropped)
        BY UndoneIs
      <3>2. PICK last, y : last = Try(transfer_dropped) /\ y = [best |-> TRUE, ops |-> transfer_dropped]
        OBVIOUS
      <3>3. IsSeq(last) /\ Elems(last) = {y} /\ y.ops = transfer_dropped
        <4>1. last = <<y>> /\ y.ops = transfer_dropped
          BY <3>2 DEF Try
        <4>2. IsSeq(<<y>>) /\ Elems(<<y>>) = {y}
          BY DEF IsSeq, Elems
        <4>3. QED BY <4>1, <4>2
      <3>4. IsSeq(transfer_dropped)
        BY DEF transfer_dropped, IsSeq
      <3>5. \A op \in Elems(transfer_dropped) : Proper(op)
        BY OperationIs DEF transfer_dropped, Elems
      <3>6. ProperSteps(last) /\ ProperSteps(steps)
        BY <3>1, <3>3, <3>4, <3>5 DEF ProperSteps, Repairing, Repairs
      <3>7. IsSeq(steps \o last) /\ Elems(steps \o last) = Elems(steps) \union Elems(last)
        BY <3>6, ConcatIs DEF ProperSteps
      <3>8. ProperSteps(steps \o last)
        BY <3>6, <3>7 DEF ProperSteps
      <3>9. QED BY <3>1, <3>2, <3>8, RevisionsAre
    <2>3. r.rows \subseteq st.rows
      BY <1>5, <2>2, StepsShrink
    <2>4. QED BY <1>2, <1>3, <2>1, <2>3
  <1>6. QED BY <1>4, <1>5

\* The newest revision begins with a change of a column's type that the
\* database refuses, whatever it contains, so no upgrade to it succeeds.
LEMMA HeadRefused ==
    ASSUME NEW s, NEW rows, NEW a \in 0..8 PROVE ~Upgraded(s, rows, a, 9).ok
  <1>1. PICK ops : ops = fix_tms_schema_drift
    OBVIOUS
  <1>2. PICK one : one = alter_type("transport_orders", "varchar", "date")
    OBVIOUS
  <1>3. IsSeq(ops) /\ Len(ops) = 3 /\ ops[1] = one
    BY <1>1, <1>2 DEF IsSeq, fix_tms_schema_drift
  <1>4. \A st : ~Ok(st, one)
    BY <1>2 DEF Ok, alter_type, AssignmentCasts
  <1>5. ASSUME NEW st PROVE ~RunSteps(st, Revisions[9].up).ok
    <2> DEFINE S(i) == Run("operation", st, ops, 0, i)
    <2>1. RunSteps(st, Revisions[9].up) = RunOps(st, ops)
      BY <1>1, <1>3, RevisionsAre, MustRuns
    <2>2. PICK z0, z1, z2 \in Nat : z0 = 0 /\ z1 = z0 + 1 /\ z2 = z1 + 1 /\ z2 + 1 = 3
      OBVIOUS
    <2>3. /\ S(z0 + 1) = Then("operation", S(z0), ops[z0 + 1])
          /\ S(z1 + 1) = Then("operation", S(z1), ops[z1 + 1])
          /\ S(z2 + 1) = Then("operation", S(z2), ops[z2 + 1])
      <3>1. \A n \in Nat : S(n + 1) = Then("operation", S(n), ops[n + 1])
        BY RunNext
      <3> HIDE DEF S
      <3>2. QED BY <3>1
    <2>4. RunOps(st, ops) = S(3)
      BY <1>3, RunsAre
    <2> HIDE DEF S
    <2>5. \A x, y : ~x.ok => ~Then("operation", x, y).ok
      BY DEF Then
    <2>6. \A x : ~Then("operation", x, one).ok
      BY <1>4 DEF Then, Failed
    <2>7. ~S(z1).ok
      BY <1>3, <2>2, <2>3, <2>6
    <2>8. ~S(z2).ok
      BY <2>2, <2>3, <2>5, <2>7
    <2>9. ~S(3).ok
      BY <2>2, <2>3, <2>5, <2>8
    <2>10. QED BY <2>1, <2>4, <2>9
  <1>6. PICK st : st = Start(s, rows)
    OBVIOUS
  <1>7. PICK k \in Nat : k = 8
    OBVIOUS
  <1>8. a \in Nat /\ a <= k /\ k + 1 = 9
    BY <1>7
  <1>9. PICK now : Run("revision", st, Revisions, a, k + 1) = Then("revision", now, Revisions[k + 1])
    <2>1. a \in Nat /\ k \in Nat /\ a <= k
      BY <1>8
    <2>2. Run("revision", st, Revisions, a, k + 1)
            = Then("revision", Run("revision", st, Revisions, a, k), Revisions[k + 1])
      BY ONLY <2>1, RunNext
    <2>3. QED BY <2>2
  <1>10. Upgraded(s, rows, a, 9) = Then("revision", now, Revisions[9])
    <2>1. Upgraded(s, rows, a, 9) = Run("revision", st, Revisions, a, 9)
      BY <1>6, RunsAre
    <2>2. QED BY <1>8, <1>9, <2>1
  <1>11. QED BY <1>5, <1>10 DEF Then

\* The schema is that of the revision in alembic_version, and the rows are of
\* the two kinds that the revisions depend on.
MigInv ==
    /\ revision \in 0..8
    /\ contents \subseteq Rows
    /\ SchemaInv(schema, revision)

\* It holds of an empty database.
LEMMA EmptyInv == SchemaInv({}, 0)
  <1>1. \A k \in 1..0 : FALSE
    OBVIOUS
  <1>2. TablesInv({}, 0)
    BY <1>1 DEF TablesInv, Owned
  <1>3. KeysInv({}, 0)
    BY DEF KeysInv
  <1>4. QED BY <1>2, <1>3 DEF SchemaInv

\* And every command and every write keeps it.
LEMMA MigNext_Inv == MigInv /\ [MigNext]_mig_vars => MigInv'
  <1> SUFFICES ASSUME MigInv, [MigNext]_mig_vars PROVE MigInv'
    OBVIOUS
  <1>1. PICK n, s, rows : n = revision /\ s = schema /\ rows = contents
    OBVIOUS
  <1>2. n \in 0..8 /\ rows \subseteq Rows /\ SchemaInv(s, n)
    BY <1>1 DEF MigInv
  <1>3. ASSUME NEW to \in 1..HeadRevision, upgrade(to) PROVE MigInv'
    <2>1. to \in 1..9 /\ n <= to /\ n < to
      BY <1>1, <1>2, <1>3, RevisionsAre DEF upgrade
    <2>2. PICK r : r = Upgraded(s, rows, n, to)
      OBVIOUS
    <2>3. r.ok /\ schema' = r.schema /\ contents' = r.rows /\ revision' = to
      BY <1>1, <1>3, <2>2 DEF upgrade
    <2>4. to # 9
      BY <1>2, <2>2, <2>3, HeadRefused
    <2>5. to \in 0..8
      BY <2>1, <2>4
    <2>6. SchemaInv(r.schema, to) /\ r.rows \subseteq rows
      BY <1>2, <2>1, <2>2, <2>3, <2>5, UpgradedKeeps
    <2>7. QED BY <1>2, <2>3, <2>5, <2>6 DEF MigInv
  <1>4. CASE downgrade
    <2>1. n \in 1..8 /\ n - 1 \in 0..8
      BY <1>1, <1>2, <1>4 DEF downgrade
    <2>2. PICK r : r = Downgraded(s, rows, n)
      OBVIOUS
    <2>3. r.ok /\ schema' = r.schema /\ contents' = r.rows /\ revision' = n - 1
      BY <1>1, <1>4, <2>2 DEF downgrade
    <2>4. SchemaInv(r.schema, n - 1) /\ r.rows \subseteq rows
      BY <1>2, <2>1, <2>2, <2>3, DowngradedKeeps
    <2>5. QED BY <1>2, <2>1, <2>3, <2>4 DEF MigInv
  <1>5. ASSUME NEW w \in Rows, InsertRows(w) PROVE MigInv'
    BY <1>5 DEF InsertRows, MigInv
  <1>6. CASE UNCHANGED mig_vars
    BY <1>6 DEF mig_vars, MigInv
  <1>7. QED BY <1>3, <1>4, <1>5, <1>6 DEF MigNext

\* The invariant of the migrations.
LEMMA MigInvHolds == MigSpec => []MigInv
  <1>1. MigInit => MigInv
    BY EmptyInv DEF MigInit, MigInv
  <1>2. QED BY <1>1, MigNext_Inv, PTL DEF MigSpec

\* For every sequence of upgrades, downgrades and writes: the newest revision is
\* never reached, the schema has only objects of the six kinds, and the rows are
\* those that the revisions depend on.
THEOREM MigrationTypes == MigSpec => []MigTypeOK
  <1>1. MigInv => MigTypeOK
    BY RevisionsAre DEF MigInv, MigTypeOK, SchemaInv, TablesInv, Parts
  <1>2. QED BY <1>1, MigInvHolds, PTL

\* At the last revision that can be reached the schema lacks exactly the three
\* objects of Drift.
LEMMA LastIs == ASSUME NEW s, SchemaInv(s, 8) PROVE Declared \ s = Drift
  <1>1. /\ \A k \in 1..8 : \A x \in Made(k) : x \notin Reconciled => x \in s
        /\ CarrierKey \notin s
    BY DEF SchemaInv, TablesInv
  <1>2. UserRole \in s /\ RolePermission \in s /\ CarrierRef \notin s /\ HubKey \notin s
    BY DEF SchemaInv, KeysInv
  <1>3. ASSUME NEW x \in Declared, x \notin s PROVE x \in {CarrierRef, CarrierKey, HubKey}
    <2>1. x = HubKey \/ x = CarrierKey \/ \E k \in 1..8 : x \in Made(k)
      BY DeclaredIs
    <2>2. QED BY <1>1, <1>2, <1>3, <2>1 DEF Reconciled
  <1>4. Declared \ s = {CarrierRef, CarrierKey, HubKey}
    BY <1>1, <1>2, <1>3, DeclaredIs
  <1>5. QED BY <1>4 DEF Drift, CarrierRef, CarrierKey

\* For every sequence of upgrades, downgrades and writes: a database that was
\* brought as far as the revisions can be applied has every table, unique
\* constraint and reference that the ORM classes declare, but for the three of
\* Drift, which it lacks.
THEOREM LastSchema == MigSpec => []LastHasDeclared
  <1>1. MigInv => LastHasDeclared
    BY LastIs, RevisionsAre DEF MigInv, LastHasDeclared
  <1>2. QED BY <1>1, MigInvHolds, PTL

-----------------------------------------------------------------------------
(* Which upgrades succeed                                                  *)

\* The types Y that are in the database were created by the running command.
Known(st, Y) == \A x \in st.schema : x \in Y => x \in st.created

\* Of the tables N that a revision creates, those in P exist; so do the others in
\* P.  Of what is added to the tables N one by one, E is there.
Ready(st, N, P, E, Y) ==
    /\ st.ok /\ Owned(st.schema) /\ Known(st, Y)
    /\ \A t \in P : Tab(t) \in st.schema
    /\ \A t \in N : Tab(t) \in st.schema => t \in P
    /\ \A x \in st.schema : Extra(x) /\ x[2] \in N => x \in E
    /\ \A x \in E : x \in st.schema

\* What an operation leaves that succeeds and takes nothing away.
LEMMA OkThen ==
    ASSUME NEW st, NEW op, st.ok, Proper(op), Owned(st.schema), Ok(st, op),
           op.do \in {"create_table", "add", "deduplicate"}
    PROVE  LET new == Then("operation", st, op)
           IN  /\ new.ok /\ Owned(new.schema)
               /\ \A x : x \in new.schema <=> x \in st.schema \/ x \in op.objs \/ x \in op.types
               /\ \A x \in op.objs : x[1] # "type"
               /\ \A x \in st.created : x \in new.created
               /\ \A x \in op.types : x \in new.created
               /\ new.rows = st.rows \ Emptied(op)
  <1>1. PICK new : new = Effect(st, op)
    OBVIOUS
  <1>2. Then("operation", st, op) = new
    BY <1>1 DEF Then
  <1>3. op.do = "deduplicate" => op.objs = {} /\ op.types = {}
    BY DEF Proper
  <1>4. op.do = "add" => op.types = {}
    BY DEF Proper
  <1>5. \A x : ~Takes(op, x)
    BY DEF Takes
  <1>6. \A x : x \in Added(op) <=> x \in op.objs \/ x \in op.types
    BY <1>3 DEF Added
  <1>7. /\ new.ok
        /\ \A x : x \in new.schema <=> x \in st.schema \/ x \in op.objs \/ x \in op.types
        /\ new.created = st.created \union (IF op.do = "create_table" THEN op.types ELSE {})
    BY <1>1, <1>5, <1>6, EffectIs
  <1>8. Owned(new.schema)
    BY <1>1, OwnedKept
  <1>9. \A x \in op.objs : x[1] # "type"
    <2>1. Tab(op.on)[1] = "table"
      BY ObjectIs
    <2>2. QED BY <2>1 DEF Proper, Parts
  <1>10. new.rows = st.rows \ Emptied(op)
    BY <1>1 DEF Effect
  <1>11. QED BY <1>2, <1>3, <1>4, <1>7, <1>8, <1>9, <1>10

\* The types that an operation adds are among those created.
LEMMA KnownThen ==
    ASSUME NEW st, NEW op, st.ok, Proper(op), Owned(st.schema), Ok(st, op),
           op.do \in {"create_table", "add", "deduplicate"}, NEW Y, Known(st, Y),
           \A x \in Y : x[1] = "type"
    PROVE  Known(Then("operation", st, op), Y)
  BY OkThen DEF Known

\* op can run where the tables P and the additions E are there.
Fits(op, N, P, E) ==
    /\ op.on \in N
    /\ \/ /\ op.do = "create_table" /\ op.on \notin P
          /\ \A x \in op.objs :
                /\ ~Extra(x)
                /\ x[1] = "fk" =>
                      x[3] \in P /\ (x[3] \in CompositeKey => Uq(x[3], "id") \in E)
       \/ /\ op.do = "add" /\ op.on \in P
          /\ \A x \in op.objs : Extra(x) /\ x \notin E

\* What op adds one by one.
Single(op) == IF op.do = "add" THEN op.objs ELSE {}

\* Such an operation succeeds.
LEMMA FitsReady ==
    ASSUME NEW st, NEW N, NEW P, NEW E, NEW Y, \A x \in Y : x[1] = "type",
           Ready(st, N, P, E, Y), NEW op, Proper(op), Fits(op, N, P, E), op.types \subseteq Y
    PROVE  Ready(Then("operation", st, op), N, P \union {op.on}, E \union Single(op), Y)
  <1>1. PICK new, F : new = Then("operation", st, op) /\ F = E \union Single(op)
    OBVIOUS
  <1>2. Ok(st, op)
    <2>1. CASE op.do = "create_table"
      <3>1. Tab(op.on) \notin st.schema
        BY <2>1 DEF Ready, Fits
      <3>2. ASSUME NEW x \in op.objs, x[1] = "fk"
            PROVE  /\ Tab(x[3]) \in st.schema
                   /\ x[3] \in CompositeKey => Uq(x[3], "id") \in st.schema
        BY <2>1, <3>2 DEF Ready, Fits
      <3>3. op.types \intersect st.schema \subseteq st.created
        BY DEF Ready, Known
      <3>4. QED BY <2>1, <3>1, <3>2, <3>3 DEF Ok, OkCreateTable
    <2>2. CASE op.do = "add"
      <3>1. Tab(op.on) \in st.schema /\ \A x \in op.objs : Extra(x) /\ x[2] = op.on
        BY <2>2 DEF Ready, Fits, Proper
      <3>2. op.objs # {HubKey}
        BY <3>1, SpecialIs
      <3>3. op.objs \intersect st.schema = {}
        BY <2>2, <3>1 DEF Ready, Fits
      <3>4. QED BY <2>2, <3>1, <3>2, <3>3 DEF Ok, OkAdd, HubKey
    <2>3. QED BY <2>1, <2>2 DEF Fits
  <1>3. op.do \in {"create_table", "add"} /\ st.ok /\ Owned(st.schema) /\ Known(st, Y)
    BY DEF Fits, Ready
  <1>4. /\ new.ok /\ Owned(new.schema)
        /\ \A x : x \in new.schema <=> x \in st.schema \/ x \in op.objs \/ x \in op.types
    BY <1>1, <1>2, <1>3, OkThen
  <1>5. Known(new, Y)
    BY <1>1, <1>2, <1>3, KnownThen
  <1>6. \A x \in op.types : x[1] = "type" /\ ~Extra(x)
    BY DEF Proper, Extra
  <1>7. \A z : Tab(z)[1] = "table" /\ Tab(z)[2] = z /\ ~Extra(Tab(z))
    BY ObjectIs DEF Extra
  <1>8. \A x \in op.objs : /\ x[2] = op.on
                           /\ Extra(x) => x \in F
    BY <1>1 DEF Proper, Fits, Single
  <1>9. \A z \in P \union {op.on} : Tab(z) \in new.schema
    <2>1. Tab(op.on) \in new.schema
      BY <1>4 DEF Fits, Proper, Ready
    <2>2. QED BY <1>4, <2>1 DEF Ready
  <1>10. \A z \in N : Tab(z) \in new.schema => z \in P \union {op.on}
    BY <1>4, <1>6, <1>7, <1>8 DEF Ready
  <1>11. \A x \in new.schema : Extra(x) /\ x[2] \in N => x \in F
    BY <1>1, <1>4, <1>6, <1>8 DEF Ready
  <1>12. \A x \in F : x \in new.schema
    BY <1>1, <1>4 DEF Ready, Single
  <1>13. Ready(new, N, P \union {op.on}, F, Y)
    BY <1>4, <1>5, <1>9, <1>10, <1>11, <1>12 DEF Ready
  <1>14. QED BY <1>1, <1>13

\* The tables that the first k operations are about, and what these add.
About(ops, k) == {ops[i].on : i \in 1..k}
Singles(ops, k) == UNION {Single(ops[i]) : i \in 1..k}

\* Every operation can run after those before it.
Orderly(ops, N, P, E) ==
    \A k \in 1..Len(ops) :
        Fits(ops[k], N, P \union About(ops, k - 1), E \union Singles(ops, k - 1))

\* So can all of them.
LEMMA OrderlyReady ==
    ASSUME NEW st, NEW N, NEW P, NEW E, NEW Y, \A x \in Y : x[1] = "type",
           Ready(st, N, P, E, Y), NEW ops, IsSeq(ops),
           \A op \in Elems(ops) : Proper(op) /\ op.types \subseteq Y, Orderly(ops, N, P, E)
    PROVE  Ready(RunOps(st, ops), N, P \union About(ops, Len(ops)),
                 E \union Singles(ops, Len(ops)), Y)
  <1> DEFINE l == Len(ops)
             S(n) == Run("operation", st, ops, 0, n)
             Good(n) == Ready(S(n), N, P \union About(ops, n), E \union Singles(ops, n), Y)
             Q == {n \in Nat : n <= l => Good(n)}
  <1>1. l \in Nat /\ S(0) = st
    BY RunBase DEF IsSeq
  <1>2. About(ops, 0) = {} /\ Singles(ops, 0) = {}
    BY DEF About, Singles
  <1>3. 0 \in Q
    <2>1. P \union About(ops, 0) = P /\ E \union Singles(ops, 0) = E
      BY <1>2
    <2> HIDE DEF S
    <2>2. Good(0)
      BY <1>1, <2>1
    <2>3. QED BY <2>2
  <1>4. ASSUME NEW n \in Q PROVE n + 1 \in Q
    <2> SUFFICES ASSUME n + 1 <= l PROVE Good(n + 1)
      BY <1>4
    <2> DEFINE op == ops[n + 1]
    <2>1. n \in Nat /\ 0 <= n /\ n + 1 \in 1..l /\ (n + 1) - 1 = n /\ Good(n)
      BY <1>1, <1>4
    <2>2. S(n + 1) = Then("operation", S(n), op)
      BY <2>1, RunNext
    <2>3. Proper(op) /\ op.types \subseteq Y
      BY <2>1 DEF Elems
    <2>4. Fits(op, N, P \union About(ops, n), E \union Singles(ops, n))
      <3>1. \A k \in 1..l :
              Fits(ops[k], N, P \union About(ops, k - 1), E \union Singles(ops, k - 1))
        BY DEF Orderly
      <3>2. QED BY <2>1, <3>1
    <2>5. \A i : i \in 1..(n + 1) <=> i \in 1..n \/ i = n + 1
      BY <2>1
    <2>6. /\ About(ops, n + 1) = About(ops, n) \union {op.on}
          /\ Singles(ops, n + 1) = Singles(ops, n) \union Single(op)
      BY <2>5 DEF About, Singles
    <2> HIDE DEF S, op
    <2>7. PICK now, A, F : now = S(n) /\ A = P \union About(ops, n)
                           /\ F = E \union Singles(ops, n)
      OBVIOUS
    <2>8. Ready(Then("operation", now, op), N, A \union {op.on}, F \union Single(op), Y)
      BY <2>1, <2>3, <2>4, <2>7, FitsReady
    <2>9. /\ A \union {op.on} = P \union About(ops, n + 1)
          /\ F \union Single(op) = E \union Singles(ops, n + 1)
      BY <2>6, <2>7
    <2>10. QED BY <2>2, <2>7, <2>8, <2>9
  <1> HIDE DEF Good
  <1>5. Q = Nat
    <2>1. Q \in SUBSET Nat
      OBVIOUS
    <2> HIDE DEF Q
    <2>2. QED BY <1>3, <1>4, <2>1, NatSetInduction
  <1>6. PICK m \in Nat : m = l
    BY <1>1
  <1>7. Good(m)
    BY <1>5, <1>6
  <1>8. RunOps(st, ops) = S(l)
    BY RunsAre
  <1>9. QED BY <1>6, <1>7, <1>8 DEF Good

\* Every operation comes after those that it needs, where the tables P and the
\* additions E are there before.
Sorted(p, P, E) ==
    \A k \in 1..Len(p) :
        /\ p[k].do = "create_table" =>
              /\ p[k].on \notin P
              /\ \A i \in 1..Len(p) : i < k => p[i].on # p[k].on
        /\ \A x \in p[k].objs : x[1] = "fk" =>
              /\ x[3] \in P \/ \E i \in 1..Len(p) : i < k /\ p[i].on = x[3]
              /\ x[3] \in CompositeKey =>
                    \/ Uq(x[3], "id") \in E
                    \/ \E i \in 1..Len(p) : i < k /\ Uq(x[3], "id") \in Single(p[i])
        /\ p[k].do = "add" => p[k].on \in P \/ \E i \in 1..Len(p) : i < k /\ p[i].on = p[k].on
        /\ \A x \in Single(p[k]) :
              /\ x \notin E
              /\ \A i \in 1..Len(p) : i < k => x \notin Single(p[i])

\* Then they can run one after the other.
LEMMA SortedReady ==
    ASSUME NEW st, NEW n, NEW P, NEW E, NEW Y, \A x \in Y : x[1] = "type",
           Ready(st, Names[n], P, E, Y), NEW p, FineSeq(p, n),
           \A op \in Elems(p) : op.types \subseteq Y, Sorted(p, P, E)
    PROVE  Ready(RunOps(st, p), Names[n], P \union About(p, Len(p)),
                 E \union Singles(p, Len(p)), Y)
  <1>1. /\ IsSeq(p) /\ Len(p) \in Nat
        /\ \A k \in 1..Len(p) : Fine(p[k], n) /\ p[k] \in Elems(p)
        /\ \A op \in Elems(p) : Proper(op)
    BY DEF FineSeq, Fine, IsSeq, Elems
  <1>2. ASSUME NEW k \in 1..Len(p)
        PROVE  Fits(p[k], Names[n], P \union About(p, k - 1), E \union Singles(p, k - 1))
    <2> DEFINE A == P \union About(p, k - 1)
               F == E \union Singles(p, k - 1)
               op == p[k]
    <2>1. k \in Nat /\ \A i \in 1..Len(p) : i < k <=> i \in 1..(k - 1)
      BY <1>1
    <2>0. \A i \in 1..(k - 1) : i \in 1..Len(p) /\ i < k
      BY <1>1
    <2>2. /\ \A z : z \in A <=> z \in P \/ \E i \in 1..Len(p) : i < k /\ p[i].on = z
          /\ \A z : z \in F <=> z \in E \/ \E i \in 1..Len(p) : i < k /\ z \in Single(p[i])
      BY <2>1, <2>0 DEF About, Singles
    <2>3. Fine(op, n) /\ Proper(op)
      BY <1>1
    <2> HIDE DEF A, F
    <2>4. CASE op.do = "create_table"
      <3>1. op.on \in Names[n] /\ \A x \in op.objs : ~Extra(x)
        BY <2>3, <2>4 DEF Fine, Creates
      <3>2. op.on \notin A
        BY <2>2, <2>4 DEF Sorted
      <3>3. \A x \in op.objs : x[1] = "fk" =>
               x[3] \in A /\ (x[3] \in CompositeKey => Uq(x[3], "id") \in F)
        BY <2>2 DEF Sorted
      <3> HIDE DEF op
      <3>4. Fits(op, Names[n], A, F)
        BY <2>4, <3>1, <3>2, <3>3 DEF Fits
      <3>5. QED BY <3>4 DEF A, F, op
    <2>5. CASE op.do = "add"
      <3>1. op.on \in Names[n] /\ \A x \in op.objs : Extra(x) /\ x[2] = op.on
        BY <2>3, <2>5 DEF Fine, Creates, Proper
      <3>2. op.on \in A /\ \A x \in op.objs : x \notin F
        BY <2>2, <2>5 DEF Sorted, Single
      <3> HIDE DEF op
      <3>3. Fits(op, Names[n], A, F)
        BY <2>5, <3>1, <3>2 DEF Fits
      <3>4. QED BY <3>3 DEF A, F, op
    <2>6. QED BY <2>3, <2>4, <2>5 DEF Fine, Creates
  <1>3. Orderly(p, Names[n], P, E)
    BY <1>2 DEF Orderly
  <1>4. QED BY <1>1, <1>3, OrderlyReady

\* The operation d on the table t, with references only to r.
Shape(op, d, t, r) ==
    op.do = d /\ op.on = t /\ \A x \in op.objs : x[1] = "fk" => x[3] \in r

\* The shapes of operations.
LEMMA ShapesAre ==
    /\ \A t, u, r, y : Shape(create_table(t, u, r, y), "create_table", t, r)
    /\ \A x : x[1] \in {"index", "column", "unique"} => Shape(add(x), "add", x[2], {})
  <1>1. ASSUME NEW t, NEW u, NEW r, NEW y
        PROVE  Shape(create_table(t, u, r, y), "create_table", t, r)
    BY CreateIs DEF Shape
  <1>2. ASSUME NEW x, x[1] \in {"index", "column", "unique"}
        PROVE  Shape(add(x), "add", x[2], {})
    BY <1>2, OperationIs DEF Shape, Parts
  <1>3. QED BY <1>1, <1>2

\* The first revision creates what references nothing first.
LEMMA ReferenceSorted ==
    ASSUME NEW P, NEW E,
           \A t \in {"barcode_records", "carrier_configs", "carrier_routes",
             "customers", "freight_tiers", "hub_connections", "label_templates",
             "permissions", "reference_entities", "roles"} : t \notin P
    PROVE  /\ Sorted(full_schema_reference, P, E)
           /\ Len(full_schema_reference) = 10
           /\ About(full_schema_reference, 10) = {"barcode_records",
                "carrier_configs", "carrier_routes", "customers", "freight_tiers",
                "hub_connections", "label_templates", "permissions",
                "reference_entities", "roles"}
           /\ Singles(full_schema_reference, 10) = {}
  <1> DEFINE p == full_schema_reference
  <1>1. Len(p) = 10
    BY DEF full_schema_reference
  <1>2. /\ Shape(p[1], "create_table", "barcode_records", {})
        /\ Shape(p[2], "create_table", "carrier_configs", {})
        /\ Shape(p[3], "create_table", "carrier_routes", {})
        /\ Shape(p[4], "create_table", "customers", {})
        /\ Shape(p[5], "create_table", "freight_tiers", {})
        /\ Shape(p[6], "create_table", "hub_connections", {})
        /\ Shape(p[7], "create_table", "label_templates", {})
        /\ Shape(p[8], "create_table", "permissions", {})
        /\ Shape(p[9], "create_table", "reference_entities", {})
        /\ Shape(p[10], "create_table", "roles", {})
    BY ShapesAre, ObjectIs DEF full_schema_reference
  <1> HIDE DEF p
  <1>3. ASSUME NEW k \in 1..10, p[k].do = "create_table"
        PROVE  p[k].on \notin P /\ \A i \in 1..10 : i < k => p[i].on # p[k].on
    BY <1>2, <1>3 DEF Shape
  <1>4. ASSUME NEW k \in 1..10, NEW x \in p[k].objs, x[1] = "fk"
        PROVE  /\ x[3] \in P \/ \E i \in 1..10 : i < k /\ p[i].on = x[3]
               /\ x[3] \notin CompositeKey
    BY <1>2, <1>4 DEF Shape, CompositeKey
  <1>5. ASSUME NEW k \in 1..10 PROVE p[k].do # "add" /\ Single(p[k]) = {}
    BY <1>2 DEF Shape, Single
  <1>6. Sorted(p, P, E)
    BY <1>1, <1>3, <1>4, <1>5 DEF Sorted
  <1>7. About(p, 10) = {"barcode_records", "carrier_configs", "carrier_routes",
                         "customers", "freight_tiers", "hub_connections",
                         "label_templates", "permissions", "reference_entities",
                         "roles"}
    BY <1>2 DEF Shape, About
  <1>8. Singles(p, 10) = {}
    BY <1>5 DEF Singles
  <1>9. QED BY <1>1, <1>6, <1>7, <1>8 DEF p

\* Then the warehouses and the orders,
LEMMA WarehouseSorted ==
    ASSUME NEW P, NEW E,
           {"customers"} \subseteq P,
           \A t \in {"skus", "transfer_hubs", "users", "warehouses", "locations",
             "merge_groups", "orders", "picking_waves"} : t \notin P,
           \A x \in E : x[2] \notin {"merge_groups"}
    PROVE  /\ Sorted(full_schema_warehouse, P, E)
           /\ Len(full_schema_warehouse) = 11
           /\ About(full_schema_warehouse, 11) = {"skus", "transfer_hubs", "users",
                "warehouses", "locations", "merge_groups", "orders",
                "picking_waves"}
           /\ \A x \in Singles(full_schema_warehouse, 11) :
                 x[2] \in {"merge_groups"}
  <1> DEFINE p == full_schema_warehouse
  <1>1. Len(p) = 11
    BY DEF full_schema_warehouse
  <1>2. /\ Shape(p[1], "create_table", "skus", {})
        /\ Shape(p[2], "create_table", "transfer_hubs", {})
        /\ Shape(p[3], "create_table", "users", {})
        /\ Shape(p[4], "create_table", "warehouses", {})
        /\ Shape(p[5], "create_table", "locations", {"warehouses"})
        /\ Shape(p[6], "create_table", "merge_groups", {"warehouses"})
        /\ Shape(p[7], "add", "merge_groups", {})
        /\ Shape(p[8], "add", "merge_groups", {})
        /\ Shape(p[9], "add", "merge_groups", {})
        /\ Shape(p[10], "create_table", "orders", {"customers", "warehouses"})
        /\ Shape(p[11], "create_table", "picking_waves", {"warehouses"})
    BY ShapesAre, ObjectIs DEF full_schema_warehouse
  <1>3. /\ p[7].objs = {Col("merge_groups", "is_deleted")}
        /\ p[8].objs = {Col("merge_groups", "deleted_at")}
        /\ p[9].objs = {Ix("merge_groups", "is_deleted")}
    BY OperationIs, ObjectIs DEF full_schema_warehouse, Parts
  <1> HIDE DEF p
  <1>4. ASSUME NEW k \in 1..11, p[k].do = "create_table"
        PROVE  p[k].on \notin P /\ \A i \in 1..11 : i < k => p[i].on # p[k].on
    BY <1>2, <1>4 DEF Shape
  <1>5. ASSUME NEW k \in 1..11, NEW x \in p[k].objs, x[1] = "fk"
        PROVE  /\ x[3] \in P \/ \E i \in 1..11 : i < k /\ p[i].on = x[3]
               /\ x[3] \notin CompositeKey
    BY <1>2, <1>5 DEF Shape, CompositeKey
  <1>6. ASSUME NEW k \in 1..11
        PROVE  /\ p[k].do = "add" =>
                     p[k].on \in P \/ \E i \in 1..11 : i < k /\ p[i].on = p[k].on
               /\ \A x \in Single(p[k]) :
                     /\ x \notin E /\ x[2] \in {"merge_groups"}
                     /\ \A i \in 1..11 : i < k => x \notin Single(p[i])
    BY <1>2, <1>3, ObjectIs DEF Shape, Single
  <1>7. Sorted(p, P, E)
    BY <1>1, <1>4, <1>5, <1>6 DEF Sorted
  <1>8. About(p, 11) = {"skus", "transfer_hubs", "users", "warehouses", "locations",
                         "merge_groups", "orders", "picking_waves"}
    BY <1>2 DEF Shape, About
  <1>9. \A x \in Singles(p, 11) : x[2] \in {"merge_groups"}
    BY <1>6 DEF Singles
  <1>10. QED BY <1>1, <1>7, <1>8, <1>9 DEF p

\* stock and users,
LEMMA StockSorted ==
    ASSUME NEW P, NEW E,
           {"locations", "orders", "permissions", "picking_waves", "roles", "skus",
             "users", "warehouses"} \subseteq P,
           \A t \in {"role_permissions", "terminal_devices", "user_roles",
             "device_sessions", "inventory", "order_items", "order_status_logs",
             "packing_records"} : t \notin P,
           \A x \in E : x[2] \notin {"inventory"}
    PROVE  /\ Sorted(full_schema_stock, P, E)
           /\ Len(full_schema_stock) = 9
           /\ About(full_schema_stock, 9) = {"role_permissions", "terminal_devices",
                "user_roles", "device_sessions", "inventory", "order_items",
                "order_status_logs", "packing_records"}
           /\ \A x \in Singles(full_schema_stock, 9) :
                 x[2] \in {"inventory"}
  <1> DEFINE p == full_schema_stock
  <1>1. Len(p) = 9
    BY DEF full_schema_stock
  <1>2. /\ Shape(p[1], "create_table", "role_permissions", {"permissions", "roles"})
        /\ Shape(p[2], "create_table", "terminal_devices", {"warehouses"})
        /\ Shape(p[3], "create_table", "user_roles", {"roles", "users"})
        /\ Shape(p[4], "create_table", "device_sessions", {"terminal_devices"})
        /\ Shape(p[5], "create_table", "inventory", {"locations", "skus", "warehouses"})
        /\ Shape(p[6], "add", "inventory", {})
        /\ Shape(p[7], "create_table", "order_items", {"orders", "skus"})
        /\ Shape(p[8], "create_table", "order_status_logs", {"orders", "users"})
        /\ Shape(p[9], "create_table", "packing_records", {"picking_waves"})
    BY ShapesAre, ObjectIs DEF full_schema_stock
  <1>3. p[6].objs = {Ix("inventory", "batch_no+expiry_date")}
    BY OperationIs, ObjectIs DEF full_schema_stock, Parts
  <1> HIDE DEF p
  <1>4. ASSUME NEW k \in 1..9, p[k].do = "create_table"
        PROVE  p[k].on \notin P /\ \A i \in 1..9 : i < k => p[i].on # p[k].on
    BY <1>2, <1>4 DEF Shape
  <1>5. ASSUME NEW k \in 1..9, NEW x \in p[k].objs, x[1] = "fk"
        PROVE  /\ x[3] \in P \/ \E i \in 1..9 : i < k /\ p[i].on = x[3]
               /\ x[3] \notin CompositeKey
    BY <1>2, <1>5 DEF Shape, CompositeKey
  <1>6. ASSUME NEW k \in 1..9
        PROVE  /\ p[k].do = "add" =>
                     p[k].on \in P \/ \E i \in 1..9 : i < k /\ p[i].on = p[k].on
               /\ \A x \in Single(p[k]) :
                     /\ x \notin E /\ x[2] \in {"inventory"}
                     /\ \A i \in 1..9 : i < k => x \notin Single(p[i])
    BY <1>2, <1>3, ObjectIs DEF Shape, Single
  <1>7. Sorted(p, P, E)
    BY <1>1, <1>4, <1>5, <1>6 DEF Sorted
  <1>8. About(p, 9) = {"role_permissions", "terminal_devices", "user_roles",
                         "device_sessions", "inventory", "order_items",
                         "order_status_logs", "packing_records"}
    BY <1>2 DEF Shape, About
  <1>9. \A x \in Singles(p, 9) : x[2] \in {"inventory"}
    BY <1>6 DEF Singles
  <1>10. QED BY <1>1, <1>7, <1>8, <1>9 DEF p

\* shipments, and transport orders once a carrier has a key to reference,
LEMMA ShippingSorted ==
    ASSUME NEW P, NEW E,
           {"carrier_configs", "freight_tiers", "inventory", "locations",
             "merge_groups", "orders", "packing_records", "skus",
             "terminal_devices", "users", "warehouses"} \subseteq P,
           \A t \in {"split_child_orders", "stock_movements", "sync_logs",
             "inventory_logs", "shipments", "transport_orders"} : t \notin P,
           \A x \in E : x[2] \notin {"carrier_configs", "freight_tiers"}
    PROVE  /\ Sorted(full_schema_shipping, P, E)
           /\ Len(full_schema_shipping) = 8
           /\ About(full_schema_shipping, 8) = {"split_child_orders",
                "stock_movements", "sync_logs", "inventory_logs", "shipments",
                "transport_orders", "carrier_configs", "freight_tiers"}
           /\ \A x \in Singles(full_schema_shipping, 8) :
                 x[2] \in {"carrier_configs", "freight_tiers"}
  <1> DEFINE p == full_schema_shipping
  <1>1. Len(p) = 8
    BY DEF full_schema_shipping
  <1>2. /\ Shape(p[1], "create_table", "split_child_orders", {"merge_groups", "orders"})
        /\ Shape(p[2], "create_table", "stock_movements", {"locations", "skus", "warehouses"})
        /\ Shape(p[3], "create_table", "sync_logs", {"terminal_devices"})
        /\ Shape(p[4], "create_table", "inventory_logs", {"inventory", "users"})
        /\ Shape(p[5], "create_table", "shipments", {"orders", "packing_records", "warehouses"})
        /\ Shape(p[6], "add", "carrier_configs", {})
        /\ Shape(p[7], "add", "freight_tiers", {})
        /\ Shape(p[8], "create_table", "transport_orders", 
                 {"carrier_configs", "shipments", "terminal_devices", "warehouses"})
    BY ShapesAre, ObjectIs DEF full_schema_shipping
  <1>3. /\ p[6].objs = {Uq("carrier_configs", "id")}
        /\ p[7].objs = {Uq("freight_tiers", "id")}
    BY OperationIs, ObjectIs DEF full_schema_shipping, Parts
  <1> HIDE DEF p
  <1>4. ASSUME NEW k \in 1..8, p[k].do = "create_table"
        PROVE  p[k].on \notin P /\ \A i \in 1..8 : i < k => p[i].on # p[k].on
    BY <1>2, <1>4 DEF Shape
  <1>5. ASSUME NEW k \in 1..8, NEW x \in p[k].objs, x[1] = "fk"
        PROVE  /\ x[3] \in P \/ \E i \in 1..8 : i < k /\ p[i].on = x[3]
               /\ x[3] \in CompositeKey =>
                     \E i \in 1..8 : i < k /\ Uq(x[3], "id") \in Single(p[i])
    BY <1>2, <1>3, <1>5 DEF Shape, CompositeKey, Single
  <1>6. ASSUME NEW k \in 1..8
        PROVE  /\ p[k].do = "add" =>
                     p[k].on \in P \/ \E i \in 1..8 : i < k /\ p[i].on = p[k].on
               /\ \A x \in Single(p[k]) :
                     /\ x \notin E /\ x[2] \in {"carrier_configs", "freight_tiers"}
                     /\ \A i \in 1..8 : i < k => x \notin Single(p[i])
    BY <1>2, <1>3, ObjectIs DEF Shape, Single
  <1>7. Sorted(p, P, E)
    BY <1>1, <1>4, <1>5, <1>6 DEF Sorted
  <1>8. About(p, 8) = {"split_child_orders", "stock_movements", "sync_logs",
                         "inventory_logs", "shipments", "transport_orders",
                         "carrier_configs", "freight_tiers"}
    BY <1>2 DEF Shape, About
  <1>9. \A x \in Singles(p, 8) : x[2] \in {"carrier_configs", "freight_tiers"}
    BY <1>6 DEF Singles
  <1>10. QED BY <1>1, <1>7, <1>8, <1>9 DEF p

\* and what references a transport order.
LEMMA TransportSorted ==
    ASSUME NEW P, NEW E,
           {"transport_orders", "users", "warehouses"} \subseteq P,
           \A t \in {"pod_records", "return_orders", "route_plans",
             "tracking_events", "transport_exceptions", "transport_segments"} : t
             \notin P
    PROVE  /\ Sorted(full_schema_transport, P, E)
           /\ Len(full_schema_transport) = 6
           /\ About(full_schema_transport, 6) = {"pod_records", "return_orders",
                "route_plans", "tracking_events", "transport_exceptions",
                "transport_segments"}
           /\ Singles(full_schema_transport, 6) = {}
  <1> DEFINE p == full_schema_transport
  <1>1. Len(p) = 6
    BY DEF full_schema_transport
  <1>2. /\ Shape(p[1], "create_table", "pod_records", {"transport_orders"})
        /\ Shape(p[2], "create_table", "return_orders", {"transport_orders", "warehouses"})
        /\ Shape(p[3], "create_table", "route_plans", {"transport_orders"})
        /\ Shape(p[4], "create_table", "tracking_events", {"transport_orders", "users"})
        /\ Shape(p[5], "create_table", "transport_exceptions", {"transport_orders"})
        /\ Shape(p[6], "create_table", "transport_segments", {"transport_orders"})
    BY ShapesAre, ObjectIs DEF full_schema_transport
  <1> HIDE DEF p
  <1>3. ASSUME NEW k \in 1..6, p[k].do = "create_table"
        PROVE  p[k].on \notin P /\ \A i \in 1..6 : i < k => p[i].on # p[k].on
    BY <1>2, <1>3 DEF Shape
  <1>4. ASSUME NEW k \in 1..6, NEW x \in p[k].objs, x[1] = "fk"
        PROVE  /\ x[3] \in P \/ \E i \in 1..6 : i < k /\ p[i].on = x[3]
               /\ x[3] \notin CompositeKey
    BY <1>2, <1>4 DEF Shape, CompositeKey
  <1>5. ASSUME NEW k \in 1..6 PROVE p[k].do # "add" /\ Single(p[k]) = {}
    BY <1>2 DEF Shape, Single
  <1>6. Sorted(p, P, E)
    BY <1>1, <1>3, <1>4, <1>5 DEF Sorted
  <1>7. About(p, 6) = {"pod_records", "return_orders", "route_plans",
                         "tracking_events", "transport_exceptions",
                         "transport_segments"}
    BY <1>2 DEF Shape, About
  <1>8. Singles(p, 6) = {}
    BY <1>5 DEF Singles
  <1>9. QED BY <1>1, <1>6, <1>7, <1>8 DEF p

\* The later revisions likewise: purchases,
LEMMA PurchaseSorted ==
    ASSUME NEW P, NEW E,
           {"skus"} \subseteq P,
           \A t \in {"vendors", "addresses", "purchase_orders",
             "purchase_order_lines"} : t \notin P,
           \A x \in E : x[2] \notin {"purchase_order_lines"}
    PROVE  /\ Sorted(missing_purchase_tables, P, E)
           /\ Len(missing_purchase_tables) = 6
           /\ About(missing_purchase_tables, 6) = {"vendors", "addresses",
                "purchase_orders", "purchase_order_lines"}
           /\ \A x \in Singles(missing_purchase_tables, 6) :
                 x[2] \in {"purchase_order_lines"}
  <1> DEFINE p == missing_purchase_tables
  <1>1. Len(p) = 6
    BY DEF missing_purchase_tables, AddTimestamps
  <1>2. /\ Shape(p[1], "create_table", "vendors", {})
        /\ Shape(p[2], "create_table", "addresses", {})
        /\ Shape(p[3], "create_table", "purchase_orders", {"vendors"})
        /\ Shape(p[4], "create_table", "purchase_order_lines", {"purchase_orders", "skus"})
        /\ Shape(p[5], "add", "purchase_order_lines", {})
        /\ Shape(p[6], "add", "purchase_order_lines", {})
    BY ShapesAre, ObjectIs DEF missing_purchase_tables, AddTimestamps
  <1>3. /\ p[5].objs = {Col("purchase_order_lines", "created_at")}
        /\ p[6].objs = {Col("purchase_order_lines", "updated_at")}
    BY OperationIs, ObjectIs DEF missing_purchase_tables, AddTimestamps, Parts
  <1> HIDE DEF p
  <1>4. ASSUME NEW k \in 1..6, p[k].do = "create_table"
        PROVE  p[k].on \notin P /\ \A i \in 1..6 : i < k => p[i].on # p[k].on
    BY <1>2, <1>4 DEF Shape
  <1>5. ASSUME NEW k \in 1..6, NEW x \in p[k].objs, x[1] = "fk"
        PROVE  /\ x[3] \in P \/ \E i \in 1..6 : i < k /\ p[i].on = x[3]
               /\ x[3] \notin CompositeKey
    BY <1>2, <1>5 DEF Shape, CompositeKey
  <1>6. ASSUME NEW k \in 1..6
        PROVE  /\ p[k].do = "add" =>
                     p[k].on \in P \/ \E i \in 1..6 : i < k /\ p[i].on = p[k].on
               /\ \A x \in Single(p[k]) :
                     /\ x \notin E /\ x[2] \in {"purchase_order_lines"}
                     /\ \A i \in 1..6 : i < k => x \notin Single(p[i])
    BY <1>2, <1>3, ObjectIs DEF Shape, Single
  <1>7. Sorted(p, P, E)
    BY <1>1, <1>4, <1>5, <1>6 DEF Sorted
  <1>8. About(p, 6) = {"vendors", "addresses", "purchase_orders",
                         "purchase_order_lines"}
    BY <1>2 DEF Shape, About
  <1>9. \A x \in Singles(p, 6) : x[2] \in {"purchase_order_lines"}
    BY <1>6 DEF Singles
  <1>10. QED BY <1>1, <1>7, <1>8, <1>9 DEF p

\* invoices and credit memos,
LEMMA BillingSorted ==
    ASSUME NEW P, NEW E,
           \A t \in {"invoices", "invoice_lines", "credit_memos",
             "credit_memo_lines", "address_master"} : t \notin P,
           \A x \in E : x[2] \notin {"credit_memo_lines", "invoice_lines"}
    PROVE  /\ Sorted(missing_billing_tables, P, E)
           /\ Len(missing_billing_tables) = 9
           /\ About(missing_billing_tables, 9) = {"invoices", "invoice_lines",
                "credit_memos", "credit_memo_lines", "address_master"}
           /\ \A x \in Singles(missing_billing_tables, 9) :
                 x[2] \in {"credit_memo_lines", "invoice_lines"}
  <1> DEFINE p == missing_billing_tables
  <1>1. Len(p) = 9
    BY DEF missing_billing_tables, AddTimestamps
  <1>2. /\ Shape(p[1], "create_table", "invoices", {})
        /\ Shape(p[2], "create_table", "invoice_lines", {"invoices"})
        /\ Shape(p[3], "create_table", "credit_memos", {"invoices"})
        /\ Shape(p[4], "create_table", "credit_memo_lines", {"credit_memos"})
        /\ Shape(p[5], "create_table", "address_master", {})
        /\ Shape(p[6], "add", "invoice_lines", {})
        /\ Shape(p[7], "add", "invoice_lines", {})
        /\ Shape(p[8], "add", "credit_memo_lines", {})
        /\ Shape(p[9], "add", "credit_memo_lines", {})
    BY ShapesAre, ObjectIs DEF missing_billing_tables, AddTimestamps
  <1>3. /\ p[6].objs = {Col("invoice_lines", "created_at")}
        /\ p[7].objs = {Col("invoice_lines", "updated_at")}
        /\ p[8].objs = {Col("credit_memo_lines", "created_at")}
        /\ p[9].objs = {Col("credit_memo_lines", "updated_at")}
    BY OperationIs, ObjectIs DEF missing_billing_tables, AddTimestamps, Parts
  <1> HIDE DEF p
  <1>4. ASSUME NEW k \in 1..9, p[k].do = "create_table"
        PROVE  p[k].on \notin P /\ \A i \in 1..9 : i < k => p[i].on # p[k].on
    BY <1>2, <1>4 DEF Shape
  <1>5. ASSUME NEW k \in 1..9, NEW x \in p[k].objs, x[1] = "fk"
        PROVE  /\ x[3] \in P \/ \E i \in 1..9 : i < k /\ p[i].on = x[3]
               /\ x[3] \notin CompositeKey
    BY <1>2, <1>5 DEF Shape, CompositeKey
  <1>6. ASSUME NEW k \in 1..9
        PROVE  /\ p[k].do = "add" =>
                     p[k].on \in P \/ \E i \in 1..9 : i < k /\ p[i].on = p[k].on
               /\ \A x \in Single(p[k]) :
                     /\ x \notin E /\ x[2] \in {"credit_memo_lines", "invoice_lines"}
                     /\ \A i \in 1..9 : i < k => x \notin Single(p[i])
    BY <1>2, <1>3, ObjectIs DEF Shape, Single
  <1>7. Sorted(p, P, E)
    BY <1>1, <1>4, <1>5, <1>6 DEF Sorted
  <1>8. About(p, 9) = {"invoices", "invoice_lines", "credit_memos",
                         "credit_memo_lines", "address_master"}
    BY <1>2 DEF Shape, About
  <1>9. \A x \in Singles(p, 9) : x[2] \in {"credit_memo_lines", "invoice_lines"}
    BY <1>6 DEF Singles
  <1>10. QED BY <1>1, <1>7, <1>8, <1>9 DEF p

\* mutations of a device,
LEMMA PdaSorted ==
    ASSUME NEW P, NEW E,
           \A t \in {"pda_pending_mutations"} : t \notin P
    PROVE  Sorted(pda_table, P, E)
  <1> DEFINE p == pda_table
  <1>1. Len(p) = 1
    BY DEF pda_table
  <1>2. /\ Shape(p[1], "create_table", "pda_pending_mutations", {})
    BY ShapesAre, ObjectIs DEF pda_table
  <1> HIDE DEF p
  <1>3. ASSUME NEW k \in 1..1, p[k].do = "create_table"
        PROVE  p[k].on \notin P /\ \A i \in 1..1 : i < k => p[i].on # p[k].on
    BY <1>2, <1>3 DEF Shape
  <1>4. ASSUME NEW k \in 1..1, NEW x \in p[k].objs, x[1] = "fk"
        PROVE  /\ x[3] \in P \/ \E i \in 1..1 : i < k /\ p[i].on = x[3]
               /\ x[3] \notin CompositeKey
    BY <1>2, <1>4 DEF Shape, CompositeKey
  <1>5. ASSUME NEW k \in 1..1 PROVE p[k].do # "add" /\ Single(p[k]) = {}
    BY <1>2 DEF Shape, Single
  <1>6. Sorted(p, P, E)
    BY <1>1, <1>3, <1>4, <1>5 DEF Sorted
  <1>7. QED BY <1>6 DEF p

\* notifications,
LEMMA NotificationSorted ==
    ASSUME NEW P, NEW E,
           \A t \in {"notifications", "notification_preferences"} : t \notin P
    PROVE  Sorted(notification_tables, P, E)
  <1> DEFINE p == notification_tables
  <1>1. Len(p) = 2
    BY DEF notification_tables
  <1>2. /\ Shape(p[1], "create_table", "notifications", {})
        /\ Shape(p[2], "create_table", "notification_preferences", {})
    BY ShapesAre, ObjectIs DEF notification_tables
  <1> HIDE DEF p
  <1>3. ASSUME NEW k \in 1..2, p[k].do = "create_table"
        PROVE  p[k].on \notin P /\ \A i \in 1..2 : i < k => p[i].on # p[k].on
    BY <1>2, <1>3 DEF Shape
  <1>4. ASSUME NEW k \in 1..2, NEW x \in p[k].objs, x[1] = "fk"
        PROVE  /\ x[3] \in P \/ \E i \in 1..2 : i < k /\ p[i].on = x[3]
               /\ x[3] \notin CompositeKey
    BY <1>2, <1>4 DEF Shape, CompositeKey
  <1>5. ASSUME NEW k \in 1..2 PROVE p[k].do # "add" /\ Single(p[k]) = {}
    BY <1>2 DEF Shape, Single
  <1>6. Sorted(p, P, E)
    BY <1>1, <1>3, <1>4, <1>5 DEF Sorted
  <1>7. QED BY <1>6 DEF p

\* webhooks,
LEMMA WebhookSorted ==
    ASSUME NEW P, NEW E,
           \A t \in {"webhook_targets", "webhook_delivery_logs"} : t \notin P
    PROVE  Sorted(webhook_tables, P, E)
  <1> DEFINE p == webhook_tables
  <1>1. Len(p) = 2
    BY DEF webhook_tables
  <1>2. /\ Shape(p[1], "create_table", "webhook_targets", {})
        /\ Shape(p[2], "create_table", "webhook_delivery_logs", {})
    BY ShapesAre, ObjectIs DEF webhook_tables
  <1> HIDE DEF p
  <1>3. ASSUME NEW k \in 1..2, p[k].do = "create_table"
        PROVE  p[k].on \notin P /\ \A i \in 1..2 : i < k => p[i].on # p[k].on
    BY <1>2, <1>3 DEF Shape
  <1>4. ASSUME NEW k \in 1..2, NEW x \in p[k].objs, x[1] = "fk"
        PROVE  /\ x[3] \in P \/ \E i \in 1..2 : i < k /\ p[i].on = x[3]
               /\ x[3] \notin CompositeKey
    BY <1>2, <1>4 DEF Shape, CompositeKey
  <1>5. ASSUME NEW k \in 1..2 PROVE p[k].do # "add" /\ Single(p[k]) = {}
    BY <1>2 DEF Shape, Single
  <1>6. Sorted(p, P, E)
    BY <1>1, <1>3, <1>4, <1>5 DEF Sorted
  <1>7. QED BY <1>6 DEF p

\* stock in and out,
LEMMA StockTablesSorted ==
    ASSUME NEW P, NEW E,
           {"users", "vendors", "warehouses"} \subseteq P,
           \A t \in {"stock_in", "stock_in_lines", "stock_out", "stock_out_lines",
             "stock_inventory_logs"} : t \notin P
    PROVE  Sorted(stock_tables, P, E)
  <1> DEFINE p == stock_tables
  <1>1. Len(p) = 5
    BY DEF stock_tables
  <1>2. /\ Shape(p[1], "create_table", "stock_in", {"vendors", "warehouses"})
        /\ Shape(p[2], "create_table", "stock_in_lines", {"stock_in"})
        /\ Shape(p[3], "create_table", "stock_out", {"warehouses"})
        /\ Shape(p[4], "create_table", "stock_out_lines", {"stock_out"})
        /\ Shape(p[5], "create_table", "stock_inventory_logs", {"users", "warehouses"})
    BY ShapesAre, ObjectIs DEF stock_tables
  <1> HIDE DEF p
  <1>3. ASSUME NEW k \in 1..5, p[k].do = "create_table"
        PROVE  p[k].on \notin P /\ \A i \in 1..5 : i < k => p[i].on # p[k].on
    BY <1>2, <1>3 DEF Shape
  <1>4. ASSUME NEW k \in 1..5, NEW x \in p[k].objs, x[1] = "fk"
        PROVE  /\ x[3] \in P \/ \E i \in 1..5 : i < k /\ p[i].on = x[3]
               /\ x[3] \notin CompositeKey
    BY <1>2, <1>4 DEF Shape, CompositeKey
  <1>5. ASSUME NEW k \in 1..5 PROVE p[k].do # "add" /\ Single(p[k]) = {}
    BY <1>2 DEF Shape, Single
  <1>6. Sorted(p, P, E)
    BY <1>1, <1>3, <1>4, <1>5 DEF Sorted
  <1>7. QED BY <1>6 DEF p

\* and transfers.
LEMMA TransferSorted ==
    ASSUME NEW P, NEW E,
           {"skus", "warehouses"} \subseteq P,
           \A t \in {"outbox_events", "waybills", "transfer_orders",
             "transfer_logs", "transfer_order_lines"} : t \notin P
    PROVE  Sorted(transfer_tables, P, E)
  <1> DEFINE p == transfer_tables
  <1>1. Len(p) = 5
    BY DEF transfer_tables
  <1>2. /\ Shape(p[1], "create_table", "outbox_events", {})
        /\ Shape(p[2], "create_table", "waybills", {})
        /\ Shape(p[3], "create_table", "transfer_orders", {"warehouses"})
        /\ Shape(p[4], "create_table", "transfer_logs", {"transfer_orders"})
        /\ Shape(p[5], "create_table", "transfer_order_lines", {"skus", "transfer_orders"})
    BY ShapesAre, ObjectIs DEF transfer_tables
  <1> HIDE DEF p
  <1>3. ASSUME NEW k \in 1..5, p[k].do = "create_table"
        PROVE  p[k].on \notin P /\ \A i \in 1..5 : i < k => p[i].on # p[k].on
    BY <1>2, <1>3 DEF Shape
  <1>4. ASSUME NEW k \in 1..5, NEW x \in p[k].objs, x[1] = "fk"
        PROVE  /\ x[3] \in P \/ \E i \in 1..5 : i < k /\ p[i].on = x[3]
               /\ x[3] \notin CompositeKey
    BY <1>2, <1>4 DEF Shape, CompositeKey
  <1>5. ASSUME NEW k \in 1..5 PROVE p[k].do # "add" /\ Single(p[k]) = {}
    BY <1>2 DEF Shape, Single
  <1>6. Sorted(p, P, E)
    BY <1>1, <1>3, <1>4, <1>5 DEF Sorted
  <1>7. QED BY <1>6 DEF p

\* The first revision can run in a database without its tables.
LEMMA FullSchemaReady ==
    ASSUME NEW st, NEW Y, \A x \in Y : x[1] = "type", Ready(st, Names[1], {}, {}, Y),
           \A op \in Elems(full_schema) : op.types \subseteq Y
    PROVE  RunOps(st, full_schema).ok /\ Known(RunOps(st, full_schema), Y)
  <1> DEFINE a == full_schema_reference
             b == full_schema_warehouse
             c == full_schema_stock
             d == full_schema_shipping
             e == full_schema_transport
             N == Names[1]
  <1>1. FineSeq(a, 1) /\ FineSeq(b, 1) /\ FineSeq(c, 1) /\ FineSeq(d, 1) /\ FineSeq(e, 1)
    BY FirstTables
  <1>2. \A p \in {a, b, c, d, e} : \A op \in Elems(p) : op.types \subseteq Y
    BY FullSchema
  <1> HIDE DEF a, b, c, d, e, N
  <1>3. ASSUME NEW p \in {a, b, c, d, e}, NEW s, NEW P, NEW E, Ready(s, N, P, E, Y),
               Sorted(p, P, E)
        PROVE  Ready(RunOps(s, p), N, P \union About(p, Len(p)), E \union Singles(p, Len(p)), Y)
    BY <1>1, <1>2, <1>3, SortedReady DEF N
  <1>4. PICK s1, P1, E1 :
          /\ s1 = RunOps(st, a) /\ P1 = About(a, 10) /\ E1 = {}
    OBVIOUS
  <1>5. /\ Ready(s1, N, P1, E1, Y)
        /\ P1 = {"barcode_records", "carrier_configs", "carrier_routes", "customers",
                 "freight_tiers", "hub_connections", "label_templates", "permissions",
                 "reference_entities", "roles"}
    <2>1. PICK P, E : P = {} /\ E = {}
      OBVIOUS
    <2>2. /\ Sorted(a, P, E) /\ Len(a) = 10 /\ Singles(a, 10) = {}
          /\ P1 = {"barcode_records", "carrier_configs", "carrier_routes", "customers",
                   "freight_tiers", "hub_connections", "label_templates", "permissions",
                   "reference_entities", "roles"}
      BY <1>4, <2>1, ReferenceSorted DEF a
    <2>3. Ready(st, N, P, E, Y)
      BY <2>1 DEF N
    <2>4. Ready(s1, N, P \union About(a, Len(a)), E \union Singles(a, Len(a)), Y)
      BY <1>3, <1>4, <2>2, <2>3
    <2>5. P \union About(a, Len(a)) = P1 /\ E \union Singles(a, Len(a)) = E1
      BY <1>4, <2>1, <2>2
    <2>6. QED BY <2>2, <2>4, <2>5
  <1>6. PICK s2, P2, E2 :
          /\ s2 = RunOps(s1, b) /\ P2 = P1 \union About(b, 11) /\ E2 = E1 \union Singles(b, 11)
    OBVIOUS
  <1>7. /\ Ready(s2, N, P2, E2, Y)
        /\ P2 = P1 \union {"skus", "transfer_hubs", "users", "warehouses", "locations",
                           "merge_groups", "orders", "picking_waves"}
        /\ \A x \in E2 : x[2] = "merge_groups"
    <2>1. /\ Sorted(b, P1, E1) /\ Len(b) = 11
          /\ About(b, 11) = {"skus", "transfer_hubs", "users", "warehouses", "locations",
                             "merge_groups", "orders", "picking_waves"}
          /\ \A x \in Singles(b, 11) : x[2] \in {"merge_groups"}
      BY <1>4, <1>5, WarehouseSorted DEF b
    <2>2. Ready(s2, N, P1 \union About(b, Len(b)), E1 \union Singles(b, Len(b)), Y)
      BY <1>3, <1>5, <1>6, <2>1
    <2>3. QED BY <1>4, <1>6, <2>1, <2>2
  <1>8. PICK s3, P3, E3 :
          /\ s3 = RunOps(s2, c) /\ P3 = P2 \union About(c, 9) /\ E3 = E2 \union Singles(c, 9)
    OBVIOUS
  <1>9. /\ Ready(s3, N, P3, E3, Y)
        /\ P3 = P2 \union {"role_permissions", "terminal_devices", "user_roles",
                           "device_sessions", "inventory", "order_items", "order_status_logs",
                           "packing_records"}
        /\ \A x \in E3 : x[2] \in {"merge_groups", "inventory"}
    <2>1. /\ Sorted(c, P2, E2) /\ Len(c) = 9
          /\ About(c, 9) = {"role_permissions", "terminal_devices", "user_roles",
                            "device_sessions", "inventory", "order_items", "order_status_logs",
                            "packing_records"}
          /\ \A x \in Singles(c, 9) : x[2] \in {"inventory"}
      <3>1. {"locations", "orders", "permissions", "picking_waves", "roles", "skus",
             "users", "warehouses"} \subseteq P2
        BY <1>5, <1>7
      <3>2. \A t \in {"role_permissions", "terminal_devices", "user_roles", "device_sessions",
                      "inventory", "order_items", "order_status_logs", "packing_records"} :
               t \notin P2
        BY <1>5, <1>7
      <3>3. \A x \in E2 : x[2] \notin {"inventory"}
        BY <1>7
      <3>4. QED BY <3>1, <3>2, <3>3, StockSorted DEF c
    <2>2. Ready(s3, N, P2 \union About(c, Len(c)), E2 \union Singles(c, Len(c)), Y)
      BY <1>3, <1>7, <1>8, <2>1
    <2>3. QED BY <1>7, <1>8, <2>1, <2>2
  <1>10. PICK s4, P4, E4 :
           /\ s4 = RunOps(s3, d) /\ P4 = P3 \union About(d, 8) /\ E4 = E3 \union Singles(d, 8)
    OBVIOUS
  <1>11. /\ Ready(s4, N, P4, E4, Y)
         /\ \A t : t \in P4 <=>
              \/ t \in P3
              \/ t \in {"split_child_orders", "stock_movements", "sync_logs",
                        "inventory_logs", "shipments", "transport_orders"}
    <2>1. /\ Sorted(d, P3, E3) /\ Len(d) = 8
          /\ About(d, 8) = {"split_child_orders", "stock_movements", "sync_logs",
                            "inventory_logs", "shipments", "transport_orders",
                            "carrier_configs", "freight_tiers"}
      <3>1. {"carrier_configs", "freight_tiers", "inventory", "locations", "merge_groups",
             "orders", "packing_records", "skus", "terminal_devices", "users",
             "warehouses"} \subseteq P3
        BY <1>5, <1>7, <1>9
      <3>2. \A t \in {"split_child_orders", "stock_movements", "sync_logs", "inventory_logs",
                      "shipments", "transport_orders"} : t \notin P3
        BY <1>5, <1>7, <1>9
      <3>3. \A x \in E3 : x[2] \notin {"carrier_configs", "freight_tiers"}
        BY <1>9
      <3>4. QED BY <3>1, <3>2, <3>3, ShippingSorted DEF d
    <2>2. Ready(s4, N, P3 \union About(d, Len(d)), E3 \union Singles(d, Len(d)), Y)
      BY <1>3, <1>9, <1>10, <2>1
    <2>3. "carrier_configs" \in P3 /\ "freight_tiers" \in P3
      BY <1>5, <1>7, <1>9
    <2>4. QED BY <1>10, <2>1, <2>2, <2>3
  <1>12. PICK s5 : s5 = RunOps(s4, e)
    OBVIOUS
  <1>13. s5.ok /\ Known(s5, Y)
    <2>1. Sorted(e, P4, E4)
      BY <1>5, <1>7, <1>9, <1>11, TransportSorted DEF e
    <2>2. PICK P5, E5 : Ready(s5, N, P5, E5, Y)
      BY <1>3, <1>11, <1>12, <2>1
    <2>3. QED BY <2>2 DEF Ready
  <1>14. RunOps(st, full_schema) = s5
    <2>1. IsSeq(a) /\ IsSeq(b) /\ IsSeq(c) /\ IsSeq(d) /\ IsSeq(e)
      BY <1>1 DEF FineSeq
    <2>2. PICK ab : ab = a \o b
      OBVIOUS
    <2>3. IsSeq(ab) /\ RunOps(st, ab) = s2
      BY <1>4, <1>6, <2>1, <2>2, ConcatIs, RunsConcat
    <2>4. PICK abc : abc = ab \o c
      OBVIOUS
    <2>5. IsSeq(abc) /\ RunOps(st, abc) = s3
      BY <1>8, <2>1, <2>3, <2>4, ConcatIs, RunsConcat
    <2>6. PICK abcd : abcd = abc \o d
      OBVIOUS
    <2>7. IsSeq(abcd) /\ RunOps(st, abcd) = s4
      BY <1>10, <2>1, <2>5, <2>6, ConcatIs, RunsConcat
    <2>8. RunOps(st, abcd \o e) = s5
      BY <1>12, <2>1, <2>7, RunsConcat
    <2>9. full_schema = abcd \o e
      BY <2>2, <2>4, <2>6 DEF full_schema, a, b, c, d, e
    <2>10. QED BY <2>8, <2>9
  <1>15. QED BY <1>13, <1>14

\* The second can run where there are articles.
LEMMA MissingReady ==
    ASSUME NEW st, NEW Y, \A x \in Y : x[1] = "type", NEW P, P = {"skus"},
           Ready(st, Names[2], P, {}, Y), \A op \in Elems(missing_tables) : op.types \subseteq Y
    PROVE  RunOps(st, missing_tables).ok /\ Known(RunOps(st, missing_tables), Y)
  <1> DEFINE a == missing_purchase_tables
             b == missing_billing_tables
             N == Names[2]
  <1>1. FineSeq(a, 2) /\ FineSeq(b, 2)
    BY LaterTables
  <1>2. IsSeq(a) /\ IsSeq(b)
    BY <1>1 DEF FineSeq
  <1>3. missing_tables = a \o b
    BY DEF missing_tables
  <1> HIDE DEF a, b, N
  <1>4. Elems(a \o b) = Elems(a) \union Elems(b)
    BY <1>2, ConcatIs
  <1>5. /\ \A op \in Elems(a) : op.types \subseteq Y
        /\ \A op \in Elems(b) : op.types \subseteq Y
    BY <1>3, <1>4
  <1>6. PICK s1, E, P1, E1 :
          /\ s1 = RunOps(st, a) /\ E = {} /\ P1 = P \union About(a, 6) /\ E1 = E \union Singles(a, 6)
    OBVIOUS
  <1>7. /\ Sorted(a, P, E) /\ Len(a) = 6
        /\ About(a, 6) = {"vendors", "addresses", "purchase_orders", "purchase_order_lines"}
        /\ \A x \in Singles(a, 6) : x[2] \in {"purchase_order_lines"}
    BY <1>6, PurchaseSorted DEF a
  <1>8. Ready(st, N, P, E, Y)
    BY <1>6 DEF N
  <1>9. Ready(s1, N, P \union About(a, Len(a)), E \union Singles(a, Len(a)), Y)
    BY <1>1, <1>5, <1>6, <1>7, <1>8, SortedReady DEF N
  <1>10. Ready(s1, N, P1, E1, Y)
    BY <1>6, <1>7, <1>9
  <1>11. Sorted(b, P1, E1)
    BY <1>6, <1>7, BillingSorted DEF b
  <1>12. PICK P2, E2 : Ready(RunOps(s1, b), N, P2, E2, Y)
    BY <1>1, <1>5, <1>10, <1>11, SortedReady DEF N
  <1>13. RunOps(st, a \o b) = RunOps(s1, b)
    BY <1>2, <1>6, RunsConcat
  <1>14. QED BY <1>3, <1>12, <1>13 DEF Ready

\* The tables that later revisions reference are there.
LEMMA ReferencedThere ==
    ASSUME NEW s, NEW n \in 1..9, TablesInv(s, n)
    PROVE  /\ Tab("skus") \in s /\ Tab("users") \in s /\ Tab("warehouses") \in s
           /\ Tab("orders") \in s /\ Tab("stock_movements") \in s /\ Tab("hub_connections") \in s
           /\ n >= 2 => Tab("vendors") \in s
  <1>1. \A t, u, r : Tab(t) \in table(t, u, r)
    BY DEF table
  <1>2. \A t : Tab(t) \notin Reconciled
    <2>1. \A t : Tab(t)[1] = "table"
      BY ObjectIs
    <2>2. QED BY <2>1, SpecialIs DEF Reconciled
  <1>3. ASSUME NEW k \in 1..n, NEW t, NEW u, NEW r, table(t, u, r) \in Tables(k)
        PROVE  Tab(t) \in s
    <2>1. Tab(t) \in Made(k)
      BY <1>1, <1>3 DEF Made
    <2>2. QED BY <1>2, <2>1 DEF TablesInv
  <1>4. /\ table("skus", {"sku"}, {}) \in Tables(1)
        /\ table("warehouses", {"code"}, {}) \in Tables(1)
    BY ModelsBuilt DEF master_models
  <1>5. table("users", {"username", "email"}, {}) \in Tables(1)
    BY ModelsBuilt DEF auth_models
  <1>6. table("orders", {"order_no"}, {"customers", "warehouses"}) \in Tables(1)
    BY ModelsBuilt DEF oms_models
  <1>7. table("stock_movements", {}, {"locations", "skus", "warehouses"}) \in Tables(1)
    BY ModelsBuilt DEF movement_models
  <1>8. table("hub_connections", {}, {}) \in Tables(1)
    BY ModelsBuilt
  <1>9. table("vendors", {"code"}, {}) \in Tables(2)
    BY MissingBuilt
  <1>10. 1 \in 1..n /\ (n >= 2 => 2 \in 1..n)
    OBVIOUS
  <1>11. QED BY <1>3, <1>4, <1>5, <1>6, <1>7, <1>8, <1>9, <1>10

\* The tables of a revision can be created after the revisions before it.
LEMMA BuildReady ==
    ASSUME NEW n \in {1, 2, 3, 4, 5, 7, 8}, NEW st, st.ok, TablesInv(st.schema, n - 1),
           NEW Y, \A x \in Y : x[1] = "type", Known(st, Y),
           \A op \in Elems(Builds[n]) : op.types \subseteq Y
    PROVE  RunOps(st, Builds[n]).ok /\ Known(RunOps(st, Builds[n]), Y)
  <1>1. n \in 1..9 /\ n - 1 \in 0..8
    OBVIOUS
  <1>2. \A t \in Names[n] : Tab(t) \notin st.schema
    <2>1. ASSUME NEW t \in Names[n], Tab(t) \in st.schema PROVE FALSE
      <3>1. PICK k \in 1..(n - 1) : t \in Names[k]
        BY <2>1 DEF TablesInv
      <3>2. k \in 1..9 /\ k # n
        BY <1>1
      <3>3. QED BY <1>1, <2>1, <3>1, <3>2, NamesApart
    <2>2. QED BY <2>1
  <1>3. ASSUME NEW P, \A t \in P : Tab(t) \in st.schema PROVE Ready(st, Names[n], P, {}, Y)
    <2>1. Owned(st.schema)
      BY DEF TablesInv
    <2>2. \A x \in st.schema : ~(Extra(x) /\ x[2] \in Names[n])
      BY <1>2, <2>1 DEF Owned, Extra
    <2>3. QED BY <1>2, <1>3, <2>1, <2>2 DEF Ready
  <1>4. PICK P : P = IF n = 1 THEN {}
                     ELSE IF n = 2 THEN {"skus"} ELSE {"skus", "users", "vendors", "warehouses"}
    OBVIOUS
  <1>5. \A t \in P : Tab(t) \in st.schema
    <2>1. CASE n = 1
      BY <1>4, <2>1
    <2>2. CASE n # 1
      <3>1. n - 1 \in 1..9 /\ (n # 2 => n - 1 >= 2)
        BY <2>2
      <3>2. QED BY <1>4, <2>2, <3>1, ReferencedThere
    <2>3. QED BY <2>1, <2>2
  <1>6. Ready(st, Names[n], P, {}, Y)
    BY <1>3, <1>5
  <1>7. ASSUME NEW p, p = Builds[n], Sorted(p, P, {})
        PROVE  RunOps(st, Builds[n]).ok /\ Known(RunOps(st, Builds[n]), Y)
    <2>1. PICK E : E = {}
      OBVIOUS
    <2>2. FineSeq(p, n) /\ Ready(st, Names[n], P, E, Y) /\ Sorted(p, P, E)
      BY <1>1, <1>6, <1>7, <2>1, BuildsFine
    <2>3. PICK Q, F : Ready(RunOps(st, p), Names[n], Q, F, Y)
      BY <1>7, <2>2, SortedReady
    <2>4. QED BY <1>7, <2>3 DEF Ready
  <1>8. /\ Builds[1] = full_schema /\ Builds[2] = missing_tables /\ Builds[3] = pda_table
        /\ Builds[4] = notification_tables /\ Builds[5] = webhook_tables
        /\ Builds[7] = stock_tables /\ Builds[8] = transfer_tables
    BY DEF Builds
  <1>9. CASE n = 1
    BY <1>4, <1>6, <1>8, <1>9, FullSchemaReady
  <1>10. CASE n = 2
    <2>1. P = {"skus"}
      BY <1>4, <1>10
    <2>2. Ready(st, Names[2], P, {}, Y) /\ \A op \in Elems(missing_tables) : op.types \subseteq Y
      BY <1>6, <1>8, <1>10
    <2>3. RunOps(st, missing_tables).ok /\ Known(RunOps(st, missing_tables), Y)
      BY <2>1, <2>2, MissingReady
    <2>4. QED BY <1>8, <1>10, <2>3
  <1>11. CASE n \in {3, 4, 5, 7, 8}
    <2>1. P = {"skus", "users", "vendors", "warehouses"}
      BY <1>4, <1>11
    <2>2. PICK E : E = {}
      OBVIOUS
    <2>3. CASE n = 3
      <3>1. Sorted(pda_table, P, E)
        BY <2>1, PdaSorted
      <3>2. QED BY <1>7, <1>8, <2>2, <2>3, <3>1
    <2>4. CASE n = 4
      <3>1. Sorted(notification_tables, P, E)
        BY <2>1, NotificationSorted
      <3>2. QED BY <1>7, <1>8, <2>2, <2>4, <3>1
    <2>5. CASE n = 5
      <3>1. Sorted(webhook_tables, P, E)
        BY <2>1, WebhookSorted
      <3>2. QED BY <1>7, <1>8, <2>2, <2>5, <3>1
    <2>6. CASE n = 7
      <3>1. Sorted(stock_tables, P, E)
        BY <2>1, StockTablesSorted
      <3>2. QED BY <1>7, <1>8, <2>2, <2>6, <3>1
    <2>7. CASE n = 8
      <3>1. Sorted(transfer_tables, P, E)
        BY <2>1, TransferSorted
      <3>2. QED BY <1>7, <1>8, <2>2, <2>7, <3>1
    <2>8. QED BY <1>11, <2>3, <2>4, <2>5, <2>6, <2>7
  <1>12. QED BY <1>9, <1>10, <1>11

\* The types of the tables of a revision are among those of the revision.
LEMMA TypesAre ==
    ASSUME NEW n \in {1, 2, 3, 4, 5, 7, 8}, NEW op \in Elems(Builds[n])
    PROVE  op.types \subseteq TypesOf(n) /\ \A x \in op.types : x[1] = "type"
  <1>1. PICK b, up : b = Builds[n] /\ up = Revisions[n].up
    OBVIOUS
  <1>2. FineSeq(b, n)
    BY <1>1, BuildsFine
  <1>3. IsSeq(b) /\ \A o \in Elems(b) : Proper(o)
    BY <1>2 DEF FineSeq, Fine
  <1>4. PICK i \in 1..Len(b) : op = b[i]
    BY <1>1 DEF Elems
  <1>5. PICK m : m = Must(b)
    OBVIOUS
  <1>6. IsSeq(m) /\ Len(m) = Len(b) /\ m[i] = [best |-> FALSE, ops |-> <<op>>]
    BY <1>3, <1>4, <1>5, MustIs
  <1>7. i \in DOMAIN up /\ up[i] = m[i]
    <2>1. CASE n # 8
      <3>1. up = m
        BY <1>1, <1>5, <2>1, RevisionsAre
      <3>2. QED BY <1>6, <3>1 DEF IsSeq
    <2>2. CASE n = 8
      <3>1. PICK t : t = transfer_reconciled
        OBVIOUS
      <3>2. IsSeq(t) /\ up = m \o t
        BY <1>1, <1>5, <2>2, <3>1, RevisionsAre, ReconciledIs DEF Repairing
      <3>3. /\ IsSeq(up) /\ Len(up) = Len(m) + Len(t) /\ Len(m) \in Nat /\ Len(t) \in Nat
            /\ \A j \in 1..Len(m) : up[j] = m[j]
        BY <1>6, <3>2, ConcatIs
      <3>4. DOMAIN up = 1..Len(up)
        BY <3>3 DEF IsSeq
      <3>5. QED BY <1>6, <3>3, <3>4
    <2>3. QED BY <2>1, <2>2
  <1>8. up[i].ops[1] = op
    BY <1>6, <1>7
  <1>9. op.types \subseteq UNION {up[j].ops[1].types : j \in DOMAIN up}
    BY <1>7, <1>8
  <1>10. QED BY <1>1, <1>3, <1>9 DEF TypesOf, Proper

\* Revision 6 adds indexes that are not there.
LEMMA IndexesReady ==
    ASSUME NEW st, st.ok, SchemaInv(st.schema, 5), NEW Y, \A x \in Y : x[1] = "type", Known(st, Y)
    PROVE  LET r == RunSteps(st, Revisions[6].up)
           IN  r.ok /\ Known(r, Y)
  <1> DEFINE p == performance_indexes
             ops == [i \in DOMAIN p |-> add(p[i])]
             S(i) == Run("operation", st, ops, 0, i)
             x1 == Ix("orders", "created_at")
             x2 == Ix("stock_movements", "sku_id")
             x3 == Ix("stock_movements", "created_at")
  <1>1. DOMAIN p = 1..3 /\ p[1] = x1 /\ p[2] = x2 /\ p[3] = x3 /\ IsSeq(p)
    BY DEF performance_indexes, IsSeq
  <1>2. IsSeq(ops) /\ Revisions[6].up = Must(ops)
    BY <1>1, RevisionsAre, MappedIs
  <1>3. ops = [i \in 1..3 |-> add(p[i])]
    BY <1>1
  <1>4. Len(ops) = 3 /\ ops[1] = add(x1) /\ ops[2] = add(x2) /\ ops[3] = add(x3)
    BY <1>1, <1>3
  <1>5. RunSteps(st, Revisions[6].up) = RunOps(st, ops)
    BY <1>2, MustRuns
  <1> HIDE DEF p, ops
  <1>6. PICK z0, z1, z2 \in Nat : z0 = 0 /\ z1 = z0 + 1 /\ z2 = z1 + 1
    OBVIOUS
  <1>7. /\ RunOps(st, ops) = S(3) /\ S(z0) = st
        /\ S(z0 + 1) = Then("operation", S(z0), ops[z0 + 1])
        /\ S(z1 + 1) = Then("operation", S(z1), ops[z1 + 1])
        /\ S(z2 + 1) = Then("operation", S(z2), ops[z2 + 1])
    <2>1. \A n \in Nat : S(n + 1) = Then("operation", S(n), ops[n + 1])
      BY RunNext
    <2>2. S(z0) = st
      BY <1>6, RunBase
    <2>3. RunOps(st, ops) = S(Len(ops))
      BY RunsAre
    <2> HIDE DEF S
    <2>4. QED BY <1>4, <2>1, <2>2, <2>3
  <1> HIDE DEF S
  <1>8. /\ S(z1) = Then("operation", st, add(x1))
        /\ S(z2) = Then("operation", S(z1), add(x2))
        /\ RunOps(st, ops) = Then("operation", S(z2), add(x3))
    BY <1>4, <1>6, <1>7
  <1>9. /\ x1[1] = "index" /\ x1[2] = "orders"
        /\ x2[1] = "index" /\ x2[2] = "stock_movements" /\ x2[3] = "sku_id"
        /\ x3[1] = "index" /\ x3[2] = "stock_movements" /\ x3[3] = "created_at"
    BY ObjectIs
  <1>10. /\ x1 \in Performance /\ x2 \in Performance /\ x3 \in Performance
    BY DEF Performance
  <1> HIDE DEF x1, x2, x3
  <1>11. /\ x1 \notin st.schema /\ x2 \notin st.schema /\ x3 \notin st.schema
         /\ Tab("orders") \in st.schema /\ Tab("stock_movements") \in st.schema
         /\ Owned(st.schema)
    <2>1. TablesInv(st.schema, 5) /\ \A x \in Performance : x \notin st.schema
      BY DEF SchemaInv, KeysInv
    <2>2. PICK n \in 1..9 : n = 5
      OBVIOUS
    <2>3. QED BY <1>10, <2>1, <2>2, ReferencedThere DEF TablesInv
  <1>12. ASSUME NEW s, s.ok, Owned(s.schema), Known(s, Y), NEW x, x[1] = "index",
                x \notin s.schema, Tab(x[2]) \in s.schema
         PROVE  LET r == Then("operation", s, add(x))
                IN  /\ r.ok /\ Owned(r.schema) /\ Known(r, Y)
                    /\ \A z : z \in r.schema <=> z \in s.schema \/ z = x
    <2>1. PICK op : op = add(x)
      OBVIOUS
    <2>2. Proper(op) /\ op.do = "add" /\ op.objs = {x} /\ op.on = x[2]
      BY <1>12, <2>1, OperationIs DEF Parts
    <2>3. op.types = {} /\ x # HubKey
      BY <1>12, <2>2, SpecialIs DEF Proper
    <2>4. Ok(s, op)
      <3>1. op.objs # {HubKey} /\ op.objs \intersect s.schema = {}
        BY <1>12, <2>2, <2>3
      <3>2. QED BY <1>12, <2>2, <3>1 DEF Ok, OkAdd, HubKey
    <2>5. QED BY <1>12, <2>1, <2>2, <2>3, <2>4, OkThen, KnownThen
  <1>13. /\ S(z1).ok /\ Owned(S(z1).schema) /\ Known(S(z1), Y)
         /\ \A z : z \in S(z1).schema <=> z \in st.schema \/ z = x1
    BY <1>8, <1>9, <1>11, <1>12
  <1>14. /\ S(z2).ok /\ Owned(S(z2).schema) /\ Known(S(z2), Y)
         /\ \A z : z \in S(z2).schema <=> z \in S(z1).schema \/ z = x2
    <2>1. x2 \notin S(z1).schema /\ Tab(x2[2]) \in S(z1).schema
      BY <1>9, <1>11, <1>13
    <2>2. QED BY <1>8, <1>9, <1>12, <1>13, <2>1
  <1>15. RunOps(st, ops).ok /\ Known(RunOps(st, ops), Y)
    <2>1. x3 \notin S(z2).schema /\ Tab(x3[2]) \in S(z2).schema
      BY <1>9, <1>11, <1>13, <1>14
    <2>2. QED BY <1>8, <1>9, <1>12, <1>14, <2>1
  <1>16. QED BY <1>5, <1>15

\* After the revisions before it, a revision can run, unless one of its types is
\* in the database and not created by the running command.
LEMMA UpReady ==
    ASSUME NEW n \in 1..8, NEW st, st.ok, SchemaInv(st.schema, n - 1),
           NEW Y, \A x \in Y : x[1] = "type", Known(st, Y),
           \A x \in TypesOf(n) : x[1] = "type" => x \in Y
    PROVE  LET r == RunSteps(st, Revisions[n].up)
           IN  r.ok /\ (n < 8 => Known(r, Y))
  <1>1. ASSUME n \in {1, 2, 3, 4, 5, 7, 8}
        PROVE  RunOps(st, Builds[n]).ok /\ Known(RunOps(st, Builds[n]), Y)
    <2>1. \A op \in Elems(Builds[n]) : op.types \subseteq Y
      BY <1>1, TypesAre
    <2>2. TablesInv(st.schema, n - 1) /\ Known(st, Y)
      BY <1>1 DEF SchemaInv
    <2>3. QED BY <1>1, <2>1, <2>2, BuildReady
  <1>2. CASE n \in {1, 2, 3, 4, 5, 7}
    <2>1. IsSeq(Builds[n])
      BY BuildsFine DEF FineSeq
    <2>2. RunSteps(st, Revisions[n].up) = RunOps(st, Builds[n])
      BY <1>2, <2>1, RevisionsAre, MustRuns
    <2>3. QED BY <1>1, <1>2, <2>2
  <1>3. CASE n = 6
    <2>1. n - 1 = 5
      BY <1>3
    <2>2. QED BY <1>3, <2>1, IndexesReady
  <1>4. CASE n = 8
    <2>1. PICK mid, b, t : mid = RunOps(st, Builds[n]) /\ b = Builds[n] /\ t = transfer_reconciled
      OBVIOUS
    <2>2. mid.ok /\ IsSeq(b) /\ IsSeq(t)
      BY <1>1, <1>4, <2>1, BuildsFine, ReconciledIs DEF FineSeq, Repairing
    <2>3. RunSteps(st, Revisions[n].up) = RunSteps(mid, t)
      <3>1. Revisions[n].up = Must(b) \o t
        BY <1>4, <2>1, RevisionsAre
      <3>2. PICK m : m = Must(b)
        OBVIOUS
      <3>3. IsSeq(m) /\ RunSteps(st, m) = mid
        BY <2>1, <2>2, <3>2, MustIs, MustRuns
      <3>4. QED BY <2>2, <3>1, <3>2, <3>3, RunsConcat
    <2>4. TablesInv(mid.schema, n)
      BY <1>4, <2>1, <2>2, BuildKeeps DEF SchemaInv
    <2>5. PICK A, R : A = Given /\ R = {CarrierRef}
      OBVIOUS
    <2>6. A \subseteq Given /\ R \subseteq Reconciled /\ Repairing(t, A, R)
      BY <2>1, <2>5, ReconciledIs DEF Reconciled
    <2>7. n \in 0..9
      OBVIOUS
    <2>8. RunSteps(mid, t).ok
      BY <2>2, <2>4, <2>6, <2>7, RepairingKeeps
    <2>9. QED BY <1>4, <2>3, <2>8
  <1>5. n \in {1, 2, 3, 4, 5, 7} \/ n = 6 \/ n = 8
    OBVIOUS
  <1>6. QED BY <1>2, <1>3, <1>4, <1>5

\* An upgrade to the revision before the newest succeeds if no type that it
\* creates is there.
LEMMA UpgradeReady ==
    ASSUME NEW s, NEW rows, NEW a \in 0..8, SchemaInv(s, a),
           \A n \in (a + 1)..8 : TypesOf(n) \intersect s = {}
    PROVE  Upgraded(s, rows, a, 8).ok
  <1> DEFINE st == Start(s, rows)
             Y == {x \in UNION {TypesOf(n) : n \in (a + 1)..8} : x[1] = "type"}
             R(n) == Run("revision", st, Revisions, a, n)
             Good(n) == /\ R(n).ok /\ SchemaInv(R(n).schema, n)
                        /\ n <= 7 => Known(R(n), Y)
             P == {n \in Nat : a + n <= 8 => Good(a + n)}
  <1>1. /\ \A x \in Y : x[1] = "type" /\ x \notin s
        /\ \A n \in (a + 1)..8 : \A x \in TypesOf(n) : x[1] = "type" => x \in Y
    OBVIOUS
  <1> HIDE DEF Y
  <1>2. st.ok /\ st.schema = s
    BY DEF Start
  <1> HIDE DEF st
  <1>3. 0 \in P
    <2>1. a + 0 = a /\ a \in Nat
      OBVIOUS
    <2>2. R(a) = st
      BY <2>1, RunBase
    <2> HIDE DEF R
    <2>3. Known(st, Y)
      BY <1>1, <1>2 DEF Known
    <2>4. Good(a)
      BY <1>2, <2>2, <2>3
    <2> HIDE DEF Good
    <2>5. QED BY <2>1, <2>4
  <1>4. ASSUME NEW n \in P PROVE n + 1 \in P
    <2> DEFINE i == a + n
    <2> SUFFICES ASSUME i + 1 <= 8 PROVE Good(i + 1)
      <3>1. i + 1 = a + (n + 1)
        BY <1>4
      <3> HIDE DEF Good
      <3>2. QED BY <1>4, <3>1
    <2>1. /\ i \in Nat /\ a \in Nat /\ a <= i /\ i + 1 \in 1..8 /\ (i + 1) - 1 = i
          /\ i + 1 \in (a + 1)..8 /\ i <= 8
      BY <1>4
    <2>2. Good(i)
      <3> HIDE DEF Good
      <3>1. QED BY <1>4, <2>1
    <2> HIDE DEF i
    <2> DEFINE now == R(i)
               r == RunSteps(now, Revisions[i + 1].up)
    <2>3. R(i + 1) = Then("revision", now, Revisions[i + 1])
      BY <2>1, RunNext
    <2>4. now.ok /\ SchemaInv(now.schema, i) /\ (i <= 7 => Known(now, Y))
      BY <2>2
    <2> HIDE DEF R, now
    <2>5. R(i + 1) = r
      BY <2>3, <2>4 DEF Then
    <2>6. PICK k \in 1..8 : k = i + 1
      BY <2>1
    <2>7. /\ SchemaInv(now.schema, k - 1) /\ Known(now, Y)
          /\ \A x \in TypesOf(k) : x[1] = "type" => x \in Y
      BY <1>1, <2>1, <2>4, <2>6
    <2>8. r.ok /\ (k < 8 => Known(r, Y))
      BY <1>1, <2>4, <2>6, <2>7, UpReady
    <2>9. SchemaInv(r.schema, k)
      BY <2>6, <2>7, <2>8, UpKeeps
    <2> HIDE DEF r
    <2>10. QED BY <2>1, <2>5, <2>6, <2>8, <2>9
  <1> HIDE DEF Good, R
  <1>5. P = Nat
    <2>1. P \in SUBSET Nat
      OBVIOUS
    <2> HIDE DEF P
    <2>2. QED BY <1>3, <1>4, <2>1, NatSetInduction
  <1>6. PICK n \in Nat : a + n = 8
    <2>1. 8 - a \in Nat /\ a + (8 - a) = 8
      OBVIOUS
    <2>2. QED BY <2>1
  <1>7. Good(8)
    <2>1. a + n <= 8
      BY <1>6
    <2>2. n \in P
      BY <1>5
    <2>3. Good(a + n)
      BY <2>1, <2>2
    <2>4. QED BY <1>6, <2>3
  <1>8. Upgraded(s, rows, a, 8) = R(8)
    BY RunsAre DEF R, st
  <1>9. QED BY <1>7, <1>8 DEF Good

\* A database can be built from nothing, and has what the classes declare but for
\* the three objects of Drift.
LEMMA FreshDatabase == FreshStart.ok /\ SchemaInv(FreshSchema, 8) /\ Declared \ FreshSchema = Drift
  <1>1. PICK a \in 0..8, b \in 0..8 : a = 0 /\ b = 8
    OBVIOUS
  <1> DEFINE s == {}
             rows == {}
  <1>2. SchemaInv(s, a) /\ a <= b /\ \A n \in (a + 1)..8 : TypesOf(n) \intersect s = {}
    BY <1>1, EmptyInv
  <1>3. FreshStart = Upgraded(s, rows, a, b)
    BY <1>1, RevisionsAre DEF FreshStart
  <1> HIDE DEF s, rows
  <1>4. FreshStart.ok
    BY <1>1, <1>2, <1>3, UpgradeReady
  <1>5. SchemaInv(FreshStart.schema, b)
    BY <1>2, <1>3, <1>4, UpgradedKeeps
  <1>6. SchemaInv(FreshSchema, 8)
    BY <1>1, <1>5 DEF FreshSchema
  <1>7. QED BY <1>4, <1>6, LastIs

\* For every sequence of upgrades, downgrades and writes: an upgrade to the last
\* revision that can be reached succeeds, unless the database already has an enum
\* type that one of the revisions on the way creates, as downgrades leave them.
THEOREM UpgradesStuckOnTypes == MigSpec => []UpgradeStuckOnlyOnTypes
  <1>1. MigInv => UpgradeStuckOnlyOnTypes
    <2> SUFFICES ASSUME MigInv, revision # 8,
                        \A n \in (revision + 1)..8 : TypesOf(n) \intersect schema = {}
                 PROVE  CanUpgrade
      BY RevisionsAre DEF UpgradeStuckOnlyOnTypes
    <2>1. PICK s, rows, a : s = schema /\ rows = contents /\ a = revision
      OBVIOUS
    <2>2. /\ a \in 0..8 /\ SchemaInv(s, a)
          /\ \A n \in (a + 1)..8 : TypesOf(n) \intersect s = {}
      BY <2>1 DEF MigInv
    <2>3. Upgraded(s, rows, a, 8).ok
      BY <2>2, UpgradeReady
    <2>4. Upgraded(schema, contents, revision, LastRevision).ok
      BY <2>1, <2>3, RevisionsAre
    <2>5. QED BY <2>4, FreshDatabase DEF CanUpgrade
  <1>2. QED BY <1>1, MigInvHolds, PTL

=============================================================================
