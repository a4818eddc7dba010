-------------------------- MODULE MCOrderLifecycle --------------------------
(* OrderLifecycle on small sets of orders, requests and tasks.             *)
EXTENDS OrderLifecycle, TLC

CONSTANTS s1, s2, o1, o2

NoTasks == {}

Symmetry == Permutations(Sessions) \union Permutations(Orders)

\* Bound: two orders are followed while their histories have two entries together
\* (both created, or one split off the other), one alone to the end.
Small ==
    \/ \E o \in Orders : status[o] = Absent
    \/ \A o, q \in Orders : o # q => Len(log[o]) + Len(log[q]) <= 2
=============================================================================
