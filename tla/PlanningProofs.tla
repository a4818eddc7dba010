--------------------------- MODULE PlanningProofs ---------------------------
(***************************************************************************)
(* Theorems about the two parts that compute an answer: the planning of    *)
(* routes and the ABC-XYZ matrix.                                          *)
(***************************************************************************)
EXTENDS RoutePlan, AbcAnalysis, SumTheorems, SequenceTheorems

-----------------------------------------------------------------------------
(***************************************************************************)
(* _dijkstra finds the cheapest way, and the two nested loops the cheapest *)
(* pair of hubs, for any graph of hubs, any distances and any price.  The  *)
(* argument is the textbook one, on the queue as the code keeps it: with   *)
(* outdated nodes in it and with paths instead of predecessors.            *)
(***************************************************************************)

Size == Cardinality(Hubs)

\* The constants of the planning.
LEMMA RouteConstants ==
    /\ Size \in Nat /\ NoCost \in Nat /\ NoCost > 0 /\ FlatCost \in Nat
    /\ \A d \in Distances : d \in Nat
<1>1. Size \in Nat
  BY RouteAssumption, FS_CardinalityType DEF Size
<1>2. FlatCost \in Nat /\ NoCost \in Nat /\ \A d \in Distances : d \in Nat
  BY RouteAssumption
<1>3. Size * FlatCost < NoCost
  BY RouteAssumption DEF Size
<1>4. Size * FlatCost \in Nat
  BY <1>1, <1>2
<1> HIDE DEF Size
<1> QED BY <1>1, <1>2, <1>3, <1>4

-----------------------------------------------------------------------------
(* The reference                                                           *)

Costs == 0..NoCost
LinkType == [Hubs -> [Hubs -> Nat]]

\* One more connection makes nothing dearer, and uses some connection.
LEMMA ExtendedIsLeast ==
    ASSUME NEW w \in [Hubs -> Costs], NEW link \in LinkType, NEW j \in Hubs
    PROVE  /\ Extended(w, link)[j] \in Costs
           /\ Extended(w, link)[j] <= w[j]
           /\ \A i \in Hubs : Extended(w, link)[j] <= w[i] + link[i][j]
           /\ \/ Extended(w, link)[j] = w[j]
              \/ \E i \in Hubs : Extended(w, link)[j] = w[i] + link[i][j]
<1> DEFINE S == {w[j]} \union {w[i] + link[i][j] : i \in Hubs}
<1>1. \A i \in Hubs : w[i] \in Nat /\ w[i] <= NoCost /\ link[i][j] \in Nat
  BY RouteConstants DEF Costs, LinkType
<1>2. S \in SUBSET Nat /\ w[j] \in S /\ \A i \in Hubs : w[i] + link[i][j] \in S
  BY <1>1
<1>3. Extended(w, link)[j] = Min(S)
  BY DEF Extended
<1>4. \A x \in S : x = w[j] \/ \E i \in Hubs : x = w[i] + link[i][j]
  OBVIOUS
<1> HIDE DEF S
<1>5. \E x \in S : \A y \in S : x <= y
  BY <1>2, LeastNat
<1>6. Min(S) \in S /\ \A y \in S : Min(S) <= y
  BY <1>5 DEF Min
<1>7. Min(S) \in Nat /\ Min(S) <= w[j]
  BY <1>2, <1>6
<1> HIDE DEF Costs
<1>8. Min(S) \in Costs
  BY <1>1, <1>7, RouteConstants DEF Costs
<1> QED BY <1>2, <1>3, <1>4, <1>6, <1>8

\* The recursive function behind Ways exists.
Near(h) == [j \in Hubs |-> IF j = h THEN 0 ELSE NoCost]
IsWays(w, h, link) ==
    w = [n \in 0..Size |-> IF n = 0 THEN Near(h) ELSE Extended(w[n - 1], link)]

\* The recursive function in Ways.
LEMMA WaysUnfolds ==
    ASSUME NEW h, NEW link PROVE Ways(h, link) = CHOOSE w : IsWays(w, h, link)
BY DEF Ways, IsWays, Near, Size

\* Such a function exists, by induction over the number of steps.
LEMMA WaysExist == ASSUME NEW h, NEW link PROVE \E w : IsWays(w, h, link)
<1> DEFINE Def(w, n) == IF n = 0 THEN Near(h) ELSE Extended(w[n - 1], link)
           D == 0..Size
           Good(n, w) == \A i \in D : i <= n => w[i] = Def(w, i)
           P == {n \in Nat : \E w : w = [i \in D |-> w[i]] /\ Good(n, w)}
<1>0. Size \in Nat
  BY RouteConstants
<1> HIDE DEF Size
<1>1. 0 \in P
  <2> DEFINE F == [i \in D |-> Near(h)]
  <2>1. Good(0, F)
    BY <1>0
  <2> QED BY <2>1
<1>2. ASSUME NEW n \in P PROVE n + 1 \in P
  <2>1. PICK F : Good(n, F)
    BY <1>2
  <2> DEFINE H == [i \in D |-> Def(F, i)]
  <2>2. ASSUME NEW i \in D, i <= n + 1 PROVE H[i] = Def(H, i)
    <3>1. CASE i = 0
      BY <3>1
    <3>2. CASE i # 0
      <4>1. i - 1 \in D /\ i - 1 <= n
        BY <1>0, <1>2, <2>2, <3>2
      <4>2. H[i - 1] = Def(F, i - 1) /\ F[i - 1] = Def(F, i - 1)
        BY <2>1, <4>1
      <4>3. H[i - 1] = F[i - 1]
        BY <4>2
      <4>4. H[i] = Def(F, i)
        OBVIOUS
      <4> HIDE DEF H
      <4> QED BY <3>2, <4>3, <4>4
    <3> QED BY <3>1, <3>2
  <2>3. n + 1 \in Nat /\ H = [i \in D |-> H[i]]
    BY <1>2
  <2> HIDE DEF H, Def
  <2> QED BY <2>2, <2>3
<1> HIDE DEF P
<1>3. P = Nat
  <2>1. P \in SUBSET Nat
    BY DEF P
  <2> QED BY <1>1, <1>2, <2>1, NatSetInduction
<1>4. PICK F : F = [i \in D |-> F[i]] /\ Good(Size, F)
  BY <1>0, <1>3 DEF P
<1>5. ASSUME NEW i \in D PROVE F[i] = Def(F, i)
  <2>1. i <= Size
    BY <1>0
  <2> HIDE DEF Def
  <2> QED BY <1>4, <2>1
<1>6. F = [i \in D |-> Def(F, i)]
  BY <1>4, <1>5
<1> QED BY <1>6 DEF IsWays

\* What Ways says, round by round.
LEMMA WaysAre ==
    ASSUME NEW h, NEW link
    PROVE  /\ Ways(h, link)[0] = Near(h)
           /\ \A n \in 1..Size : Ways(h, link)[n] = Extended(Ways(h, link)[n - 1], link)
<1> DEFINE w == Ways(h, link)
<1>1. IsWays(w, h, link)
  BY WaysExist, WaysUnfolds, Zenon
<1> HIDE DEF w
<1>2. Size \in Nat
  BY RouteConstants
<1>3. w[0] = Near(h)
  BY <1>1, <1>2 DEF IsWays
<1>4. ASSUME NEW n \in 1..Size PROVE w[n] = Extended(w[n - 1], link)
  <2>1. n \in 0..Size /\ n # 0
    BY <1>2
  <2> HIDE DEF Size
  <2> QED BY <1>1, <2>1 DEF IsWays
<1> QED BY <1>3, <1>4 DEF w

\* Its values are costs.
LEMMA WaysType ==
    ASSUME NEW h, NEW link \in LinkType
    PROVE  \A n \in 0..Size : Ways(h, link)[n] \in [Hubs -> Costs]
<1> DEFINE w == Ways(h, link)
           P == {n \in Nat : n <= Size => w[n] \in [Hubs -> Costs]}
<1>1. Size \in Nat /\ NoCost \in Nat
  BY RouteConstants
<1>2. w[0] = Near(h) /\ \A n \in 1..Size : w[n] = Extended(w[n - 1], link)
  BY WaysAre
<1> HIDE DEF w, Size
<1>3. 0 \in P
  <2>1. Near(h) \in [Hubs -> Costs]
    BY <1>1 DEF Near, Costs
  <2> QED BY <1>2, <2>1
<1>4. ASSUME NEW n \in P PROVE n + 1 \in P
  <2> SUFFICES ASSUME n + 1 <= Size PROVE w[n + 1] \in [Hubs -> Costs]
    BY <1>4
  <2>1. n + 1 \in 1..Size /\ (n + 1) - 1 = n /\ n <= Size
    BY <1>1, <1>4
  <2>2. w[n] \in [Hubs -> Costs] /\ w[n + 1] = Extended(w[n], link)
    BY <1>2, <1>4, <2>1
  <2>3. \A j \in Hubs : Extended(w[n], link)[j] \in Costs
    BY <2>2, ExtendedIsLeast
  <2>4. Extended(w[n], link) = [j \in Hubs |-> Extended(w[n], link)[j]]
    BY DEF Extended
  <2> QED BY <2>2, <2>3, <2>4
<1>5. P = Nat
  <2> HIDE DEF P
  <2>1. P \in SUBSET Nat
    BY DEF P
  <2> QED BY <1>3, <1>4, <2>1, NatSetInduction
<1> QED BY <1>1, <1>5 DEF w

\* More rounds make nothing dearer.
LEMMA WaysFall ==
    ASSUME NEW h, NEW link \in LinkType, NEW j \in Hubs, NEW m \in 0..Size
    PROVE  Ways(h, link)[Size][j] <= Ways(h, link)[m][j]
<1> DEFINE w == Ways(h, link)
           P == {n \in Nat : m + n <= Size => w[m + n][j] <= w[m][j]}
<1>1. Size \in Nat /\ NoCost \in Nat
  BY RouteConstants
<1>2. /\ \A n \in 1..Size : w[n] = Extended(w[n - 1], link)
      /\ \A n \in 0..Size : w[n] \in [Hubs -> Costs]
  BY WaysAre, WaysType
<1> HIDE DEF w, Size
<1>3. \A n \in 0..Size : w[n][j] \in Nat
  BY <1>1, <1>2 DEF Costs
<1>4. 0 \in P
  BY <1>1, <1>3
<1>5. ASSUME NEW n \in P PROVE n + 1 \in P
  <2> SUFFICES ASSUME m + (n + 1) <= Size PROVE w[m + (n + 1)][j] <= w[m][j]
    BY <1>5
  <2>1. /\ m + (n + 1) \in 1..Size /\ m + n \in 0..Size
        /\ (m + (n + 1)) - 1 = m + n /\ m + n <= Size
    BY <1>1, <1>5
  <2>2. w[m + (n + 1)][j] <= w[m + n][j]
    BY <1>2, <2>1, ExtendedIsLeast
  <2>3. w[m + n][j] <= w[m][j]
    BY <1>5, <2>1
  <2>4. w[m + (n + 1)][j] \in Nat /\ w[m + n][j] \in Nat /\ w[m][j] \in Nat
    <3>1. m + (n + 1) \in 0..Size
      BY <1>1, <2>1
    <3> QED BY <1>3, <2>1, <3>1
  <2> HIDE DEF P
  <2> QED BY <2>2, <2>3, <2>4
<1>6. P = Nat
  <2> HIDE DEF P
  <2>1. P \in SUBSET Nat
    BY DEF P
  <2> QED BY <1>4, <1>5, <2>1, NatSetInduction
<1>7. Size - m \in P /\ m + (Size - m) = Size
  <2>1. Size - m \in Nat /\ m + (Size - m) = Size
    BY <1>1
  <2> HIDE DEF P
  <2> QED BY <1>6, <2>1
<1> QED BY <1>1, <1>7 DEF w

\* Costs b and a limit c that no connection undercuts bound every way: the
\* search has settled the hubs below c.
LEMMA NothingCheaper ==
    ASSUME NEW h \in Hubs, NEW link \in LinkType, NEW b \in [Hubs -> Costs], NEW c \in Costs,
           b[h] = 0,
           \A i, j \in Hubs : b[i] < c => b[j] <= b[i] + link[i][j] \/ NoCost <= b[i] + link[i][j]
    PROVE  \A j \in Hubs : b[j] <= Ways(h, link)[Size][j] \/ c <= Ways(h, link)[Size][j]
<1> DEFINE w == Ways(h, link)
           Bound(n) == \A j \in Hubs : b[j] <= w[n][j] \/ c <= w[n][j]
           P == {n \in Nat : n <= Size => Bound(n)}
<1>1. Size \in Nat /\ NoCost \in Nat
  BY RouteConstants
<1>2. /\ \A n \in 1..Size : w[n] = Extended(w[n - 1], link)
      /\ \A n \in 0..Size : w[n] \in [Hubs -> Costs]
      /\ w[0] = Near(h)
  BY WaysAre, WaysType
<1> HIDE DEF w, Size
<1>3. \A j \in Hubs : b[j] \in Nat /\ b[j] <= NoCost
  BY <1>1 DEF Costs
<1>4. c \in Nat /\ c <= NoCost
  BY <1>1 DEF Costs
<1>5. 0 \in P
  BY <1>2, <1>3 DEF Near
<1>6. ASSUME NEW n \in P PROVE n + 1 \in P
  <2> SUFFICES ASSUME n + 1 <= Size, NEW j \in Hubs
               PROVE  b[j] <= w[n + 1][j] \/ c <= w[n + 1][j]
    BY <1>6
  <2>1. /\ n + 1 \in 1..Size /\ (n + 1) - 1 = n /\ n <= Size
        /\ n + 1 \in 0..Size /\ n \in 0..Size
    BY <1>1, <1>6
  <2>2. Bound(n)
    BY <1>6, <2>1
  <2>3. w[n] \in [Hubs -> Costs] /\ w[n + 1] = Extended(w[n], link)
    BY <1>2, <2>1
  <2>4. \A i \in Hubs : w[n][i] \in Nat /\ link[i][j] \in Nat
    BY <1>1, <2>3 DEF Costs, LinkType
  <2> DEFINE x == w[n + 1][j]
  <2>5. x = w[n][j] \/ \E i \in Hubs : x = w[n][i] + link[i][j]
    BY <2>3, ExtendedIsLeast
  <2> HIDE DEF x, P
  <2>6. CASE x = w[n][j]
    BY <2>2, <2>6 DEF x
  <2>7. ASSUME NEW i \in Hubs, x = w[n][i] + link[i][j] PROVE b[j] <= x \/ c <= x
    <3>1. b[i] \in Nat /\ b[j] \in Nat /\ b[j] <= NoCost /\ w[n][i] \in Nat /\ link[i][j] \in Nat
      BY <1>3, <2>4
    <3>2. CASE c <= w[n][i]
      BY <1>4, <2>7, <3>1, <3>2
    <3>3. CASE b[i] <= w[n][i] /\ c <= b[i]
      BY <1>4, <2>7, <3>1, <3>3
    <3>4. CASE b[i] <= w[n][i] /\ b[i] < c
      <4>1. b[j] <= b[i] + link[i][j]
        BY <1>1, <3>1, <3>4
      <4> QED BY <2>7, <3>1, <3>4, <4>1
    <3>5. b[i] <= w[n][i] \/ c <= w[n][i]
      BY <2>2
    <3> QED BY <1>4, <3>1, <3>2, <3>3, <3>4, <3>5
  <2> QED BY <2>5, <2>6, <2>7 DEF x
<1>7. P = Nat
  <2> HIDE DEF P
  <2>1. P \in SUBSET Nat
    BY DEF P
  <2> QED BY <1>5, <1>6, <2>1, NatSetInduction
<1>8. Bound(Size)
  BY <1>1, <1>7
<1> QED BY <1>8 DEF w

-----------------------------------------------------------------------------
(* The search                                                              *)

\* A node of the queue: its path enters no hub twice, each hub on it was
\* reached at no more than its cost, and the reference knows a way as cheap
\* with as many connections.
Visited(n) == {n.path[i] : i \in 1..Len(n.path)}
Sane(n, b, w) ==
    /\ n.path \in Seq(Hubs) /\ Len(n.path) >= 1
    /\ n.cost \in Nat /\ n.cost < NoCost
    /\ Cardinality(Visited(n)) = Len(n.path)
    /\ \A h \in Visited(n) : b[h] <= n.cost
    /\ w[Len(n.path) - 1][HubOf(n)] <= n.cost

\* A hub that was reached is in the queue at its cost, or its connections
\* have been followed from that cost.
Queued(i) == \E n \in heap : HubOf(n) = i /\ n.cost = best[i]
Settled(i) ==
    /\ i # pair[2]
    /\ \A j \in Hubs : graph[i][j] > 0 => best[j] <= best[i] + SegCost(i, j)

Pairs == OriginHubs \X DestHubs

\* The types.
RouteTypes ==
    /\ graph \in LinkType
    /\ todo \subseteq Pairs
    /\ pair = NoPair \/ pair \in Pairs \ todo
    /\ best \in [Hubs -> Costs]
    /\ route.cost \in Costs

\* While a pair is searched: no cost is below that of the cheapest way, and
\* what was reached is queued or settled.
SearchInv ==
    IF pair = NoPair THEN heap = {}
    ELSE /\ best[pair[1]] = 0
         /\ \A n \in heap : Sane(n, best, Ways(pair[1], Links))
         /\ \A k \in Hubs : Cheapest(pair[1], k) <= best[k]
         /\ \A i \in Hubs : best[i] < NoCost => Queued(i) \/ Settled(i)

\* The best result so far is the cheapest of the pairs that are done.
Done == Pairs \ (todo \union {pair})
DoneInv ==
    /\ \A p \in Done : route.cost <= Cheapest(p[1], p[2])
    /\ route.cost = NoCost \/ \E p \in Done : route.cost = Cheapest(p[1], p[2])

\* A connection costs its segment, the absence of one is infinite.
LEMMA LinksAre ==
    ASSUME RouteTypes
    PROVE  /\ Links \in LinkType
           /\ \A i, j \in Hubs :
                 /\ graph[i][j] > 0 => Links[i][j] = SegCost(i, j)
                 /\ ~(graph[i][j] > 0) => Links[i][j] = NoCost
                 /\ SegCost(i, j) \in Nat
<1>1. \A i, j \in Hubs : graph[i][j] \in Nat
  BY DEF RouteTypes, LinkType
<1>2. \A i, j \in Hubs : SegCost(i, j) \in Nat
  BY <1>1, RouteConstants DEF SegCost
<1>3. \A i, j \in Hubs : Links[i][j] = IF graph[i][j] > 0 THEN SegCost(i, j) ELSE NoCost
  BY DEF Links
<1>4. Links \in LinkType
  BY <1>2, RouteConstants DEF Links, LinkType
<1> QED BY <1>2, <1>3, <1>4

\* No step changes the connections.
LEMMA LinksStay == UNCHANGED <<graph, priced>> => Links' = Links
BY DEF Links, SegCost

\* The reference is a cost.
LEMMA CheapestType ==
    ASSUME RouteTypes, NEW h \in Hubs, NEW k \in Hubs PROVE Cheapest(h, k) \in Costs
<1>1. Size \in 0..Size
  BY RouteConstants
<1>2. Links \in LinkType
  BY LinksAre
<1>3. Ways(h, Links)[Size] \in [Hubs -> Costs]
  BY <1>1, <1>2, WaysType
<1> QED BY <1>3 DEF Cheapest, Size

\* Pairs are pairs of hubs.
LEMMA PairsAre ==
    /\ NoPair \notin Pairs
    /\ \A p \in Pairs : p[1] \in Hubs /\ p[2] \in Hubs
    /\ Pairs # {}
<1>1. OriginHubs \subseteq Hubs /\ DestHubs \subseteq Hubs /\ OriginHubs # {} /\ DestHubs # {}
  BY RouteAssumption
<1>2. \A p \in Pairs : p[1] \in OriginHubs /\ p[2] \in DestHubs /\ Len(p) = 2
  BY DEF Pairs
<1>3. Len(NoPair) = 0
  BY DEF NoPair
<1>4. PICK h \in OriginHubs, k \in DestHubs : TRUE
  BY <1>1
<1>5. <<h, k>> \in Pairs
  BY DEF Pairs
<1> QED BY <1>1, <1>2, <1>3, <1>5

\* When no node of the queue costs less than c, no way to a hub is cheaper
\* than the cost found for it, unless it costs c at least.
LEMMA FoundIsLeast ==
    ASSUME RouteTypes, SearchInv, pair # NoPair, NEW c \in Costs,
           \A n \in heap : c <= n.cost
    PROVE  \A j \in Hubs : best[j] <= Cheapest(pair[1], j) \/ c <= Cheapest(pair[1], j)
<1>1. /\ best[pair[1]] = 0
      /\ \A i \in Hubs : best[i] < NoCost => Queued(i) \/ Settled(i)
      /\ \A n \in heap : n.cost \in Nat
  BY DEF SearchInv, Sane
<1>2. best \in [Hubs -> Costs] /\ Links \in LinkType /\ pair[1] \in Hubs
  BY LinksAre, PairsAre DEF RouteTypes
<1>3. \A i \in Hubs : best[i] \in Nat
  BY <1>2, RouteConstants DEF Costs
<1>4. c \in Nat /\ c <= NoCost /\ NoCost \in Nat
  BY RouteConstants DEF Costs
<1>5. ASSUME NEW i \in Hubs, NEW j \in Hubs, best[i] < c
      PROVE  best[j] <= best[i] + Links[i][j] \/ NoCost <= best[i] + Links[i][j]
  <2>1. best[i] < NoCost /\ ~Queued(i)
    BY <1>1, <1>3, <1>4, <1>5 DEF Queued
  <2>2. Settled(i)
    BY <1>1, <2>1
  <2>3. CASE graph[i][j] > 0
    BY <2>2, <2>3, LinksAre DEF Settled
  <2>4. CASE ~(graph[i][j] > 0)
    BY <1>3, <1>4, <2>4, LinksAre
  <2> QED BY <2>3, <2>4
<1> DEFINE L == Links
           b == best
           h == pair[1]
<1>6. /\ h \in Hubs /\ L \in LinkType /\ b \in [Hubs -> Costs] /\ b[h] = 0
      /\ \A i, j \in Hubs : b[i] < c => b[j] <= b[i] + L[i][j] \/ NoCost <= b[i] + L[i][j]
  BY <1>1, <1>2, <1>5
<1>7. \A j \in Hubs : Cheapest(h, j) = Ways(h, L)[Size][j]
  BY DEF Cheapest, Size
<1> HIDE DEF L, b, h, Size, Costs, LinkType
<1>8. \A j \in Hubs : b[j] <= Ways(h, L)[Size][j] \/ c <= Ways(h, L)[Size][j]
  BY <1>6, NothingCheaper
<1> QED BY <1>7, <1>8 DEF b, h

\* The node of a connection that is followed from the node n.
LEMMA NextNode ==
    ASSUME NEW n, NEW k \in Hubs, NEW o, NEW link \in LinkType,
           NEW b \in [Hubs -> Costs], NEW c \in [Hubs -> Costs],
           \A h \in Hubs : c[h] <= b[h],
           NEW m, m.path = Append(n.path, k), m.cost = n.cost + link[HubOf(n)][k],
           m.cost < b[k], c[k] = m.cost,
           Sane(n, b, Ways(o, link))
    PROVE  /\ Sane(m, c, Ways(o, link))
           /\ HubOf(m) = k
           /\ Ways(o, link)[Size][k] <= m.cost
<1> DEFINE seg == link[HubOf(n)][k]
           cost == n.cost + seg
           path == Append(n.path, k)
           w == Ways(o, link)
           l == Len(n.path)
<1>1. /\ n.path \in Seq(Hubs) /\ l \in Nat /\ l >= 1 /\ n.cost \in Nat
      /\ Cardinality(Visited(n)) = l
      /\ \A h \in Visited(n) : b[h] <= n.cost
      /\ w[l - 1][HubOf(n)] <= n.cost
  BY DEF Sane
<1>2. \A h \in Hubs : b[h] \in Nat /\ c[h] \in Nat /\ b[h] <= NoCost
  BY RouteConstants DEF Costs
<1>3. m.cost = cost /\ m.path = path
  OBVIOUS
<1>4. /\ path \in Seq(Hubs) /\ Len(path) = l + 1 /\ path[l + 1] = k
      /\ \A i \in 1..l : path[i] = n.path[i]
  BY <1>1
<1> HIDE DEF path
<1>5. HubOf(m) = k
  BY <1>3, <1>4 DEF HubOf
<1>6. Visited(n) \subseteq Hubs /\ HubOf(n) \in Hubs
  BY <1>1 DEF Visited, HubOf
<1>7. seg \in Nat /\ cost \in Nat /\ cost < NoCost /\ n.cost <= cost
  <2>1. seg \in Nat
    BY <1>6 DEF LinkType
  <2> HIDE DEF seg
  <2> QED BY <1>1, <1>2, <1>3, <2>1, RouteConstants
<1>8. k \notin Visited(n)
  <2> HIDE DEF cost
  <2> QED BY <1>1, <1>2, <1>3, <1>7
<1>9. Visited(m) = Visited(n) \union {k}
  <2>1. Visited(m) = {path[i] : i \in 1..(l + 1)}
    BY <1>3, <1>4 DEF Visited
  <2>2. 1..(l + 1) = (1..l) \union {l + 1}
    BY <1>1
  <2>3. {path[i] : i \in 1..l} = {n.path[i] : i \in 1..l}
    BY <1>4
  <2> QED BY <1>4, <2>1, <2>2, <2>3 DEF Visited
<1>10. IsFiniteSet(Hubs) /\ IsFiniteSet(Visited(n))
  BY <1>6, RouteAssumption, FS_Subset
<1>11. Cardinality(Visited(m)) = l + 1
  BY <1>1, <1>8, <1>9, <1>10, FS_AddElement
<1>12. l + 1 <= Size
  <2>1. Visited(m) \subseteq Hubs
    BY <1>6, <1>9
  <2>2. Cardinality(Visited(m)) <= Cardinality(Hubs)
    BY <1>10, <2>1, FS_Subset
  <2> QED BY <1>11, <2>2 DEF Size
<1>13. /\ l \in 1..Size /\ l - 1 \in 0..Size /\ l \in 0..Size /\ Size \in 0..Size
       /\ Size \in Nat
  <2>1. Size \in Nat
    BY RouteConstants
  <2> HIDE DEF Size
  <2> QED BY <1>1, <1>12, <2>1
<1>14. w[l - 1] \in [Hubs -> Costs] /\ w[l] \in [Hubs -> Costs] /\ w[Size] \in [Hubs -> Costs]
  BY <1>13, WaysType
<1>15. w[l] = Extended(w[l - 1], link)
  BY <1>13, WaysAre
<1>16. w[l][k] <= w[l - 1][HubOf(n)] + seg
  BY <1>6, <1>14, <1>15, ExtendedIsLeast
<1>17. /\ w[l][k] \in Nat /\ w[l - 1][HubOf(n)] \in Nat /\ w[Size][k] \in Nat
  <2>1. \A x \in Costs : x \in Nat
    BY RouteConstants DEF Costs
  <2> HIDE DEF w, l, Costs
  <2> QED BY <1>6, <1>14, <2>1
<1>18. w[l][k] <= cost
  <2> DEFINE x == w[l][k]
             y == w[l - 1][HubOf(n)]
  <2>1. x \in Nat /\ y \in Nat /\ x <= y + seg /\ y <= n.cost /\ n.cost \in Nat
    BY <1>1, <1>16, <1>17
  <2> HIDE DEF x, y, seg
  <2>2. x <= n.cost + seg
    BY <1>7, <2>1
  <2> QED BY <2>2 DEF x
<1>19. w[Size][k] <= w[l][k]
  BY <1>13, WaysFall
<1>20. w[Size][k] <= cost
  <2> HIDE DEF w, Size, cost
  <2> QED BY <1>7, <1>17, <1>18, <1>19
<1>21. \A h \in Visited(m) : c[h] <= m.cost
  <2> TAKE h \in Visited(m)
  <2>1. CASE h = k
    <3>1. c[k] = m.cost /\ c[k] \in Nat
      BY <1>2
    <3> QED BY <2>1, <3>1
  <2>2. CASE h \in Visited(n)
    <3>1. b[h] <= n.cost /\ c[h] <= b[h] /\ h \in Hubs
      BY <1>1, <1>6, <2>2
    <3> QED BY <1>1, <1>2, <1>3, <1>7, <3>1
  <2> QED BY <1>9, <2>1, <2>2
<1>22. Len(m.path) = l + 1 /\ Len(m.path) - 1 = l
  BY <1>1, <1>3, <1>4
<1>23. Sane(m, c, w)
  <2> HIDE DEF w, cost
  <2> QED BY <1>1, <1>3, <1>4, <1>5, <1>7, <1>11, <1>18, <1>21, <1>22 DEF Sane
<1> QED BY <1>3, <1>5, <1>20, <1>23

-----------------------------------------------------------------------------
(* The steps                                                               *)

RouteInv == RouteTypes /\ SearchInv /\ DoneInv

\* No step changes the reference.
LEMMA CheapestStays ==
    ASSUME UNCHANGED <<graph, priced>>
    PROVE  \A h, k : Cheapest(h, k)' = Cheapest(h, k)
BY LinksStay DEF Cheapest

\* Initially no pair is done.
LEMMA RouteInit_Inv == RouteInit => RouteInv
<1> SUFFICES ASSUME RouteInit PROVE RouteInv
  OBVIOUS
<1>1. graph \in LinkType
  BY RouteConstants DEF RouteInit, LinkType
<1>2. todo = Pairs /\ pair = NoPair /\ heap = {} /\ route.cost = NoCost
  BY DEF RouteInit, Pairs, NoRoute
<1>3. best \in [Hubs -> Costs] /\ NoCost \in Costs
  BY RouteConstants DEF RouteInit, Costs
<1>4. RouteTypes
  BY <1>1, <1>2, <1>3 DEF RouteTypes
<1> QED BY <1>2, <1>4 DEF RouteInv, SearchInv, DoneInv, Done

\* The queue holds the origin alone.
LEMMA StartPair_Inv == ASSUME RouteInv, StartPair PROVE RouteInv'
<1>1. PICK p \in todo :
         /\ pair' = p
         /\ todo' = todo \ {p}
         /\ heap' = {Node(0, <<p[1]>>, 0)}
         /\ best' = [h \in Hubs |-> IF h = p[1] THEN 0 ELSE NoCost]
  BY DEF StartPair
<1>2. pair = NoPair /\ UNCHANGED <<graph, priced, route>>
  BY DEF StartPair
<1>3. RouteTypes /\ p \in Pairs /\ p[1] \in Hubs /\ p[2] \in Hubs /\ p # NoPair
  BY PairsAre DEF RouteInv, RouteTypes
<1>4. NoCost \in Nat /\ NoCost > 0 /\ Size \in Nat
  BY RouteConstants
<1>5. RouteTypes'
  <2>1. best' \in [Hubs -> Costs]
    BY <1>1, <1>4 DEF Costs
  <2> QED BY <1>1, <1>2, <1>3, <2>1 DEF RouteTypes
<1>6. DoneInv'
  <2>1. Done' = Done
    BY <1>1, <1>2, <1>3, PairsAre DEF Done
  <2> QED BY <1>2, <2>1, CheapestStays DEF RouteInv, DoneInv
<1>7. SearchInv'
  <2> DEFINE o == p[1]
             link == Links
             w == Ways(o, link)
             m == Node(0, <<o>>, 0)
             b == [h \in Hubs |-> IF h = o THEN 0 ELSE NoCost]
  <2>1. link \in LinkType /\ Links' = link
    BY <1>2, <1>3, LinksAre, LinksStay
  <2> HIDE DEF link
  <2>2. m.cost = 0 /\ m.path = <<o>>
    BY DEF Node
  <2>3. <<o>> \in Seq(Hubs) /\ Len(<<o>>) = 1 /\ <<o>>[1] = o
    BY <1>3
  <2> HIDE DEF m
  <2>4. HubOf(m) = o
    BY <2>2, <2>3 DEF HubOf
  <2>5. Visited(m) = {o}
    <3>1. 1..1 = {1}
      OBVIOUS
    <3> QED BY <2>2, <2>3, <3>1 DEF Visited
  <2>6. Cardinality({o}) = 1
    BY FS_Singleton
  <2>7. w[0] = b /\ 0 \in 0..Size
    BY <1>4, WaysAre DEF Near
  <2>8. b[o] = 0 /\ b \in [Hubs -> Costs]
    BY <1>3, <1>4 DEF Costs
  <2>9. \A k \in Hubs : w[Size][k] <= b[k]
    BY <2>1, <2>7, WaysFall
  <2> HIDE DEF w, b
  <2>10. Sane(m, b, w)
    <3>1. 1 - 1 = 0
      OBVIOUS
    <3> QED BY <1>4, <2>2, <2>3, <2>4, <2>5, <2>6, <2>7, <2>8, <3>1 DEF Sane
  <2>11. best' = b /\ heap' = {m} /\ pair' = p
    BY <1>1 DEF b, m
  <2>12. \A i \in Hubs : best'[i] < NoCost => Queued(i)'
    <3> SUFFICES ASSUME NEW i \in Hubs, b[i] < NoCost
                 PROVE  HubOf(m) = i /\ m.cost = b[i]
      BY <2>11 DEF Queued, HubOf
    <3>1. i = o
      BY <1>4 DEF b
    <3> QED BY <2>2, <2>4, <2>8, <3>1
  <2>13. \A k \in Hubs : Cheapest(pair[1], k)' <= best'[k]
    BY <2>1, <2>9, <2>11 DEF Cheapest, Size, w
  <2>14. \A n \in heap' : Sane(n, best', Ways(pair'[1], Links'))
    BY <2>1, <2>10, <2>11 DEF w
  <2> QED BY <1>3, <2>8, <2>11, <2>12, <2>13, <2>14 DEF SearchInv, Sane, HubOf, Visited
<1> QED BY <1>5, <1>6, <1>7 DEF RouteInv

\* What the next node n of the queue is, and what its step does.
LEMMA VisitCases ==
    ASSUME Visit
    PROVE  \E n \in heappop :
              /\ HubOf(n) # pair[2]
              /\ \/ /\ n.cost > best[HubOf(n)]
                    /\ heap' = heap \ {n}
                    /\ best' = best
                 \/ /\ ~(n.cost > best[HubOf(n)])
                    /\ best' = [k \in Hubs |-> IF k \in Relaxed(n)
                                               THEN n.cost + SegCost(HubOf(n), k)
                                               ELSE best[k]]
                    /\ heap' = (heap \ {n}) \union
                         {Node(n.cost + SegCost(HubOf(n), k), Append(n.path, k),
                               n.distance + graph[HubOf(n)][k]) : k \in Relaxed(n)}
BY DEF Visit

\* A node is dropped, or its connections are followed.
LEMMA Visit_Inv == ASSUME RouteInv, Visit PROVE RouteInv'
<1>1. pair # NoPair /\ UNCHANGED <<graph, priced, todo, pair, route>>
  BY DEF Visit
<1>2. /\ RouteTypes /\ best[pair[1]] = 0
      /\ \A x \in heap : Sane(x, best, Ways(pair[1], Links))
      /\ \A k \in Hubs : Cheapest(pair[1], k) <= best[k]
      /\ \A i \in Hubs : best[i] < NoCost => Queued(i) \/ Settled(i)
  BY <1>1 DEF RouteInv, SearchInv
<1>3. best \in [Hubs -> Costs] /\ pair \in Pairs /\ pair[1] \in Hubs
  BY <1>1, <1>2, PairsAre DEF RouteTypes
<1>4. \A h \in Hubs : best[h] \in Nat /\ best[h] <= NoCost
  BY <1>3, RouteConstants DEF Costs
<1>5. Links' = Links /\ Links \in LinkType
  BY <1>1, <1>2, LinksStay, LinksAre
<1>6. DoneInv'
  <2>1. Done' = Done
    BY <1>1 DEF Done
  <2> QED BY <1>1, <2>1, CheapestStays DEF RouteInv, DoneInv
<1>7. PICK n \in heappop :
              /\ HubOf(n) # pair[2]
              /\ \/ /\ n.cost > best[HubOf(n)]
                    /\ heap' = heap \ {n}
                    /\ best' = best
                 \/ /\ ~(n.cost > best[HubOf(n)])
                    /\ best' = [k \in Hubs |-> IF k \in Relaxed(n)
                                               THEN n.cost + SegCost(HubOf(n), k)
                                               ELSE best[k]]
                    /\ heap' = (heap \ {n}) \union
                         {Node(n.cost + SegCost(HubOf(n), k), Append(n.path, k),
                               n.distance + graph[HubOf(n)][k]) : k \in Relaxed(n)}
  BY VisitCases
<1> DEFINE w == Ways(pair[1], Links)
           i0 == HubOf(n)
           new(k) == n.cost + SegCost(i0, k)
           node(k) == Node(new(k), Append(n.path, k), n.distance + graph[i0][k])
<1>8. n \in heap /\ Sane(n, best, w)
  BY <1>2 DEF heappop
<1>9. n.cost \in Nat /\ i0 \in Hubs /\ best[i0] <= n.cost
  <2>1. Len(n.path) \in 1..Len(n.path) /\ n.path[Len(n.path)] \in Hubs
    BY <1>8 DEF Sane
  <2> QED BY <1>8, <2>1 DEF Sane, Visited, HubOf
<1>10. w' = w
  BY <1>1, <1>5
\* An outdated node.
<1>11. CASE n.cost > best[i0] /\ heap' = heap \ {n} /\ best' = best
  <2>1. RouteTypes'
    BY <1>1, <1>2, <1>11 DEF RouteTypes
  <2>2. ASSUME NEW i \in Hubs, best[i] < NoCost PROVE Queued(i)' \/ Settled(i)'
    <3>1. CASE Queued(i)
      <4>1. PICK x \in heap : HubOf(x) = i /\ x.cost = best[i]
        BY <3>1 DEF Queued
      <4>2. x # n
        BY <1>4, <1>9, <1>11, <4>1
      <4> QED BY <1>11, <4>1, <4>2 DEF Queued, HubOf
    <3>2. CASE Settled(i)
      BY <1>1, <1>11, <3>2 DEF Settled, SegCost
    <3> QED BY <1>2, <2>2, <3>1, <3>2
  <2>3. SearchInv'
    <3>1. \A x \in heap' : Sane(x, best', Ways(pair'[1], Links'))
      BY <1>1, <1>2, <1>5, <1>11
    <3>2. \A k \in Hubs : Cheapest(pair[1], k)' <= best'[k]
      BY <1>1, <1>2, <1>5, <1>11 DEF Cheapest
    <3> QED BY <1>1, <1>2, <1>11, <2>2, <3>1, <3>2 DEF SearchInv, Sane, HubOf, Visited
  <2> QED BY <1>6, <2>1, <2>3 DEF RouteInv
\* The connections of a hub are followed.
<1>12. CASE /\ ~(n.cost > best[i0])
            /\ best' = [k \in Hubs |-> IF k \in Relaxed(n) THEN new(k) ELSE best[k]]
            /\ heap' = (heap \ {n}) \union {node(k) : k \in Relaxed(n)}
  <2>1. n.cost = best[i0]
    BY <1>4, <1>9, <1>12
  <2>2. \A k \in Hubs : SegCost(i0, k) \in Nat
    BY <1>2, <1>9, LinksAre
  <2>3. \A k \in Relaxed(n) : /\ k \in Hubs /\ graph[i0][k] > 0
                              /\ new(k) < best[k] /\ new(k) \in Nat
                              /\ Links[i0][k] = SegCost(i0, k)
    BY <1>2, <1>9, <2>2, LinksAre DEF Relaxed
  <2>4. \A k \in Hubs \ Relaxed(n) : graph[i0][k] > 0 => best[k] <= new(k)
    <3> SUFFICES ASSUME NEW k \in Hubs, graph[i0][k] > 0, ~(new(k) < best[k])
                 PROVE  best[k] <= new(k)
      BY DEF Relaxed
    <3> QED BY <1>4, <1>9, <2>2
  <2>5. /\ best' \in [Hubs -> Costs]
        /\ \A k \in Hubs : best'[k] \in Nat /\ best'[k] <= best[k]
        /\ \A k \in Relaxed(n) : best'[k] = new(k)
        /\ \A k \in Hubs \ Relaxed(n) : best'[k] = best[k]
    <3>1. \A k \in Relaxed(n) : new(k) \in Costs /\ new(k) <= best[k]
      BY <1>4, <2>3, RouteConstants DEF Costs
    <3> HIDE DEF new
    <3> QED BY <1>3, <1>4, <1>12, <2>3, <3>1
  <2>6. RouteTypes'
    BY <1>1, <1>2, <2>5 DEF RouteTypes
  <2>7. \A k \in Relaxed(n) : /\ Sane(node(k), best', w)
                              /\ HubOf(node(k)) = k /\ node(k).cost = new(k)
                              /\ w[Size][k] <= new(k)
    <3> TAKE k \in Relaxed(n)
    <3> DEFINE b == best
               c == best'
               link == Links
               o == pair[1]
               m == node(k)
    <3>0. m.cost = new(k) /\ m.path = Append(n.path, k)
      BY DEF Node
    <3>1. /\ k \in Hubs /\ link \in LinkType
          /\ b \in [Hubs -> Costs] /\ c \in [Hubs -> Costs]
          /\ \A h \in Hubs : c[h] <= b[h]
          /\ new(k) < b[k] /\ c[k] = new(k) /\ new(k) = n.cost + link[HubOf(n)][k]
          /\ Sane(n, b, Ways(o, link))
      BY <1>3, <1>5, <1>8, <2>2, <2>3, <2>5
    <3> HIDE DEF b, c, link, o, m, new
    <3>2. Sane(m, c, Ways(o, link)) /\ HubOf(m) = k /\ Ways(o, link)[Size][k] <= m.cost
      BY <3>0, <3>1, NextNode
    <3> QED BY <3>0, <3>2 DEF c, link, o, m
  <2> HIDE DEF node, new
  <2>8. \A x \in heap' : Sane(x, best', w)
    <3>1. ASSUME NEW x \in heap PROVE Sane(x, best', w)
      <4>1. Sane(x, best, w)
        BY <1>2
      <4>2. Visited(x) \subseteq Hubs /\ x.cost \in Nat
        BY <4>1 DEF Sane, Visited
      <4>3. \A h \in Visited(x) : best'[h] <= x.cost
        <5> TAKE h \in Visited(x)
        <5>1. best[h] <= x.cost /\ h \in Hubs
          BY <4>1, <4>2 DEF Sane
        <5> QED BY <1>4, <2>5, <4>2, <5>1
      <4> QED BY <4>1, <4>3 DEF Sane
    <3> QED BY <1>12, <2>7, <3>1
  <2>9. \A k \in Hubs : Cheapest(pair[1], k) <= best'[k]
    <3> TAKE k \in Hubs
    <3>1. CASE k \in Relaxed(n)
      BY <2>5, <2>7, <3>1 DEF Cheapest, Size
    <3>2. CASE k \notin Relaxed(n)
      BY <1>2, <2>5, <3>2
    <3> QED BY <3>1, <3>2
  <2>10. ASSUME NEW i \in Hubs, best'[i] < NoCost PROVE Queued(i)' \/ Settled(i)'
    <3>1. CASE i \in Relaxed(n)
      <4>1. node(i) \in heap'
        BY <1>12, <3>1
      <4> QED BY <2>5, <2>7, <3>1, <4>1 DEF Queued, HubOf
    <3>2. CASE i \notin Relaxed(n) /\ i = i0
      <4>1. ASSUME NEW j \in Hubs, graph[i0][j] > 0
            PROVE  best'[j] <= best'[i0] + SegCost(i0, j)
        <5>1. best'[i0] + SegCost(i0, j) = new(j)
          BY <1>9, <2>1, <2>5, <3>2 DEF new
        <5>2. CASE j \in Relaxed(n)
          BY <2>3, <2>5, <5>1, <5>2
        <5>3. CASE j \notin Relaxed(n)
          BY <2>4, <2>5, <4>1, <5>1, <5>3
        <5> QED BY <5>2, <5>3
      <4> QED BY <1>1, <1>7, <3>2, <4>1 DEF Settled, SegCost
    <3>3. CASE i \notin Relaxed(n) /\ i # i0
      <4>1. best'[i] = best[i]
        BY <2>5, <3>3
      <4>2. CASE Queued(i)
        <5>1. PICK x \in heap : HubOf(x) = i /\ x.cost = best[i]
          BY <4>2 DEF Queued
        <5>2. x \in heap'
          BY <1>12, <3>3, <5>1
        <5> QED BY <4>1, <5>1, <5>2 DEF Queued, HubOf
      <4>3. CASE Settled(i)
        <5>1. ASSUME NEW j \in Hubs, graph[i][j] > 0
              PROVE  best'[j] <= best'[i] + SegCost(i, j)
          <6>1. best[j] <= best[i] + SegCost(i, j) /\ SegCost(i, j) \in Nat
            BY <1>2, <4>3, <5>1, LinksAre DEF Settled
          <6> QED BY <1>4, <2>5, <4>1, <6>1
        <5> QED BY <1>1, <4>3, <5>1 DEF Settled, SegCost
      <4> QED BY <1>2, <2>10, <4>1, <4>2, <4>3
    <3> QED BY <3>1, <3>2, <3>3
  <2>11. SearchInv'
    <3>1. \A x \in heap' : Sane(x, best', Ways(pair'[1], Links'))
      BY <1>1, <1>5, <2>8
    <3>2. \A k \in Hubs : Cheapest(pair[1], k)' <= best'[k]
      BY <1>1, <1>5, <2>9 DEF Cheapest
    <3>3. best'[pair'[1]] = 0
      BY <1>1, <1>2, <1>3, <2>5
    <3> QED BY <1>1, <2>10, <3>1, <3>2, <3>3 DEF SearchInv, Sane, HubOf, Visited
  <2> QED BY <1>6, <2>6, <2>11 DEF RouteInv
<1> QED BY <1>7, <1>11, <1>12

\* The result of a pair, however its path is found, replaces a dearer one.
LEMMA Keep_Inv ==
    ASSUME RouteInv, pair # NoPair, NEW res, Keep(res),
           res.cost = Cheapest(pair[1], pair[2])
    PROVE  RouteInv'
<1>1. /\ route' = IF res.cost < route.cost THEN res ELSE route
      /\ pair' = NoPair /\ heap' = {} /\ best' = [h \in Hubs |-> NoCost]
      /\ UNCHANGED <<graph, priced, todo>>
  BY DEF Keep
<1>2. RouteTypes /\ pair \in Pairs \ todo /\ pair[1] \in Hubs /\ pair[2] \in Hubs
  BY PairsAre DEF RouteInv, RouteTypes
<1>3. \A x \in Costs : x \in Nat /\ x <= NoCost
  BY RouteConstants DEF Costs
<1>4. /\ res.cost \in Costs /\ route.cost \in Costs
      /\ \A p \in Pairs : Cheapest(p[1], p[2]) \in Costs
  BY <1>2, PairsAre, CheapestType DEF RouteTypes
<1>5. NoCost \in Costs
  BY RouteConstants DEF Costs
<1> HIDE DEF Costs
<1>6. /\ route'.cost \in Costs
      /\ route'.cost <= res.cost /\ route'.cost <= route.cost
      /\ route'.cost = res.cost \/ route'.cost = route.cost
  BY <1>1, <1>3, <1>4
<1>7. RouteTypes'
  BY <1>1, <1>2, <1>5, <1>6 DEF RouteTypes
<1>8. Done' = Done \union {pair} /\ Done \subseteq Pairs
  BY <1>1, <1>2, PairsAre DEF Done
<1>9. \A p \in Done' : route'.cost <= Cheapest(p[1], p[2])
  <2>1. CASE Done = {}
    BY <1>6, <1>8, <2>1
  <2>2. ASSUME NEW p \in Done PROVE route'.cost <= Cheapest(p[1], p[2])
    <3>1. route.cost <= Cheapest(p[1], p[2]) /\ p \in Pairs
      BY <1>8 DEF RouteInv, DoneInv
    <3> QED BY <1>3, <1>4, <1>6, <3>1
  <2> QED BY <1>6, <1>8, <2>2
<1>10. route'.cost = NoCost \/ \E p \in Done' : route'.cost = Cheapest(p[1], p[2])
  BY <1>6, <1>8 DEF RouteInv, DoneInv
<1>11. DoneInv'
  BY <1>1, <1>9, <1>10, CheapestStays DEF DoneInv
<1> QED BY <1>1, <1>7, <1>11 DEF RouteInv, SearchInv

\* A destination that is at the head of the queue was reached at the least cost.
LEMMA ArrivedIsLeast ==
    ASSUME RouteInv, pair # NoPair, NEW n \in heappop, HubOf(n) = pair[2]
    PROVE  best[pair[2]] = Cheapest(pair[1], pair[2])
<1>1. /\ RouteTypes /\ SearchInv
      /\ \A x \in heap : Sane(x, best, Ways(pair[1], Links))
      /\ \A k \in Hubs : Cheapest(pair[1], k) <= best[k]
  BY DEF RouteInv, SearchInv
<1>2. pair[1] \in Hubs /\ pair[2] \in Hubs /\ best[pair[2]] \in Costs
  BY <1>1, PairsAre DEF RouteTypes
<1>3. n \in heap /\ \A m \in heap : n.cost <= m.cost
  BY DEF heappop
<1>4. n.cost \in Costs /\ best[pair[2]] <= n.cost
  <2>1. Sane(n, best, Ways(pair[1], Links))
    BY <1>1, <1>3
  <2>2. Len(n.path) \in 1..Len(n.path)
    BY <2>1 DEF Sane
  <2> QED BY <2>1, <2>2, RouteConstants DEF Sane, Visited, HubOf, Costs
<1>5. best[pair[2]] <= Cheapest(pair[1], pair[2]) \/ n.cost <= Cheapest(pair[1], pair[2])
  BY <1>1, <1>2, <1>3, <1>4, FoundIsLeast
<1>6. Cheapest(pair[1], pair[2]) \in Costs /\ Cheapest(pair[1], pair[2]) <= best[pair[2]]
  BY <1>1, <1>2, CheapestType
<1> QED BY <1>2, <1>4, <1>5, <1>6, RouteConstants DEF Costs

\* The destination is reached.
LEMMA Arrive_Inv == ASSUME RouteInv, Arrive PROVE RouteInv'
<1>1. PICK n \in heappop : HubOf(n) = pair[2] /\ \E res \in Results(heap \ {n}) : Keep(res)
  BY DEF Arrive
<1>2. PICK res \in Results(heap \ {n}) : Keep(res)
  BY <1>1
<1>3. res.cost = best[pair[2]]
  BY <1>2 DEF Results
<1>4. pair # NoPair
  BY DEF Arrive
<1> QED BY <1>1, <1>2, <1>3, <1>4, ArrivedIsLeast, Keep_Inv

\* The queue ran empty.
LEMMA Unreachable_Inv == ASSUME RouteInv, Unreachable PROVE RouteInv'
<1>1. pair # NoPair /\ heap = {} /\ Keep(NoRoute)
  BY DEF Unreachable
<1>2. /\ RouteTypes /\ SearchInv
      /\ \A i \in Hubs : best[i] < NoCost => Queued(i) \/ Settled(i)
  BY <1>1 DEF RouteInv, SearchInv
<1>3. pair[1] \in Hubs /\ pair[2] \in Hubs /\ best[pair[2]] \in Costs /\ NoCost \in Costs
  BY <1>1, <1>2, PairsAre, RouteConstants DEF RouteTypes, Costs
<1>4. ~(best[pair[2]] < NoCost)
  BY <1>1, <1>2, <1>3 DEF Queued, Settled
<1>5. best[pair[2]] <= Cheapest(pair[1], pair[2]) \/ NoCost <= Cheapest(pair[1], pair[2])
  BY <1>1, <1>2, <1>3, FoundIsLeast
<1>6. Cheapest(pair[1], pair[2]) \in Costs
  BY <1>2, <1>3, CheapestType
<1>7. NoRoute.cost = NoCost
  BY DEF NoRoute
<1>8. Cheapest(pair[1], pair[2]) = NoCost
  BY <1>3, <1>4, <1>5, <1>6, RouteConstants DEF Costs
<1> QED BY <1>1, <1>7, <1>8, Keep_Inv

\* Every step keeps the invariant: one case per action of RouteNext.
LEMMA RouteNext_Inv == RouteInv /\ [RouteNext]_route_vars => RouteInv'
<1> SUFFICES ASSUME RouteInv, [RouteNext]_route_vars PROVE RouteInv'
  OBVIOUS
<1>1. CASE UNCHANGED route_vars
  <2>1. UNCHANGED <<graph, priced, todo, pair, heap, best, route>>
    BY <1>1 DEF route_vars
  <2>2. Links' = Links
    BY <2>1, LinksStay
  <2> QED BY <2>1, <2>2 DEF RouteInv, RouteTypes, SearchInv, DoneInv, Done, Queued, Settled,
                            SegCost, Cheapest, Sane, HubOf, Visited
<1> QED
  BY <1>1, StartPair_Inv, Visit_Inv, Arrive_Inv, Unreachable_Inv DEF RouteNext

\* For any hubs, connections and prices: when _dijkstra pops its destination,
\* the cost it has for it is that of the cheapest way, and the best result of
\* all pairs of hubs is the cheapest of theirs, infinite when no pair is
\* connected.
THEOREM RouteIsCheapest == RouteSpec => []TotalCostIsMinimal
<1>1. RouteInv => TotalCostIsMinimal
  <2> SUFFICES ASSUME RouteInv
               PROVE  /\ (pair # NoPair /\ \E n \in heappop : HubOf(n) = pair[2])
                            => best[pair[2]] = Cheapest(pair[1], pair[2])
                      /\ (todo = {} /\ pair = NoPair) =>
                           /\ \A p \in Pairs : route.cost <= Cheapest(p[1], p[2])
                           /\ \E p \in Pairs : route.cost = Cheapest(p[1], p[2])
    BY DEF TotalCostIsMinimal, Pairs
  <2>1. (pair # NoPair /\ \E n \in heappop : HubOf(n) = pair[2])
           => best[pair[2]] = Cheapest(pair[1], pair[2])
    BY ArrivedIsLeast
  <2>2. ASSUME todo = {}, pair = NoPair
        PROVE  /\ \A p \in Pairs : route.cost <= Cheapest(p[1], p[2])
               /\ \E p \in Pairs : route.cost = Cheapest(p[1], p[2])
    <3>1. Done = Pairs
      BY <2>2, PairsAre DEF Done
    <3>2. \A p \in Pairs : route.cost <= Cheapest(p[1], p[2])
      BY <3>1 DEF RouteInv, DoneInv
    <3>3. CASE route.cost = NoCost
      <4>1. PICK p \in Pairs : TRUE
        BY PairsAre
      <4>2. Cheapest(p[1], p[2]) \in Costs
        BY PairsAre, CheapestType DEF RouteInv
      <4>3. route.cost <= Cheapest(p[1], p[2])
        BY <3>2
      <4>4. route.cost = Cheapest(p[1], p[2])
        BY <3>3, <4>2, <4>3, RouteConstants DEF Costs
      <4> QED BY <3>2, <4>4
    <3>4. CASE route.cost # NoCost
      BY <3>1, <3>2, <3>4 DEF RouteInv, DoneInv
    <3> QED BY <3>3, <3>4
  <2> QED BY <2>1, <2>2
<1> QED
  BY <1>1, RouteInit_Inv, RouteNext_Inv, PTL DEF RouteSpec

-----------------------------------------------------------------------------
(***************************************************************************)
(* The classes of compute_abc_analysis are those of Pareto and column X is *)
(* that of the steady SKUs, for any SKUs, months and quantities.           *)
(***************************************************************************)

\* The sum of a polynomial of the second degree.
IsQuadratic(f, v, q, a, b, c, X) ==
    /\ a \in Int /\ b \in Int /\ c \in Int
    /\ \A m \in X : /\ v[m] \in Int
                    /\ q[m] = v[m] * v[m]
                    /\ f[m] = (a * q[m] + b * v[m]) + c

\* It is the polynomial of the sums.
LEMMA SumQuadratic ==
    ASSUME NEW X, IsFiniteSet(X), NEW f, NEW v, NEW q, NEW a, NEW b, NEW c,
           IsQuadratic(f, v, q, a, b, c, X)
    PROVE  SumFunctionOnSet(f, X)
             = (a * SumFunctionOnSet(q, X) + b * SumFunctionOnSet(v, X)) + Cardinality(X) * c
<1> DEFINE aq == [m \in X |-> a * q[m]]
           bv == [m \in X |-> b * v[m]]
           ab == [m \in X |-> aq[m] + bv[m]]
           cc == [m \in X |-> c]
<1>0. /\ a \in Int /\ b \in Int /\ c \in Int
      /\ \A m \in X : /\ v[m] \in Int
                      /\ q[m] = v[m] * v[m]
                      /\ f[m] = (a * q[m] + b * v[m]) + c
  BY DEF IsQuadratic
<1>1. \A m \in X : q[m] \in Int
  <2> TAKE m \in X
  <2>1. v[m] \in Int /\ q[m] = v[m] * v[m]
    BY <1>0
  <2> QED BY <2>1
<1>2. \A m \in X : aq[m] \in Int /\ aq[m] = a * q[m]
  <2> TAKE m \in X
  <2>1. q[m] \in Int /\ aq[m] = a * q[m]
    BY <1>1
  <2> HIDE DEF aq
  <2> QED BY <1>0, <2>1
<1>3. \A m \in X : bv[m] \in Int /\ bv[m] = b * v[m]
  <2> TAKE m \in X
  <2>1. v[m] \in Int /\ bv[m] = b * v[m]
    BY <1>0
  <2> HIDE DEF bv
  <2> QED BY <1>0, <2>1
<1>4. /\ \A m \in X : ab[m] = aq[m] + bv[m]
      /\ \A m \in X : cc[m] = c
  OBVIOUS
<1> HIDE DEF aq, bv, ab, cc
<1>5. \A m \in X : ab[m] \in Int /\ cc[m] \in Int
  BY <1>0, <1>2, <1>3, <1>4
<1>6. \A m \in X : f[m] = ab[m] + cc[m]
  BY <1>0, <1>2, <1>3, <1>4
<1>7. SumFunctionOnSet(aq, X) = a * SumFunctionOnSet(q, X)
  BY <1>0, <1>1, <1>2, SumTimes
<1>8. SumFunctionOnSet(bv, X) = b * SumFunctionOnSet(v, X)
  BY <1>0, <1>3, SumTimes
<1>9. SumFunctionOnSet(ab, X) = SumFunctionOnSet(aq, X) + SumFunctionOnSet(bv, X)
  BY <1>2, <1>3, <1>4, SumPlus
<1>10. SumFunctionOnSet(cc, X) = Cardinality(X) * c
  BY <1>0, <1>4, SumConstant
<1>11. SumFunctionOnSet(f, X) = SumFunctionOnSet(ab, X) + SumFunctionOnSet(cc, X)
  BY <1>5, <1>6, SumPlus
<1> QED BY <1>7, <1>8, <1>9, <1>10, <1>11

\* The squares of the distances from the mean, against those of the months
\* from one another.
LEMMA SpreadByDifferences ==
    ASSUME NEW X, IsFiniteSet(X), NEW v, \A m \in X : v[m] \in Int,
           NEW n, n = Cardinality(X), NEW S, S = SumFunctionOnSet(v, X),
           NEW f, \A m \in X : f[m] = Square(n * v[m] - S),
           NEW e, NEW d,
           \A m \in X : /\ \A k \in X : e[m][k] = Square(v[m] - v[k])
                        /\ d[m] = SumFunctionOnSet(e[m], X)
    PROVE  /\ 2 * SumFunctionOnSet(f, X) = n * SumFunctionOnSet(d, X)
           /\ SumFunctionOnSet(f, X) \in Int /\ SumFunctionOnSet(d, X) \in Int
<1> DEFINE q == [m \in X |-> v[m] * v[m]]
           Q == SumFunctionOnSet(q, X)
<1>1. n \in Int /\ S \in Int
  BY SumType, FS_CardinalityType
<1>2. \A m \in X : q[m] = v[m] * v[m]
  OBVIOUS
<1> HIDE DEF q
<1>3. \A m \in X : q[m] \in Int
  <2> TAKE m \in X
  <2>1. v[m] \in Int /\ q[m] = v[m] * v[m]
    BY <1>2
  <2> QED BY <2>1
<1>4. Q \in Int
  BY <1>3, SumType
<1> HIDE DEF Q
<1> DEFINE fb == 0 - 2 * (n * S)
           db == 0 - 2 * S
<1>5. n * n \in Int /\ fb \in Int /\ S * S \in Int /\ db \in Int
  BY <1>1
<1>6. ASSUME NEW m \in X PROVE f[m] = ((n * n) * q[m] + fb * v[m]) + S * S
  <2> DEFINE x == v[m]
  <2>1. x \in Int /\ q[m] = x * x /\ f[m] = (n * x - S) * (n * x - S)
    BY <1>2 DEF Square
  <2> HIDE DEF x
  <2>2. (n * x - S) * (n * x - S) = ((n * n) * (x * x) + fb * x) + S * S
    BY <1>1, <2>1
  <2> QED BY <2>1, <2>2 DEF x
<1> HIDE DEF fb
<1>7. SumFunctionOnSet(f, X) = ((n * n) * Q + fb * S) + n * (S * S)
  <2> DEFINE a == n * n
             c == S * S
  <2>1. a \in Int /\ c \in Int /\ \A m \in X : f[m] = (a * q[m] + fb * v[m]) + c
    BY <1>5, <1>6
  <2> HIDE DEF a, c
  <2>2. SumFunctionOnSet(f, X) = (a * SumFunctionOnSet(q, X) + fb * SumFunctionOnSet(v, X))
                                 + Cardinality(X) * c
    <3>1. IsQuadratic(f, v, q, a, fb, c, X)
      BY <1>2, <1>5, <2>1 DEF IsQuadratic
    <3> QED BY <3>1, SumQuadratic
  <2> QED BY <2>2 DEF a, c, Q
<1>8. ASSUME NEW m \in X PROVE d[m] = (n * q[m] + db * v[m]) + Q
  <2> DEFINE x == v[m]
             b == 0 - 2 * x
             c == x * x
             g == e[m]
  <2>1. x \in Int /\ c = q[m] /\ d[m] = SumFunctionOnSet(g, X)
    BY <1>2
  <2>2. b \in Int /\ c \in Int
    BY <2>1
  <2>3. ASSUME NEW k \in X PROVE g[k] = (1 * q[k] + b * v[k]) + c
    <3> DEFINE y == v[k]
    <3>1. y \in Int /\ q[k] = y * y /\ g[k] = (x - y) * (x - y)
      BY <1>2 DEF Square
    <3> HIDE DEF x, y, g
    <3>2. (x - y) * (x - y) = (1 * (y * y) + (0 - 2 * x) * y) + x * x
      BY <2>1, <3>1
    <3> QED BY <3>1, <3>2 DEF y
  <2> HIDE DEF b, c, g
  <2>4. SumFunctionOnSet(g, X) = (1 * SumFunctionOnSet(q, X) + b * SumFunctionOnSet(v, X))
                                 + Cardinality(X) * c
    <3>1. IsQuadratic(g, v, q, 1, b, c, X)
      BY <1>2, <2>2, <2>3 DEF IsQuadratic
    <3> QED BY <3>1, SumQuadratic
  <2>5. d[m] = (1 * Q + b * S) + n * c
    BY <2>1, <2>4 DEF Q
  <2> HIDE DEF x
  <2>6. (1 * Q + (0 - 2 * x) * S) + n * c = (n * c + (0 - 2 * S) * x) + Q
    BY <1>1, <1>4, <2>1, <2>2
  <2> QED BY <2>1, <2>5, <2>6 DEF b, x
<1> HIDE DEF db
<1>9. SumFunctionOnSet(d, X) = (n * Q + db * S) + n * Q
  <2>1. SumFunctionOnSet(d, X) = (n * SumFunctionOnSet(q, X) + db * SumFunctionOnSet(v, X))
                                 + Cardinality(X) * Q
    <3>1. IsQuadratic(d, v, q, n, db, Q, X)
      BY <1>1, <1>2, <1>4, <1>5, <1>8 DEF IsQuadratic
    <3> QED BY <3>1, SumQuadratic
  <2> QED BY <2>1 DEF Q
<1>10. 2 * (((n * n) * Q + (0 - 2 * (n * S)) * S) + n * (S * S))
         = n * ((n * Q + (0 - 2 * S) * S) + n * Q)
  BY <1>1, <1>4
<1>11. SumFunctionOnSet(f, X) \in Int /\ SumFunctionOnSet(d, X) \in Int
  <2>1. \A x, y \in Int : x * y \in Int
    OBVIOUS
  <2> QED BY <1>1, <1>4, <1>5, <1>7, <1>9, <2>1
<1> QED BY <1>7, <1>9, <1>10, <1>11 DEF fb, db

-----------------------------------------------------------------------------
\* W are the ranked rows R up to a limit: they stay within it, no other row is
\* larger than one of them, and the first that is not among them would exceed
\* the limit.
TakesLargest(W, R, tot, lim) ==
    /\ lim \in Int
    /\ 100 * SumFunctionOnSet(tot, W) <= lim
    /\ \A x \in R \ W, t \in W : tot[x] <= tot[t]
    /\ W = R \/ \E x \in R \ W : 100 * (SumFunctionOnSet(tot, W) + tot[x]) > lim

\* With the next row, which is no larger than those before, it stays so.
LEMMA LargestGrows ==
    ASSUME NEW R, IsFiniteSet(R), NEW W \in SUBSET R, NEW s, s \notin R,
           NEW tot, \A x \in R \union {s} : tot[x] \in Nat,
           \A x \in R : tot[s] <= tot[x],
           NEW lim, TakesLargest(W, R, tot, lim),
           NEW V, V = IF 100 * (SumFunctionOnSet(tot, R) + tot[s]) <= lim
                      THEN W \union {s} ELSE W
    PROVE  TakesLargest(V, R \union {s}, tot, lim)
<1>1. /\ lim \in Int
      /\ 100 * SumFunctionOnSet(tot, W) <= lim
      /\ \A x \in R \ W, t \in W : tot[x] <= tot[t]
      /\ W = R \/ \E x \in R \ W : 100 * (SumFunctionOnSet(tot, W) + tot[x]) > lim
  BY DEF TakesLargest
<1> DEFINE T(S) == SumFunctionOnSet(tot, S)
<1>2. IsFiniteSet(W) /\ s \notin W
  BY FS_Subset
<1>3. \A x \in R : tot[x] \in Nat /\ tot[x] \in Int
  OBVIOUS
<1>4. tot[s] \in Nat /\ T(R) \in Nat /\ T(W) \in Nat
  BY <1>2, <1>3, SumNat
<1>5. T(R \union {s}) = tot[s] + T(R)
  <2>1. \A y \in R \union {s} : tot[y] \in Int
    OBVIOUS
  <2> QED BY <2>1, SumAdd
<1>6. CASE 100 * (T(R) + tot[s]) <= lim
  <2>1. W = R
    <3> SUFFICES ASSUME NEW x \in R \ W, 100 * (T(W) + tot[x]) > lim PROVE FALSE
      BY <1>1
    <3>1. T(W \union {x}) = tot[x] + T(W)
      <4>1. x \notin W /\ \A y \in W \union {x} : tot[y] \in Int
        BY <1>3
      <4> QED BY <1>2, <4>1, SumAdd
    <3>2. T(W \union {x}) <= T(R)
      <4>1. W \union {x} \in SUBSET R
        OBVIOUS
      <4> QED BY <1>3, <4>1, SumSubset
    <3> HIDE DEF T
    <3> QED BY <1>1, <1>3, <1>4, <1>6, <3>1, <3>2
  <2>2. V = R \union {s}
    BY <1>6, <2>1
  <2>3. 100 * T(V) <= lim
    <3>1. T(V) = tot[s] + T(R)
      BY <1>5, <2>2
    <3>2. tot[s] + T(R) = T(R) + tot[s]
      BY <1>4
    <3> QED BY <1>6, <3>1, <3>2
  <2> QED BY <1>1, <2>2, <2>3 DEF TakesLargest
<1>7. CASE ~(100 * (T(R) + tot[s]) <= lim)
  <2>1. V = W
    BY <1>7
  <2>2. \A x \in (R \union {s}) \ W, t \in W : tot[x] <= tot[t]
    BY <1>1
  <2>3. \E x \in (R \union {s}) \ W : 100 * (T(W) + tot[x]) > lim
    <3>1. CASE W = R
      <4>1. s \in (R \union {s}) \ W
        BY <1>2
      <4>2. 100 * (T(W) + tot[s]) > lim
        <5> HIDE DEF T
        <5> QED BY <1>1, <1>4, <1>7, <3>1
      <4> QED BY <4>1, <4>2
    <3>2. CASE W # R
      BY <1>1, <3>2
    <3> QED BY <3>1, <3>2
  <2> QED BY <1>1, <2>1, <2>2, <2>3 DEF TakesLargest
<1> QED BY <1>6, <1>7

-----------------------------------------------------------------------------
Totals == [s \in Skus |-> Total(s)]
Limit80 == 80 * TotalOf(Rows)
Limit95 == 95 * TotalOf(Rows)
Within(cats) == {s \in Rows : s \in Ranked /\ abc[s] \in cats}

\* The types.
AbcTypes ==
    /\ moved \in [Skus -> [Months -> Nat]]
    /\ Ranked \subseteq Rows
    /\ \A s \in Ranked : abc[s] \in {"A", "B", "C"}
    /\ \A s \in DOMAIN matrix : matrix[s] \in {"A", "B", "C"} \X {"X", "Y", "Z"}

\* The rows are ranked from the largest on.
LargestFirst == \A s \in Ranked, t \in Rows \ Ranked : Total(t) <= Total(s)

\* Column X is that of the steady SKUs.
MatrixInv == \A s \in DOMAIN matrix : s \in Skus /\ (matrix[s][2] = "X" <=> Steady(s))

\* The inductive invariant: what is in A, and in A and B, of the rows ranked so
\* far is a largest prefix within its limit.
AbcInv ==
    /\ AbcTypes /\ LargestFirst /\ MatrixInv
    /\ TakesLargest(Within({"A"}), Ranked, Totals, Limit80)
    /\ TakesLargest(Within({"A", "B"}), Ranked, Totals, Limit95)

\* The totals are natural numbers.
LEMMA TotalsAre ==
    ASSUME AbcTypes
    PROVE  /\ \A s \in Skus : Total(s) \in Nat /\ Totals[s] = Total(s)
           /\ Rows \subseteq Skus
           /\ \A S \in SUBSET Skus : /\ IsFiniteSet(S)
                                     /\ TotalOf(S) \in Nat
                                     /\ TotalOf(S) = SumFunctionOnSet(Totals, S)
<1>1. \A s \in Skus : Total(s) \in Nat
  <2> TAKE s \in Skus
  <2>1. IsFiniteSet(Months) /\ \A m \in Months : moved[s][m] \in Nat
    BY AbcAssumption DEF AbcTypes
  <2> QED BY <2>1, SumNat DEF Total
<1>2. Rows \subseteq Skus
  BY DEF Rows
<1>3. \A s \in Skus : Totals[s] = Total(s)
  BY DEF Totals
<1>4. ASSUME NEW S \in SUBSET Skus
      PROVE  IsFiniteSet(S) /\ TotalOf(S) \in Nat /\ TotalOf(S) = SumFunctionOnSet(Totals, S)
  <2>1. IsFiniteSet(S)
    BY AbcAssumption, FS_Subset
  <2>2. TotalOf(S) = SumFunctionOnSet(Totals, S)
    BY DEF TotalOf, Totals
  <2>3. \A s \in S : Totals[s] \in Nat
    BY <1>1, <1>3
  <2> QED BY <2>1, <2>2, <2>3, SumNat
<1> QED BY <1>1, <1>2, <1>3, <1>4

\* No step changes them.
LEMMA TotalsStay ==
    ASSUME moved' = moved
    PROVE  /\ Totals' = Totals /\ Rows' = Rows /\ TotalOf(Rows)' = TotalOf(Rows)
           /\ Limit80' = Limit80 /\ Limit95' = Limit95
           /\ \A s : Total(s)' = Total(s) /\ Steady(s)' = Steady(s)
           /\ \A S : TotalOf(S)' = TotalOf(S)
<1>1. \A s : Total(s)' = Total(s) /\ Sold(s)' = Sold(s)
  BY DEF Total, Sold
<1>2. Totals' = Totals /\ Rows' = Rows
  BY <1>1 DEF Totals, Rows
<1>3. \A S : TotalOf(S)' = TotalOf(S)
  BY <1>1 DEF TotalOf
<1>4. TotalOf(Rows)' = TotalOf(Rows)
  BY <1>1, <1>2 DEF TotalOf
<1>5. \A s : Steady(s)' = Steady(s)
  <2> TAKE s
  <2>1. Differences(s)' = Differences(s)
    BY <1>1 DEF Differences
  <2> QED BY <1>1, <2>1 DEF Steady
<1> QED BY <1>1, <1>2, <1>3, <1>4, <1>5 DEF Limit80, Limit95

\* Initially no row is ranked.
LEMMA AbcInit_Inv == AbcInit => AbcInv
<1> SUFFICES ASSUME AbcInit PROVE AbcInv
  OBVIOUS
<1>1. moved \in [Skus -> [Months -> Nat]]
  BY AbcAssumption DEF AbcInit
<1>2. Ranked = {} /\ DOMAIN matrix = {}
  BY DEF AbcInit, Ranked
<1>3. AbcTypes /\ LargestFirst /\ MatrixInv
  BY <1>1, <1>2 DEF AbcTypes, LargestFirst, MatrixInv
<1>4. Limit80 \in Nat /\ Limit95 \in Nat
  BY <1>3, TotalsAre DEF Limit80, Limit95
<1>5. SumFunctionOnSet(Totals, {}) = 0
  BY SumEmpty
<1>6. \A cats : Within(cats) = {}
  BY <1>2 DEF Within
<1>7. \A lim : lim \in Nat => TakesLargest({}, {}, Totals, lim)
  BY <1>5 DEF TakesLargest
<1> QED BY <1>2, <1>3, <1>4, <1>6, <1>7 DEF AbcInv

\* The next row goes to the first class that has room for it.
LEMMA RankNext_Inv == ASSUME AbcInv, NEW s \in Skus, RankNext(s) PROVE AbcInv'
<1>1. /\ s \in Rows \ Ranked
      /\ \A t \in Rows \ Ranked : Total(t) <= Total(s)
      /\ moved' = moved /\ matrix' = matrix
  BY DEF RankNext
<1> DEFINE cum == TotalOf(Ranked) + Total(s)
<1>2. abc' = [t \in Ranked \union {s} |-> IF t = s THEN abc_category(cum) ELSE abc[t]]
  BY DEF RankNext, compute_abc_analysis
<1>3. Ranked' = Ranked \union {s}
  BY <1>2 DEF Ranked
<1>4. /\ Totals' = Totals /\ Rows' = Rows
      /\ Limit80' = Limit80 /\ Limit95' = Limit95
      /\ \A t : Total(t)' = Total(t) /\ Steady(t)' = Steady(t)
  BY <1>1, TotalsStay
<1>5. /\ AbcTypes /\ LargestFirst /\ MatrixInv
      /\ TakesLargest(Within({"A"}), Ranked, Totals, Limit80)
      /\ TakesLargest(Within({"A", "B"}), Ranked, Totals, Limit95)
  BY DEF AbcInv
<1>6. /\ Ranked \in SUBSET Skus /\ IsFiniteSet(Ranked) /\ Rows \subseteq Skus
      /\ TotalOf(Ranked) \in Nat /\ TotalOf(Ranked) = SumFunctionOnSet(Totals, Ranked)
      /\ \A t \in Skus : Total(t) \in Nat /\ Totals[t] = Total(t)
      /\ TotalOf(Rows) \in Nat
  BY <1>5, TotalsAre DEF AbcTypes
<1>7. abc_category(cum) \in {"A", "B", "C"}
  BY DEF abc_category
<1>8. /\ abc_category(cum) \in {"A"} <=> 100 * cum <= Limit80
      /\ abc_category(cum) \in {"A", "B"} <=> 100 * cum <= Limit95
  <2>1. cum \in Nat
    BY <1>6
  <2> HIDE DEF cum
  <2> QED BY <1>6, <2>1 DEF abc_category, Limit80, Limit95
<1> DEFINE new == abc_category(cum)
<1> HIDE DEF new
<1>9. \A t \in Ranked' : abc'[t] = IF t = s THEN new ELSE abc[t]
  BY <1>2, <1>3 DEF new
<1>10. AbcTypes'
  <2>1. Ranked' \subseteq Rows'
    BY <1>1, <1>3, <1>4, <1>5 DEF AbcTypes
  <2>2. \A t \in Ranked' : abc'[t] \in {"A", "B", "C"}
    BY <1>3, <1>5, <1>7, <1>9 DEF AbcTypes, new
  <2> QED BY <1>1, <1>5, <2>1, <2>2 DEF AbcTypes
<1>11. LargestFirst'
  <2> SUFFICES ASSUME NEW x \in Ranked', NEW t \in Rows' \ Ranked' PROVE Total(t)' <= Total(x)'
    BY DEF LargestFirst
  <2> QED BY <1>1, <1>3, <1>4, <1>5 DEF LargestFirst
<1>12. MatrixInv'
  BY <1>1, <1>4, <1>5 DEF MatrixInv
<1>13. \A cats : Within(cats)' = IF new \in cats THEN Within(cats) \union {s} ELSE Within(cats)
  <2> TAKE cats
  <2>1. Within(cats)' = {t \in Rows : t \in Ranked' /\ abc'[t] \in cats}
    BY <1>4 DEF Within
  <2> QED BY <1>1, <1>3, <1>9, <2>1 DEF Within
<1>14. \A cats : Within(cats) \in SUBSET Ranked
  BY DEF Within
<1>15. ASSUME NEW cats, NEW lim, TakesLargest(Within(cats), Ranked, Totals, lim),
              new \in cats <=> 100 * cum <= lim
       PROVE  TakesLargest(Within(cats)', Ranked', Totals', lim)
  <2> DEFINE R == Ranked
             W == Within(cats)
             V == Within(cats)'
             tot == Totals
  <2>1. IsFiniteSet(R) /\ W \in SUBSET R /\ s \notin R /\ TakesLargest(W, R, tot, lim)
    BY <1>1, <1>6, <1>14, <1>15
  <2>2. \A x \in R \union {s} : tot[x] \in Nat
    BY <1>6
  <2>3. \A x \in R : tot[s] <= tot[x]
    BY <1>1, <1>5, <1>6 DEF LargestFirst
  <2>4. V = IF 100 * (SumFunctionOnSet(tot, R) + tot[s]) <= lim THEN W \union {s} ELSE W
    BY <1>6, <1>13, <1>15
  <2> HIDE DEF R, W, V, tot
  <2>5. TakesLargest(V, R \union {s}, tot, lim)
    BY <2>1, <2>2, <2>3, <2>4, LargestGrows
  <2> QED BY <1>3, <1>4, <2>5 DEF R, V, tot
<1>16. /\ TakesLargest(Within({"A"})', Ranked', Totals', Limit80)
       /\ TakesLargest(Within({"A", "B"})', Ranked', Totals', Limit95)
  BY <1>5, <1>8, <1>15 DEF new
<1> QED BY <1>4, <1>10, <1>11, <1>12, <1>16 DEF AbcInv

\* The coefficient of variation is small when the months differ little.
LEMMA SteadyIsX ==
    ASSUME AbcTypes, NEW s \in Rows
    PROVE  Steady(s) <=> Cardinality(Sold(s)) < 2 \/ cv_category(s) = "X"
<1> DEFINE X == Sold(s)
           n == Cardinality(X)
           v == moved[s]
           S == Total(s)
           f == [m \in Months |-> Square(n * v[m] - S)]
           e == [m \in Months |-> [k \in Months |-> Square(v[m] - v[k])]]
           d == [m \in Months |-> SumFunctionOnSet(e[m], X)]
<1>1. X \in SUBSET Months /\ IsFiniteSet(X) /\ IsFiniteSet(Months) /\ s \in Skus
  BY AbcAssumption, FS_Subset DEF Sold, Rows
<1>2. \A m \in Months : v[m] \in Nat /\ v[m] \in Int
  BY <1>1 DEF AbcTypes
<1>3. S = SumFunctionOnSet(v, X)
  <2> DEFINE Rest == Months \ X
  <2>1. X \union Rest = Months /\ X \intersect Rest = {} /\ IsFiniteSet(Rest)
    BY <1>1, FS_Subset
  <2>2. \A m \in Rest : v[m] = 0
    BY <1>2 DEF Sold
  <2>3. \A m \in X \union Rest : v[m] \in Int
    BY <1>2, <2>1
  <2> HIDE DEF Rest, v, X
  <2>4. SumFunctionOnSet(v, Rest) = 0
    BY <2>1, <2>2, SumZero
  <2>5. SumFunctionOnSet(v, X \union Rest) = SumFunctionOnSet(v, X) + SumFunctionOnSet(v, Rest)
    BY <1>1, <2>1, <2>3, SumUnion
  <2>6. SumFunctionOnSet(v, X) \in Int
    BY <1>1, <2>3, SumType
  <2>7. Total(s) = SumFunctionOnSet(v, Months)
    BY DEF Total, v
  <2> QED BY <2>1, <2>4, <2>5, <2>6, <2>7
<1>4. Spread(s) = SumFunctionOnSet(f, X)
  BY DEF Spread
<1>5. Differences(s) = SumFunctionOnSet(d, X)
  <2>1. \A m \in Months : e[m] = [k \in Months |-> Square(v[m] - v[k])]
    OBVIOUS
  <2>2. d = [m \in Months |-> SumFunctionOnSet([k \in Months |-> Square(v[m] - v[k])], X)]
    BY <2>1
  <2> QED BY <2>2 DEF Differences
<1>6. \A m \in X : f[m] = Square(n * v[m] - S)
  BY <1>1
<1>7. \A m \in X : /\ \A k \in X : e[m][k] = Square(v[m] - v[k])
                   /\ d[m] = SumFunctionOnSet(e[m], X)
  BY <1>1
<1>8. n \in Nat /\ S \in Nat
  BY <1>1, FS_CardinalityType, TotalsAre
<1>9. Steady(s) <=> n < 2 \/ 4 * (n * Differences(s)) < 2 * ((n - 1) * Square(S))
  BY DEF Steady
<1>10. cv_category(s) = "X" <=> 4 * Spread(s) < (n - 1) * Square(S)
  BY DEF cv_category
<1>11. \A m \in X : v[m] \in Int
  BY <1>1, <1>2
<1> DEFINE F == SumFunctionOnSet(f, X)
           D == SumFunctionOnSet(d, X)
           q == (n - 1) * Square(S)
<1>12. n = Cardinality(X)
  OBVIOUS
<1>13. q \in Int
  <2>1. n - 1 \in Int /\ S * S \in Int
    BY <1>8
  <2> QED BY <2>1 DEF Square
<1> HIDE DEF X, n, v, S, f, e, d
<1>14. 2 * F = n * D /\ F \in Int /\ D \in Int
  BY <1>1, <1>3, <1>6, <1>7, <1>11, <1>12, SpreadByDifferences
<1> HIDE DEF F, D, q
<1>15. 4 * F < q <=> 4 * (2 * F) < 2 * q
  BY <1>13, <1>14
<1> QED BY <1>4, <1>5, <1>9, <1>10, <1>14, <1>15 DEF F, D, q, n, X

\* The matrix has its columns from cv_category.
LEMMA Matrix_Inv == ASSUME AbcInv, compute_abc_xyz_matrix PROVE AbcInv'
<1> DEFINE xyz == compute_xyz_analysis
           column(s) == IF s \in DOMAIN xyz THEN xyz[s] ELSE "X"
<1>1. /\ Ranked = Rows /\ moved' = moved /\ abc' = abc
      /\ matrix' = [s \in Rows |-> <<abc[s], column(s)>>]
  BY DEF compute_abc_xyz_matrix
<1>2. /\ AbcTypes /\ LargestFirst
      /\ TakesLargest(Within({"A"}), Ranked, Totals, Limit80)
      /\ TakesLargest(Within({"A", "B"}), Ranked, Totals, Limit95)
  BY DEF AbcInv
<1>3. /\ Totals' = Totals /\ Rows' = Rows
      /\ Limit80' = Limit80 /\ Limit95' = Limit95
      /\ \A t : Total(t)' = Total(t) /\ Steady(t)' = Steady(t)
  BY <1>1, TotalsStay
<1>4. Ranked' = Ranked /\ \A cats : Within(cats)' = Within(cats)
  BY <1>1, <1>3 DEF Ranked, Within
<1>5. DOMAIN matrix' = Rows /\ \A s \in Rows : matrix'[s] = <<abc[s], column(s)>>
  BY <1>1
<1>6. \A s : s \in DOMAIN xyz <=> s \in Rows /\ Cardinality(Sold(s)) >= 2
  BY DEF compute_xyz_analysis
<1>7. \A s \in DOMAIN xyz : xyz[s] = cv_category(s)
  BY DEF compute_xyz_analysis
<1> HIDE DEF xyz
<1>8. \A s \in Rows : column(s) \in {"X", "Y", "Z"} /\ (column(s) = "X" <=> Steady(s))
  <2> TAKE s \in Rows
  <2>1. cv_category(s) \in {"X", "Y", "Z"}
    BY DEF cv_category
  <2>2. Cardinality(Sold(s)) \in Nat
    <3>1. Sold(s) \subseteq Months
      BY DEF Sold
    <3> QED BY <3>1, AbcAssumption, FS_Subset, FS_CardinalityType
  <2>3. Steady(s) <=> Cardinality(Sold(s)) < 2 \/ cv_category(s) = "X"
    BY <1>2, SteadyIsX
  <2> QED BY <1>6, <1>7, <2>1, <2>2, <2>3
<1> HIDE DEF column
<1>9. \A s \in Rows : /\ matrix'[s] \in {"A", "B", "C"} \X {"X", "Y", "Z"}
                      /\ matrix'[s][2] = column(s)
  BY <1>1, <1>2, <1>5, <1>8 DEF AbcTypes
<1>10. AbcTypes'
  BY <1>1, <1>2, <1>3, <1>4, <1>5, <1>9 DEF AbcTypes
<1>11. LargestFirst'
  BY <1>2, <1>3, <1>4 DEF LargestFirst
<1>12. MatrixInv'
  <2> SUFFICES ASSUME NEW s \in Rows PROVE s \in Skus /\ (matrix'[s][2] = "X" <=> Steady(s)')
    BY <1>5 DEF MatrixInv
  <2> QED BY <1>3, <1>8, <1>9 DEF Rows
<1> QED BY <1>2, <1>3, <1>4, <1>10, <1>11, <1>12 DEF AbcInv

\* Every step keeps the invariant: one case per action of AbcNext.
LEMMA AbcNext_Inv == AbcInv /\ [AbcNext]_abc_vars => AbcInv'
<1> SUFFICES ASSUME AbcInv, [AbcNext]_abc_vars PROVE AbcInv'
  OBVIOUS
<1>1. CASE UNCHANGED abc_vars
  <2>1. moved' = moved /\ abc' = abc /\ matrix' = matrix
    BY <1>1 DEF abc_vars
  <2>2. /\ Totals' = Totals /\ Rows' = Rows
        /\ Limit80' = Limit80 /\ Limit95' = Limit95
        /\ \A t : Total(t)' = Total(t) /\ Steady(t)' = Steady(t)
    BY <2>1, TotalsStay
  <2>3. Ranked' = Ranked /\ \A cats : Within(cats)' = Within(cats)
    BY <2>1, <2>2 DEF Ranked, Within
  <2> QED BY <2>1, <2>2, <2>3 DEF AbcInv, AbcTypes, LargestFirst, MatrixInv
<1> QED BY <1>1, RankNext_Inv, Matrix_Inv DEF AbcNext

\* For any number of SKUs, months and quantities, and whichever way SQL orders
\* equal rows: the categories of compute_abc_analysis are the classes of
\* Pareto, and column X of the matrix holds the SKUs whose months differ
\* little from one another.
THEOREM ClassesArePareto == AbcSpec => []ParetoClasses
<1>1. AbcInv => ParetoClasses
  <2> DEFINE largest(cats, percent) ==
               /\ 100 * TotalOf(Within(cats)) <= percent * TotalOf(Rows)
               /\ \A s \in Rows \ Within(cats) :
                     /\ \A t \in Within(cats) : Total(s) <= Total(t)
                     /\ (\A t \in Rows \ Within(cats) : Total(t) <= Total(s))
                           => 100 * (TotalOf(Within(cats)) + Total(s)) > percent * TotalOf(Rows)
  <2> SUFFICES ASSUME AbcInv
               PROVE  /\ Ranked = Rows => largest({"A"}, 80) /\ largest({"A", "B"}, 95)
                      /\ \A s \in DOMAIN matrix : (matrix[s][2] = "X") <=> Steady(s)
    BY DEF ParetoClasses, Within
  <2>1. AbcTypes /\ Rows \subseteq Skus /\ \A s \in Skus : Total(s) \in Nat /\ Totals[s] = Total(s)
    BY TotalsAre DEF AbcInv
  <2>2. ASSUME Ranked = Rows, NEW cats, NEW percent,
               TakesLargest(Within(cats), Ranked, Totals, percent * TotalOf(Rows))
        PROVE  largest(cats, percent)
    <3> DEFINE W == Within(cats)
               lim == percent * TotalOf(Rows)
    <3>1. W \subseteq Rows /\ W \in SUBSET Skus
      BY <2>1 DEF Within
    <3>2. TotalOf(W) = SumFunctionOnSet(Totals, W) /\ TotalOf(W) \in Nat
      BY <2>1, <3>1, TotalsAre
    <3>3. /\ lim \in Int
          /\ 100 * TotalOf(W) <= lim
          /\ \A x \in Rows \ W, t \in W : Totals[x] <= Totals[t]
          /\ W = Rows \/ \E x \in Rows \ W : 100 * (TotalOf(W) + Totals[x]) > lim
      BY <2>2, <3>2 DEF TakesLargest
    <3> HIDE DEF W, lim
    <3>4. ASSUME NEW s \in Rows \ W, \A t \in Rows \ W : Total(t) <= Total(s)
          PROVE  100 * (TotalOf(W) + Total(s)) > lim
      <4>1. PICK x \in Rows \ W : 100 * (TotalOf(W) + Totals[x]) > lim
        BY <3>3
      <4>2. Totals[x] = Total(x) /\ Total(x) \in Nat /\ Total(s) \in Nat /\ Total(x) <= Total(s)
        BY <2>1, <3>4
      <4> QED BY <3>2, <3>3, <4>1, <4>2
    <3>5. \A x \in Rows \ W, t \in W : Total(x) <= Total(t)
      BY <2>1, <3>1, <3>3
    <3> QED BY <3>3, <3>4, <3>5 DEF W, lim
  <2>3. Ranked = Rows => largest({"A"}, 80) /\ largest({"A", "B"}, 95)
    <3>1. /\ TakesLargest(Within({"A"}), Ranked, Totals, 80 * TotalOf(Rows))
          /\ TakesLargest(Within({"A", "B"}), Ranked, Totals, 95 * TotalOf(Rows))
      BY DEF AbcInv, Limit80, Limit95
    <3> HIDE DEF largest
    <3> QED BY <2>2, <3>1
  <2> QED BY <2>3 DEF AbcInv, MatrixInv
<1> QED
  BY <1>1, AbcInit_Inv, AbcNext_Inv, PTL DEF AbcSpec

=============================================================================
