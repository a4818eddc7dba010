----------------------------- MODULE RoutePlan -----------------------------
(***************************************************************************)
(* _find_best_route_plan_impl and _dijkstra of src/tms/service.py: the     *)
(* cheapest connection between a hub of the pickup city and a hub of the   *)
(* delivery city.  One action is one turn of a loop.  Costs are counted in *)
(* halves of a currency unit, so that 0.5 per kilometre is a whole number; *)
(* the hours of a connection behave like its distance and are left out.    *)
(***************************************************************************)
EXTENDS Naturals, Sequences, FiniteSetsExt

CONSTANTS
    Hubs,            \* hub codes
    OriginHubs,      \* list_hubs of the pickup city
    DestHubs,        \* list_hubs of the delivery city
    Distances,       \* distances of a connection, in kilometres, positive
    FlatCost,        \* weight_kg * cheapest price_per_kg of the two cities
    NoCost           \* Decimal("Infinity"): above every sum of costs

ASSUME RouteAssumption ==
    /\ IsFiniteSet(Hubs)
    /\ OriginHubs \subseteq Hubs /\ OriginHubs # {}   \* or NotFoundException
    /\ DestHubs \subseteq Hubs /\ DestHubs # {}
    /\ Distances \subseteq Nat \ {0}
    /\ FlatCost \in Nat
    /\ NoCost \in Nat
    /\ \A c \in Distances \union {FlatCost} : Cardinality(Hubs) * c < NoCost

VARIABLES
    graph,       \* hub_connections: the distance from hub to hub, 0 when there is none
    priced,      \* a carrier route between the two cities has a price
    todo,        \* the pairs of hubs the two nested loops have not reached
    pair,        \* the pair _dijkstra is working on
    heap,        \* its priority queue
    best,        \* its best[hub], or NoCost
    route        \* best_result

route_vars == <<graph, priced, todo, pair, heap, best, route>>

NoPair == <<>>
NoRoute == [path |-> <<>>, distance |-> 0, cost |-> NoCost]

Node(cost, path, distance) == [cost |-> cost, path |-> path, distance |-> distance]
HubOf(node) == node.path[Len(node.path)]

RouteInit ==
    /\ graph \in [Hubs -> [Hubs -> Distances \union {0}]]
    /\ \A h \in Hubs : graph[h][h] = 0
    /\ priced \in BOOLEAN
    /\ todo = OriginHubs \X DestHubs
    /\ pair = NoPair
    /\ heap = {}
    /\ best = [h \in Hubs |-> NoCost]
    /\ route = NoRoute

\* seg_cost: the same for every connection when the cities have a price.
SegCost(h, k) == IF priced THEN FlatCost ELSE graph[h][k]

StartPair ==
    /\ pair = NoPair
    /\ \E p \in todo :
          /\ pair' = p
          /\ todo' = todo \ {p}
          /\ heap' = {Node(0, <<p[1]>>, 0)}
          /\ best' = [h \in Hubs |-> IF h = p[1] THEN 0 ELSE NoCost]
    /\ UNCHANGED <<graph, priced, route>>

\* Mutant: the queue is served in the order of insertion, not of cost.
heappop_any == heap

\* The nodes heapq.heappop can return; among equal costs it may be any.
heappop == {n \in heap : \A m \in heap : n.cost <= m.cost}

Relaxed(n) ==
    {k \in Hubs : /\ graph[HubOf(n)][k] > 0
                  /\ n.cost + SegCost(HubOf(n), k) < best[k]}

\* One node that is not the destination; an outdated one is dropped.
Visit ==
    /\ pair # NoPair
    /\ \E n \in heappop :
          /\ HubOf(n) # pair[2]
          /\ IF n.cost > best[HubOf(n)]
             THEN /\ heap' = heap \ {n}
                  /\ UNCHANGED best
             ELSE LET new(k) == n.cost + SegCost(HubOf(n), k)
                  IN  /\ best' = [k \in Hubs |-> IF k \in Relaxed(n) THEN new(k)
                                                 ELSE best[k]]
                      /\ heap' = (heap \ {n}) \union
                           {Node(new(k), Append(n.path, k),
                                 n.distance + graph[HubOf(n)][k]) : k \in Relaxed(n)}
    /\ UNCHANGED <<graph, priced, todo, pair, route>>

\* The result for a pair whose destination was reached: the path of another
\* node of the destination that is still in the queue or else, as a rule, the
\* direct connection, whether there is one or not.
Results(left) ==
    LET others == {n \in left : HubOf(n) = pair[2]}
    IN  IF others # {}
        THEN {[path |-> n.path, distance |-> n.distance,
               cost |-> best[pair[2]]] : n \in others}
        ELSE {[path |-> pair, distance |-> graph[pair[1]][pair[2]],
               cost |-> best[pair[2]]]}

Keep(res) ==
    /\ route' = IF res.cost < route.cost THEN res ELSE route
    /\ pair' = NoPair
    /\ heap' = {}
    /\ best' = [h \in Hubs |-> NoCost]
    /\ UNCHANGED <<graph, priced, todo>>

\* The destination is popped: break.
Arrive ==
    /\ pair # NoPair
    /\ \E n \in heappop :
          /\ HubOf(n) = pair[2]
          /\ \E res \in Results(heap \ {n}) : Keep(res)

\* The queue is empty and the destination was never reached: None.
Unreachable ==
    /\ pair # NoPair
    /\ heap = {}
    /\ Keep(NoRoute)

RouteNext == StartPair \/ Visit \/ Arrive \/ Unreachable

RouteSpec == RouteInit /\ [][RouteNext]_route_vars

-----------------------------------------------------------------------------
RouteTypeOK ==
    /\ todo \subseteq OriginHubs \X DestHubs
    /\ pair # NoPair => pair \in OriginHubs \X DestHubs
    /\ \A n \in heap : n.cost >= best[HubOf(n)] /\ n.cost < NoCost
    /\ \A h \in Hubs : best[h] \in 0..NoCost

\* The reference: the cheapest ways from h that enter n further hubs at most,
\* found by trying every last connection.
Links == [i \in Hubs |-> [j \in Hubs |-> IF graph[i][j] > 0 THEN SegCost(i, j) ELSE NoCost]]
Extended(w, link) == [j \in Hubs |-> Min({w[j]} \union {w[i] + link[i][j] : i \in Hubs})]
Ways(h, link) ==
    LET way[n \in 0..Cardinality(Hubs)] ==
          IF n = 0 THEN [j \in Hubs |-> IF j = h THEN 0 ELSE NoCost]
          ELSE Extended(way[n - 1], link)
    IN  way
Cheapest(h, k) == Ways(h, Links)[Cardinality(Hubs)][k]

\* When _dijkstra is about to pop its destination the cost it returns is that
\* of the cheapest way, although nodes are re-queued and dropped as outdated
\* and the search stops at the first one it pops; and when all pairs of hubs
\* are done the total cost is the least of theirs, with a plan exactly when
\* there is a way.
TotalCostIsMinimal ==
    /\ (pair # NoPair /\ \E n \in heappop : HubOf(n) = pair[2])
          => best[pair[2]] = Cheapest(pair[1], pair[2])
    /\ (todo = {} /\ pair = NoPair) =>
          /\ \A p \in OriginHubs \X DestHubs : route.cost <= Cheapest(p[1], p[2])
          /\ \E p \in OriginHubs \X DestHubs : route.cost = Cheapest(p[1], p[2])

=============================================================================
