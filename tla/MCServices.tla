----------------------------- MODULE MCServices -----------------------------
(* Model checking of the parts that live in the server processes and Redis, *)
(* which have no state in common: each behaviour follows one, chosen in     *)
(* Init.                                                                    *)
EXTENDS TokenStore, PlanLock, ResultCache, RateLimiter, WsConnections, PdaSync,
        RoutePlan, AbcAnalysis

VARIABLE focus

svc_vars == <<focus, tok_vars, lock_vars, cache_vars, rate_vars, ws_vars,
              pda_vars, route_vars, abc_vars>>

ServicesInit ==
    /\ focus \in {"tokens", "lock", "cache", "rate", "sockets", "pda", "route", "abc"}
    /\ IF focus = "abc" THEN TRUE ELSE moved = [s \in Skus |-> [m \in Months |-> 0]]
    /\ IF focus = "route" THEN TRUE
       ELSE priced = TRUE /\ graph = [h \in Hubs |-> [k \in Hubs |-> 0]]
    /\ TokInit /\ LockInit /\ CacheInit /\ RateInit /\ WsInit /\ PdaInit /\ RouteInit
    /\ AbcInit

\* What is not followed stays as it is.
Only(part) ==
    /\ focus = part
    /\ UNCHANGED focus
    /\ part # "tokens" => UNCHANGED tok_vars
    /\ part # "lock" => UNCHANGED lock_vars
    /\ part # "cache" => UNCHANGED cache_vars
    /\ part # "rate" => UNCHANGED rate_vars
    /\ part # "sockets" => UNCHANGED ws_vars
    /\ part # "pda" => UNCHANGED pda_vars
    /\ part # "route" => UNCHANGED route_vars
    /\ part # "abc" => UNCHANGED abc_vars

ServicesNext ==
    \/ TokNext /\ Only("tokens")
    \/ LockNext /\ Only("lock")
    \/ CacheNext /\ Only("cache")
    \/ RateNext /\ Only("rate")
    \/ WsNext /\ Only("sockets")
    \/ PdaNext /\ Only("pda")
    \/ RouteNext /\ Only("route")
    \/ AbcNext /\ Only("abc")

ServicesSpec == ServicesInit /\ [][ServicesNext]_svc_vars /\ LockFairness

\* The variables of every part hold values of their kinds.
ServicesTypeOK ==
    /\ TokTypeOK /\ LockTypeOK /\ CacheTypeOK /\ RateTypeOK /\ WsTypeOK
    /\ PdaTypeOK /\ RouteTypeOK /\ AbcTypeOK

=============================================================================
