---------------------------- MODULE MCComponents ----------------------------
(***************************************************************************)
(* Components that share no state with each other, explored side by side:  *)
(* a behaviour is one of one of them.                                      *)
(***************************************************************************)
EXTENDS RateLimiter, PrivateFills, MarketData, OrderStores, TLC

VARIABLE component   \* the one that runs

Alike == Permutations(Threads)

vars == <<limiterVars, fillVars, marketVars, storeVars, component>>

Init ==
    /\ LimiterInit /\ FillsInit /\ MarketInit /\ StoreInit
    /\ component \in {"limiter", "fills", "market", "store"}
    /\ component # "store" => backend = "json"

Next ==
    /\ UNCHANGED component
    /\ \/ /\ component = "limiter" /\ LimiterNext
          /\ UNCHANGED <<fillVars, marketVars, storeVars>>
       \/ /\ component = "fills" /\ FillsNext
          /\ UNCHANGED <<limiterVars, marketVars, storeVars>>
       \/ /\ component = "market" /\ MarketNext
          /\ UNCHANGED <<limiterVars, fillVars, storeVars>>
       \/ /\ component = "store" /\ StoreNext
          /\ UNCHANGED <<limiterVars, fillVars, marketVars>>

Spec == Init /\ [][Next]_vars

=============================================================================
