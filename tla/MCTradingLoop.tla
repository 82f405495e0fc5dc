--------------------------- MODULE MCTradingLoop ----------------------------
(* One strategy, one level on each side, two prices to buy and one to sell. *)
EXTENDS TradingLoop

MCRule == [priceStep |-> 1, sizeStep |-> 1, minSize |-> 1, minNotional |-> 2]
MCPrices == [buy |-> {5, 6}, sell |-> {7}]
MCMarket == [bid |-> 4, ask |-> 8, received |-> 0]
MCLimits == [staleAfter |-> 3, maxDailyLoss |-> 5, maxOrderValue |-> 10, maxOpenOrders |-> 2,
             maxTotalOpenValue |-> 30, maxDeviation |-> 50, maxPosition |-> 2,
             strategyOrderValue |-> [m \in {"mm"} |-> 9], strategyOpenOrders |-> [m \in {"mm"} |-> 3],
             strategyOpenValue |-> [m \in {"mm"} |-> 25]]
MCTables == {<<>>, <<Record("sell", 1, 7, "SUBMITTING")>>, <<Record("buy", 1, 5, "CANCELING")>>}
MCListings == {<<>>, <<Orphan>>}
MCDrillIntent == [strategy |-> "drill", symbol |-> "S", side |-> "buy", price |-> 2, size |-> 1]

=============================================================================
