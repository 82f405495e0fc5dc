----------------------------- MODULE RiskEngine -----------------------------
(***************************************************************************)
(* The checks an order must pass before it is sent                         *)
(* (src/src/mm/risk/engine.py), in the order of the code.                  *)
(*                                                                         *)
(* i: the intent [strategy, symbol, side, price, size] of a place          *)
(* e: what the engine looks at: [safe, dailyPnl, markets, now, orders,     *)
(*    base, available]; an order is [id, strategy, symbol, status, price,  *)
(*    remaining], `base` and `available` are the balances of the base      *)
(*    currency of a symbol                                                 *)
(***************************************************************************)
EXTENDS Integers, Sequences, FiniteSets, OrderState
LOCAL Sets == INSTANCE FiniteSetsExt

CONSTANTS BPS,      \* basis points of one
          Rules,    \* the market rule of each symbol
          Limits    \* RiskSettings; its per-strategy limits are functions on the
                    \* strategies that have one

OpenIn(e, symbol) == {o \in e.orders : o.symbol = symbol /\ IsOpen(o.status)}
OpenOf(e, i) == {o \in OpenIn(e, i.symbol) : o.strategy = i.strategy}
OpenValue(orders) == Sets!MapThenSumSet(LAMBDA o : o.price * o.remaining, orders)
Value(i) == i.price * i.size

Abs(x) == IF x < 0 THEN -x ELSE x

\* Mutant: safe mode is looked at when everything else is in order.
OrderSafeModeLast ==
    <<"symbol_not_allowed", "missing_market", "stale_market", "unknown_order", "daily_loss",
      "market_minimums", "max_order_value", "strategy_max_order_value", "max_open_orders",
      "max_total_open_value", "strategy_max_open_orders", "strategy_max_open_value",
      "price_deviation", "post_only_cross", "max_position", "insufficient_inventory", "safe_mode">>

\* The rules a refusal may name, in the order in which they are tried.
Order == <<"safe_mode", "symbol_not_allowed", "missing_market", "stale_market",
           "unknown_order", "daily_loss", "market_minimums", "max_order_value",
           "strategy_max_order_value", "max_open_orders", "max_total_open_value",
           "strategy_max_open_orders", "strategy_max_open_value", "price_deviation",
           "post_only_cross", "max_position", "insufficient_inventory">>

\* Mutant: orders in doubt do not count.
InDoubtIgnored(e) == FALSE

InDoubt(e) == \E o \in e.orders : o.status = "UNKNOWN"

\* What each rule forbids; it may rely on the rules before it.
Breaks(rule, i, e) ==
    LET m == e.markets[i.symbol]
    IN  CASE rule = "safe_mode" -> e.safe
          [] rule = "symbol_not_allowed" -> i.symbol \notin DOMAIN Rules
          [] rule = "missing_market" -> i.symbol \notin DOMAIN e.markets
          [] rule = "stale_market" -> e.now - m.received > Limits.staleAfter
          [] rule = "unknown_order" -> InDoubt(e)
          [] rule = "daily_loss" -> e.dailyPnl <= -Limits.maxDailyLoss
          [] rule = "market_minimums" -> ~(/\ i.size >= Rules[i.symbol].minSize
                                           /\ Value(i) >= Rules[i.symbol].minNotional)
          [] rule = "max_order_value" -> Value(i) > Limits.maxOrderValue
          [] rule = "strategy_max_order_value" ->
                /\ i.strategy \in DOMAIN Limits.strategyOrderValue
                /\ Value(i) > Limits.strategyOrderValue[i.strategy]
          [] rule = "max_open_orders" -> Cardinality(OpenIn(e, i.symbol)) >= Limits.maxOpenOrders
          [] rule = "max_total_open_value" ->
                OpenValue(OpenIn(e, i.symbol)) + Value(i) > Limits.maxTotalOpenValue
          [] rule = "strategy_max_open_orders" ->
                /\ i.strategy \in DOMAIN Limits.strategyOpenOrders
                /\ Cardinality(OpenOf(e, i)) >= Limits.strategyOpenOrders[i.strategy]
          [] rule = "strategy_max_open_value" ->
                /\ i.strategy \in DOMAIN Limits.strategyOpenValue
                /\ OpenValue(OpenOf(e, i)) + Value(i) > Limits.strategyOpenValue[i.strategy]
          [] rule = "price_deviation" ->
                Abs(2 * i.price - (m.bid + m.ask)) * BPS > Limits.maxDeviation * (m.bid + m.ask)
          [] rule = "post_only_cross" -> \/ i.side = "buy" /\ i.price >= m.ask
                                         \/ i.side = "sell" /\ i.price <= m.bid
          [] rule = "max_position" -> i.side = "buy" /\ e.base[i.symbol] + i.size > Limits.maxPosition
          [] rule = "insufficient_inventory" -> i.side = "sell" /\ e.available[i.symbol] < i.size

\* RiskEngine.validate: the first rule that the intent breaks, or "approved".
Validate(i, e) ==
    IF \A k \in DOMAIN Order : ~Breaks(Order[k], i, e) THEN "approved"
    ELSE Order[CHOOSE k \in DOMAIN Order : /\ Breaks(Order[k], i, e)
                                           /\ \A j \in 1..(k - 1) : ~Breaks(Order[j], i, e)]

=============================================================================
