----------------------------- MODULE QuoteEngine ----------------------------
(***************************************************************************)
(* From the quotes that the strategies want and the orders that work to    *)
(* the orders to place and to cancel (src/src/mm/quote/engine.py), with    *)
(* the rounding of MarketRule (src/src/mm/common/types.py).                *)
(*                                                                         *)
(* Prices of markets, orders and rules are whole ticks; the price of a     *)
(* quote is exact, over Denominator.                                       *)
(***************************************************************************)
EXTENDS Integers, Sequences

CONSTANT Denominator    \* a positive number

\* The level of an order which the engine did not quote (an order that a
\* reconciliation found on the exchange).
NoLevel == 0

Floor(x, step) == (x \div step) * step
Ceiling(x, step) == ((x + step - 1) \div step) * step

\* Mutant: both sides are rounded towards each other.
AlignPriceInward(rule, side, price) ==
    LET step == rule.priceStep * Denominator
    IN  (IF side = "buy" THEN Ceiling(price, step) ELSE Floor(price, step)) \div Denominator

\* MarketRule.align_price: a buy is rounded down and a sell up.
AlignPrice(rule, side, price) ==
    LET step == rule.priceStep * Denominator
    IN  (IF side = "buy" THEN Floor(price, step) ELSE Ceiling(price, step)) \div Denominator

AlignSize(rule, size) == Floor(size, rule.sizeStep)

ValidMinimums(rule, price, size) == size >= rule.minSize /\ price * size >= rule.minNotional

\* Mutant: a price on the other side of the book is left where it is.
PostOnlyPriceCrossing(rule, m, side, wanted) == AlignPrice(rule, side, wanted)

\* QuoteEngine._post_only_price: never at or through the other side.
PostOnlyPrice(rule, m, side, wanted) ==
    LET price == AlignPrice(rule, side, wanted)
    IN  IF side = "buy" /\ price >= m.ask
        THEN AlignPrice(rule, side, (m.ask - rule.priceStep) * Denominator)
        ELSE IF side = "sell" /\ price <= m.bid
        THEN AlignPrice(rule, side, (m.bid + rule.priceStep) * Denominator)
        ELSE price

Slot(x) == <<x.strategy, x.symbol, x.side, x.level>>

\* Of the answers of several plugins the last one that names a slot counts.
Desired(answers) ==
    UNION {{q \in answers[i] : \A j \in i + 1..Len(answers) : \A r \in answers[j] : Slot(r) # Slot(q)} :
           i \in DOMAIN answers}

\* _index_open_orders: one order a slot, the last one of the table; the OMS
\* keeps orders in the order of their ids.
Indexed(open) ==
    {o \in open : o.level # NoLevel /\ \A k \in open : Slot(k) = Slot(o) => k.id <= o.id}

\* The quote as it would be placed.
Priced(rules, markets, q) ==
    [strategy |-> q.strategy, symbol |-> q.symbol, side |-> q.side, level |-> q.level,
     price |-> PostOnlyPrice(rules[q.symbol], markets[q.symbol], q.side, q.price),
     size |-> AlignSize(rules[q.symbol], q.size)]

\* What is to be placed: every wanted quote on a known market that satisfies the
\* minimums, differs from the order in its slot and, when there is one, was not
\* placed a moment ago.  `last` is _last_requote_ms, 0 when there is none.
Places(answers, open, markets, rules, last, now, interval) ==
    {p \in {Priced(rules, markets, q) : q \in {r \in Desired(answers) : r.symbol \in DOMAIN markets}} :
        /\ ValidMinimums(rules[p.symbol], p.price, p.size)
        /\ \A o \in Indexed(open) :
              Slot(o) = Slot(p) => /\ ~(o.price = p.price /\ o.remaining = p.size)
                                   /\ now - last[Slot(p)] >= interval}

\* What is to be cancelled: the orders in slots nobody wants any more, and those
\* that a placed quote replaces.
Cancels(answers, open, places) ==
    {o \in Indexed(open) : \/ \A q \in Desired(answers) : Slot(q) # Slot(o)
                           \/ \E p \in places : Slot(p) = Slot(o)}

\* _last_requote_ms after the places.
Requoted(last, places, now) ==
    [s \in DOMAIN last |-> IF \E p \in places : Slot(p) = s THEN now ELSE last[s]]

=============================================================================
