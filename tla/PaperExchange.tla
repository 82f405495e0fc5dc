--------------------------- MODULE PaperExchange ---------------------------
(***************************************************************************)
(* PaperExchange (src/src/mm/exchange/paper.py): balances with reserved    *)
(* parts, open orders, and fills of half an order at its own price.  Its   *)
(* handlers never suspend; each is an action on the three variables here,  *)
(* used by PaperTrading.  A symbol stands for its base currency.           *)
(***************************************************************************)
EXTENDS Integers, FiniteSets

CONSTANTS
    Orders,       \* client order ids
    Symbols,      \* symbols, and their base currencies
    Quote,        \* the quote currency all symbols share
    Prices,       \* limit prices
    Sizes,        \* order sizes, even: a fill takes half
    Scale,        \* quote amounts are counted in 1/Scale
    FeeRate,      \* maker fee, in 1/Scale of the value traded
    MinNotional,  \* MarketRule.min_notional
    StartQuote, StartBase    \* configured balances (the quote one in 1/Scale)

\* The configuration lists its symbols; none of their base currencies is the quote.
ASSUME CurrencyAssumption == IsFiniteSet(Symbols) /\ Quote \notin Symbols
ASSUME PriceAssumption == Prices \subseteq Nat \ {0}
ASSUME HalfAssumption == \A n \in Sizes : n \in Nat \ {0} /\ n % 2 = 0
ASSUME AmountAssumption == /\ Scale \in Nat \ {0} /\ FeeRate \in 0..Scale
                           /\ MinNotional \in Nat
                           /\ StartQuote \in Nat /\ StartBase \in Nat

Currencies == Symbols \cup {Quote}
Sides == {"BUY", "SELL"}
Request == [symbol : Symbols, side : Sides, price : Prices, size : Sizes]
NoRequest == [symbol |-> Quote, side |-> "NONE", price |-> 0, size |-> 0]

VARIABLES
    request,      \* what was asked, as the records and the open orders refer to it
    remaining,    \* PaperOpenOrder.remaining, 0 when the order is not open
    avail, frozen \* Balance.available and Balance.frozen per currency

paper == <<remaining, avail, frozen>>

IsPaperOpen(i) == remaining[i] > 0

ConfiguredBalance == [c \in Currencies |-> IF c = Quote THEN StartQuote ELSE StartBase]

\* The paper exchange of a new process.
PaperFresh ==
    /\ remaining' = [i \in Orders |-> 0]
    /\ avail' = ConfiguredBalance
    /\ frozen' = [c \in Currencies |-> 0]

Value(i, n) == request[i].price * n * Scale
Fee(i, n) == request[i].price * n * FeeRate

\* The currency an order reserves, and how much of it for n units.
Coin(i) == IF request[i].side = "BUY" THEN Quote ELSE request[i].symbol
Locked(i, n) == IF request[i].side = "BUY" THEN Value(i, n) ELSE n

\* Mutant: an order is checked against the whole balance, reserved parts included.
TakesAgainstTotal(i) ==
    /\ request[i].price * request[i].size >= MinNotional
    /\ avail[Coin(i)] + frozen[Coin(i)] >= Locked(i, request[i].size)

\* MarketRule.valid_minimums and the balance test of PaperExchange._reserve.
Takes(i) ==
    /\ request[i].price * request[i].size >= MinNotional
    /\ avail[Coin(i)] >= Locked(i, request[i].size)

\* PaperExchange.submit_order of an order it takes.
PaperSubmit(i) ==
    /\ Takes(i)
    /\ remaining' = [remaining EXCEPT ![i] = request[i].size]
    /\ avail' = [avail EXCEPT ![Coin(i)] = @ - Locked(i, request[i].size)]
    /\ frozen' = [frozen EXCEPT ![Coin(i)] = @ + Locked(i, request[i].size)]

\* Mutant: a cancel releases what the whole order reserved, fills included.
PaperCancelWhole(i) ==
    /\ remaining' = [remaining EXCEPT ![i] = 0]
    /\ avail' = [avail EXCEPT ![Coin(i)] = @ + Locked(i, request[i].size)]
    /\ frozen' = [frozen EXCEPT ![Coin(i)] = @ - Locked(i, request[i].size)]

\* PaperExchange.cancel_order of an open order, with _release_remaining.
PaperCancel(i) ==
    /\ remaining' = [remaining EXCEPT ![i] = 0]
    /\ avail' = [avail EXCEPT ![Coin(i)] = @ + Locked(i, remaining[i])]
    /\ frozen' = [frozen EXCEPT ![Coin(i)] = @ - Locked(i, remaining[i])]

\* simulate_fills: which open orders a market fills.
Crossed(symbol, bid, ask) ==
    {i \in Orders : /\ IsPaperOpen(i)
                    /\ request[i].symbol = symbol
                    /\ \/ request[i].side = "BUY" /\ ask <= request[i].price
                       \/ request[i].side = "SELL" /\ bid >= request[i].price}

\* Mutant: a little more than half, and not cut off at what remains.
FillSizeUncapped(i) == (request[i].size \div 2) + 1

\* min(order.remaining, order.request.size / 2)
FillSize(i) == IF remaining[i] <= request[i].size \div 2 THEN remaining[i] ELSE request[i].size \div 2

\* What a fill adds to the available balance of currency c.
Received(i, n, c) ==
    CASE c = Quote -> (IF request[i].side = "BUY" THEN 0 ELSE Value(i, n)) - Fee(i, n)
      [] c = request[i].symbol /\ request[i].side = "BUY" -> n
      [] OTHER -> 0

\* One round of the loop of simulate_fills, with _settle_fill.
PaperFill(i) ==
    /\ remaining' = [remaining EXCEPT ![i] = @ - FillSize(i)]
    /\ frozen' = [frozen EXCEPT ![Coin(i)] = @ - Locked(i, FillSize(i))]
    /\ avail' = [c \in Currencies |-> avail[c] + Received(i, FillSize(i), c)]

=============================================================================
