------------------------------ MODULE PnlBook ------------------------------
(***************************************************************************)
(* SymbolPnl (src/src/mm/accounting/pnl.py): what a fill does to position, *)
(* average cost, realized profit and fees.  Amounts are integers; average  *)
(* cost and realized profit are fractions in lowest terms, so that the     *)
(* division of _apply_buy is exact (the code uses 28 digit decimals).      *)
(***************************************************************************)
EXTENDS Integers

\* num / den in lowest terms, for den > 0.
Frac(num, den) ==
    LET common == {k \in 1..den : num % k = 0 /\ den % k = 0}
        g == CHOOSE k \in common : \A j \in common : j <= k
    IN  [num |-> num \div g, den |-> den \div g]

Zero == [num |-> 0, den |-> 1]
Plus(a, b) == Frac(a.num * b.den + b.num * a.den, a.den * b.den)
Times(a, n) == Frac(a.num * n, a.den)

Empty == [position |-> 0, avgCost |-> Zero, realized |-> Zero, fees |-> 0]

\* SymbolPnl._apply_buy.  A position is never negative (see ApplySell), so its
\* branch for a short position that stays short is never taken.
ApplyBuy(p, price, size) ==
    LET held == p.position + size
        cost == Plus(Times(p.avgCost, p.position), Frac(price * size, 1))
    IN  [p EXCEPT !.avgCost = Frac(cost.num, cost.den * held), !.position = held]

\* Mutant: profit is taken on the whole sale, also on what was never held.
ApplySellOversold(p, price, size) ==
    LET closed == IF size <= p.position THEN size ELSE p.position
        profit == Times(Plus(Frac(price, 1), Times(p.avgCost, -1)), size)
    IN  [p EXCEPT !.realized = Plus(p.realized, profit),
                  !.position = p.position - closed,
                  !.avgCost = IF p.position = closed THEN Zero ELSE p.avgCost]

\* SymbolPnl._apply_sell: closes at most the position; the surplus of the sale
\* is not booked.
ApplySell(p, price, size) ==
    LET closed == IF size <= p.position THEN size ELSE p.position
        profit == Times(Plus(Frac(price, 1), Times(p.avgCost, -1)), closed)
    IN  [p EXCEPT !.realized = Plus(p.realized, profit),
                  !.position = p.position - closed,
                  !.avgCost = IF p.position = closed THEN Zero ELSE p.avgCost]

\* SymbolPnl.apply_fill
ApplyFill(p, side, price, size, fee) ==
    [(IF side = "BUY" THEN ApplyBuy(p, price, size) ELSE ApplySell(p, price, size))
        EXCEPT !.fees = @ + fee]

\* Cash that the book says came in: profits taken, less what the position cost.
NetCash(p) == Plus(Plus(p.realized, Times(Times(p.avgCost, p.position), -1)), Frac(-p.fees, 1))

=============================================================================
