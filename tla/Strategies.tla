----------------------------- MODULE Strategies -----------------------------
(***************************************************************************)
(* The strategy plugins (src/src/mm/strategy/plugins) as operators: what a *)
(* plugin quotes for a market snapshot, the balances and its parameters.   *)
(*                                                                         *)
(* Prices in the market are whole ticks.  A quoted price is exact: it is   *)
(* an integer over the denominator Scale, because mid is half a sum and    *)
(* each of the factors (1 + adjustment / BPS) and (1 +- distance / BPS)    *)
(* brings a BPS.  Ratios the code keeps as decimals (volatility, imbalance,*)
(* inventory deviation) are rounded down to whole basis points.            *)
(***************************************************************************)
EXTENDS Integers, Sequences, FiniteSets
Sets == INSTANCE FiniteSetsExt

CONSTANT BPS    \* basis points of one: 10000 in the code

ASSUME BPSAssumption == BPS \in Nat \ {0}

Scale == 4 * BPS * BPS

\* max(low, min(x, high))
Clamp(x, low, high) == LET y == IF x < high THEN x ELSE high
                       IN  IF y > low THEN y ELSE low

\* MarketSnapshot.mid, doubled
Mid2(m) == m.bid + m.ask

\* fair = mid * (1 + adjustment / BPS), over 2 * BPS
Shifted(mid2, adjustment) == mid2 * (BPS + adjustment)

\* fair * (1 -+ distance / BPS) over Scale; dist2 is the distance doubled,
\* because level_bps halves the spread.
Away(side, fair, dist2) == fair * (IF side = "buy" THEN 2 * BPS - dist2 ELSE 2 * BPS + dist2)

Quote(side, level, price, size) == [side |-> side, level |-> level, price |-> price, size |-> size]

\* level_bps = spread / 2 + level_spacing * idx, doubled
Dist2(spread, spacing, level) == spread + 2 * spacing * (level - 1)

\* One quote a level on each side of a fair price, as most plugins build them.
BothSides(fair, spread, p, size) ==
    {Quote(side, l, Away(side, fair, Dist2(spread, p.spacing, l)), size[l]) :
        side \in {"buy", "sell"}, l \in 1..p.levels}

Flat(p) == [l \in 1..p.levels |-> p.size]
Growing(p) == [l \in 1..p.levels |-> p.size * p.multiplier ^ (l - 1)]

-----------------------------------------------------------------------------
(* Market metrics the plugins use (market_data/depth_metrics.py): the book *)
(* is what the snapshot shows of it, as many levels as the plugin asks.    *)

\* The sum of the sizes, which are natural numbers, counted unit by unit.
TotalSize(levels) == Cardinality(UNION {{l} \X (1..l.size) : l \in levels})
Notional(levels) == Sets!SumFunction([l \in levels |-> l.price * l.size])

\* MarketSnapshot.bid_levels / ask_levels: the best of them
Best(levels, n, bids) ==
    {l \in levels : Sets!Quantify(levels, LAMBDA k : IF bids THEN k.price > l.price
                                                 ELSE k.price < l.price) < n}

\* microprice, doubled: each side's vwap weighs with the other side's size.
Microprice2(m, n) ==
    LET bids == Best(m.bids, n, TRUE)
        asks == Best(m.asks, n, FALSE)
        b == TotalSize(bids)
        a == TotalSize(asks)
    IN  IF b = 0 \/ a = 0
        THEN IF a + b = 0 THEN Mid2(m)
             ELSE 2 * (IF b = 0 THEN m.bid ELSE m.ask)
        ELSE (2 * (Notional(asks) * b * b + Notional(bids) * a * a)) \div (a * b * (a + b))

\* order_book_imbalance in basis points
Imbalance(m, n) ==
    LET b == TotalSize(Best(m.bids, n, TRUE))
        a == TotalSize(Best(m.asks, n, FALSE))
    IN  IF a + b = 0 THEN 0 ELSE (BPS * (b - a)) \div (a + b)

-----------------------------------------------------------------------------
(* Plugins that keep a history of mids: [ts, mid2] in the window.          *)

\* Mutant: the history is never cut.
RememberAll(history, p, now, mid2) == Append(history, [ts |-> now, mid2 |-> mid2])

\* The entries that are not older than the cutoff, in their order.
Since(history, cutoff) ==
    LET kept[n \in 0..Len(history)] ==
            IF n = 0 THEN <<>>
            ELSE IF history[n].ts >= cutoff THEN Append(kept[n - 1], history[n]) ELSE kept[n - 1]
    IN  kept[Len(history)]

\* on_market of volatility_spread and avellaneda_stoikov
Remember(history, p, now, mid2) ==
    Since(Append(history, [ts |-> now, mid2 |-> mid2]), now - p.window)

Mids(history) == {history[i].mid2 : i \in DOMAIN history}

\* VolatilitySpreadMarketMaker._dynamic_spread_bps
DynamicSpread(history, p) ==
    LET latest == history[Len(history)].mid2
        volatility == ((Sets!Max(Mids(history)) - Sets!Min(Mids(history))) * BPS) \div latest
    IN  IF Len(history) < 2 THEN Clamp(p.spread, p.minSpread, p.maxSpread)
        ELSE Clamp(p.spread + volatility * p.multiplier, p.minSpread, p.maxSpread)

Abs(x) == IF x < 0 THEN -x ELSE x

\* Decimal.sqrt, rounded down
Root(n) == CHOOSE r \in 0..n : r * r <= n /\ (r + 1) * (r + 1) > n

\* AvellanedaStoikovMarketMaker._sigma_bps: the root of the mean square of the
\* returns in the window, scaled to the horizon.
Sigma(history, p) ==
    LET return(i) == (Abs(history[i].mid2 - history[i - 1].mid2) * BPS) \div history[i - 1].mid2
        squares == Sets!SumFunction([i \in 2..Len(history) |-> return(i) * return(i)])
    IN  IF Len(history) < 2 THEN p.minSigma
        ELSE LET s == Root((squares * p.horizon) \div ((Len(history) - 1) * p.window))
             IN  IF s > p.minSigma THEN s ELSE p.minSigma

\* InventorySkewStrategy.prepare: the price adjustment, in basis points.
Skew(p, base) ==
    IF p.target <= 0 THEN 0
    ELSE -((Clamp(base.available + base.frozen - p.target, -p.target, p.target) * p.skew) \div p.target)

\* The reservation shift of avellaneda_stoikov: against the inventory, in
\* proportion to risk aversion and volatility.
ReservationShift(p, base, sigma) ==
    IF p.maxInventory <= 0 THEN 0
    ELSE -((Clamp(base.available + base.frozen - p.target, -p.maxInventory, p.maxInventory)
              * p.riskAversion * sigma * p.lean) \div p.maxInventory)

-----------------------------------------------------------------------------
(* What a plugin quotes: on_timer.  `adjustment` is                        *)
(* ctx.price_adjustment_bps, `base` the balance of the base currency.      *)

BasicQuotes(p, m, adjustment) ==
    BothSides(Shifted(Mid2(m), adjustment), p.spread, p, Growing(p))

HedgedQuotes(p, m, adjustment) ==
    BothSides(Shifted(Mid2(m), adjustment), p.spread, p, Flat(p))

MicropriceQuotes(p, m, adjustment) ==
    BothSides(Shifted(Microprice2(m, p.depth), adjustment), p.spread, p, Growing(p))

\* A side of the ladder has its own number of levels, and no level is further
\* away than max_distance_bps.
LadderQuotes(p, m, adjustment) ==
    LET dist2(l) == LET d == Dist2(p.spread, p.spacing, l)
                    IN  IF p.maxDistance > 0 /\ d > 2 * p.maxDistance THEN 2 * p.maxDistance ELSE d
        rungs(side, n) == {Quote(side, l, Away(side, Shifted(Mid2(m), adjustment), dist2(l)),
                                 p.size * p.multiplier ^ (l - 1)) : l \in 1..n}
    IN  rungs("buy", p.bidLevels) \cup rungs("sell", p.askLevels)

\* Fair price and spread follow the imbalance once it reaches the threshold.
ImbalanceQuotes(p, m, adjustment) ==
    LET seen == Imbalance(m, p.depth)
        effective == IF Abs(seen) >= p.threshold THEN seen ELSE 0
        shift == (effective * p.skew) \div BPS
        widen == (p.widen * Abs(effective)) \div BPS
        fair == (Shifted(Mid2(m), shift) * (BPS + adjustment)) \div BPS
    IN  BothSides(fair, p.spread + widen, p, Flat(p))

VolatilityQuotes(p, m, adjustment, history) ==
    BothSides(Shifted(Mid2(m), adjustment), DynamicSpread(history, p), p, Flat(p))

AvellanedaQuotes(p, m, adjustment, base, history) ==
    LET sigma == Sigma(history, p)
        spread == Clamp(p.spread + p.riskAversion * sigma * p.multiplier, p.minSpread, p.maxSpread)
    IN  BothSides(Shifted(Mid2(m), ReservationShift(p, base, sigma) + adjustment), spread, p, Flat(p))

\* Mutant: a level does not take its size from what remains to be traded.
RangeLevelsUnlimited(side, anchor, remaining, orderSize, p) ==
    {Quote(side, l, Away(side, 2 * anchor * BPS, 2 * (p.offset + p.spacing * (l - 1))), orderSize) :
        l \in 1..p.levels}

\* RangeRebalanceStrategy._quotes: every level takes its size from what remains
\* to be traded, and no level is quoted when nothing remains.
RangeLevels(side, anchor, remaining, orderSize, p) ==
    LET left(l) == remaining - (l - 1) * orderSize
    IN  {Quote(side, l, Away(side, 2 * anchor * BPS, 2 * (p.offset + p.spacing * (l - 1))),
               IF orderSize < left(l) THEN orderSize ELSE left(l)) :
            l \in {k \in 1..p.levels : orderSize > 0 /\ left(k) > 0}}

\* Outside its hard limits the strategy does not quote; inside, it buys below
\* buy_below up to the target and sells above sell_above down to it.
RangeQuotes(p, m, base) ==
    LET total == base.available + base.frozen
        out == \/ p.floor > 0 /\ Mid2(m) < 2 * p.floor
               \/ p.ceiling > 0 /\ Mid2(m) > 2 * p.ceiling
        buys == p.buyBelow > 0 /\ Mid2(m) < 2 * p.buyBelow /\ total < p.target
        sells == p.sellAbove > 0 /\ Mid2(m) > 2 * p.sellAbove /\ total > p.target
    IN  IF out THEN {}
        ELSE IF p.direction \in {"auto", "buy"} /\ buys
        THEN RangeLevels("buy", m.bid, p.target - total, p.size, p)
        ELSE IF p.direction \in {"auto", "sell"} /\ sells
        THEN RangeLevels("sell", m.ask, Sets!Min({total - p.target, base.available}), p.size, p)
        ELSE {}

Kinds == {"basic_mm", "hedged_mm", "microprice_mm", "ladder_mm", "order_book_imbalance",
          "volatility_spread", "avellaneda_stoikov", "range_rebalance", "inventory_skew"}

\* on_timer of the plugin `p`, whatever its kind (PLUGIN_REGISTRY).
OnTimer(p, m, adjustment, base, history) ==
    CASE p.kind = "basic_mm" -> BasicQuotes(p, m, adjustment)
      [] p.kind = "hedged_mm" -> HedgedQuotes(p, m, adjustment)
      [] p.kind = "microprice_mm" -> MicropriceQuotes(p, m, adjustment)
      [] p.kind = "ladder_mm" -> LadderQuotes(p, m, adjustment)
      [] p.kind = "order_book_imbalance" -> ImbalanceQuotes(p, m, adjustment)
      [] p.kind = "volatility_spread" -> VolatilityQuotes(p, m, adjustment, history)
      [] p.kind = "avellaneda_stoikov" -> AvellanedaQuotes(p, m, adjustment, base, history)
      [] p.kind = "range_rebalance" -> RangeQuotes(p, m, base)
      [] OTHER -> {}

=============================================================================
