--------------------------- MODULE BacktestProofs ---------------------------
(* Theorems about the replay of a log through the strategies and the quote   *)
(* engine (Backtest), for any market rules, books, portfolios and logs.      *)
EXTENDS Backtest, FiniteSetTheorems, WellFoundedInduction, TLAPS

-----------------------------------------------------------------------------
(* Numbers.                                                                  *)

\* A set of natural numbers that is not empty has a smallest member.
LEMMA NatHasLeast ==
  ASSUME NEW S \in SUBSET Nat, S # {}
  PROVE  \E i \in S : \A j \in S : i <= j
<1> DEFINE Below == {0 .. n : n \in S}
<1>1. Below \subseteq FiniteSubsetsOf(Nat) /\ Below # {}
  <2>1. ASSUME NEW n \in S PROVE IsFiniteSet(0 .. n) /\ 0 .. n \in SUBSET Nat
    BY FS_Interval
  <2>. QED
    BY <2>1 DEF FiniteSubsetsOf
<1>2. PICK x \in Below : \A y \in Below : <<y, x>> \notin StrictSubsetOrdering(Nat)
  <2>1. IsWellFoundedOn(StrictSubsetOrdering(Nat), FiniteSubsetsOf(Nat))
    BY FS_StrictSubsetOrderingWellFounded
  <2>. QED
    BY <1>1, <2>1, WFMin
<1>3. PICK i \in S : x = 0 .. i
  BY <1>2
<1>4. ASSUME NEW j \in S, j < i PROVE FALSE
  <2>1. 0 .. j \subseteq 0 .. i /\ i \in 0 .. i /\ i \notin 0 .. j
    BY <1>4
  <2>2. <<0 .. j, 0 .. i>> \in StrictSubsetOrdering(Nat)
    BY <2>1 DEF StrictSubsetOrdering
  <2>. QED
    BY <1>2, <1>3, <2>2
<1>. QED
  BY <1>4

\* A set of indices has a greatest member.
LEMMA IndexHasGreatest ==
  ASSUME NEW n \in Nat, NEW S \in SUBSET (1 .. n), S # {}
  PROVE  \E i \in S : \A j \in S : j <= i
<1> DEFINE T == {n - i : i \in S}
<1>1. T \in SUBSET Nat /\ T # {}
  <2>1. \A i \in S : i \in 1 .. n /\ n - i \in Nat
    OBVIOUS
  <2>. QED
    BY <2>1
<1>2. PICK k \in T : \A j \in T : k <= j
  BY <1>1, NatHasLeast
<1>3. PICK i \in S : k = n - i
  OBVIOUS
<1>4. ASSUME NEW j \in S PROVE j <= i
  <2>1. n - j \in T
    OBVIOUS
  <2>2. n - i <= n - j
    BY <1>2, <1>3, <2>1
  <2>3. i \in Int /\ j \in Int /\ n \in Int
    OBVIOUS
  <2>. QED
    BY <2>2, <2>3
<1>. QED
  BY <1>4

LEMMA ProductGrows ==
  ASSUME NEW f \in Nat \ {0}, NEW x \in Int, NEW y \in Int, x < y
  PROVE  f * x < f * y
<1>1. y = x + (y - x) /\ y - x \in Nat \ {0}
  OBVIOUS
<1>2. f * y = f * x + f * (y - x)
  BY <1>1
<1>3. f * (y - x) \in Nat \ {0}
  BY <1>1
<1>. QED
  BY <1>2, <1>3

LEMMA ProductOrder ==
  ASSUME NEW f \in Nat \ {0}, NEW x \in Int, NEW y \in Int
  PROVE  /\ x * f <= y * f => x <= y
         /\ x * f < y * f => x < y
<1>1. ASSUME y < x PROVE y * f < x * f
  <2>1. f * y < f * x
    BY <1>1, ProductGrows
  <2>. QED
    BY <2>1
<1>2. x = y => x * f = y * f
  OBVIOUS
<1>. QED
  BY <1>1, <1>2

LEMMA Division ==
  ASSUME NEW x \in Int, NEW s \in Nat \ {0}
  PROVE  /\ x \div s \in Int
         /\ (x \div s) * s <= x /\ x < (x \div s) * s + s
  OBVIOUS

LEMMA DivisionIsExact ==
  ASSUME NEW x \in Int, NEW s \in Nat \ {0}
  PROVE  (x * s) \div s = x
<1> DEFINE q == (x * s) \div s
<1>1. q \in Int /\ q * s <= x * s /\ x * s < q * s + s
  <2>1. x * s \in Int
    OBVIOUS
  <2>. QED
    BY <2>1, Division
<1> HIDE DEF q
<1>2. q <= x
  BY <1>1, ProductOrder
<1>3. x * s < (q + 1) * s
  BY <1>1
<1>4. x < q + 1
  BY <1>1, <1>3, ProductOrder
<1>. QED
  BY <1>1, <1>2, <1>4 DEF q

LEMMA ScaleIsPositive == Scale \in Nat \ {0} /\ BPS \in Nat \ {0}
<1>1. BPS * BPS \in Nat \ {0}
  BY BPSAssumption
<1>. QED
  BY <1>1, BPSAssumption DEF Scale

-----------------------------------------------------------------------------
(* Prices are rounded away from the other side.                              *)

LEMMA AlignedPrice ==
  ASSUME NEW rule, rule.priceStep \in Nat \ {0}, NEW price \in Int
  PROVE  /\ QE!AlignPrice(rule, "buy", price) \in Int
         /\ QE!AlignPrice(rule, "buy", price) * Scale <= price
         /\ QE!AlignPrice(rule, "sell", price) \in Int
         /\ QE!AlignPrice(rule, "sell", price) * Scale >= price
<1> DEFINE step == rule.priceStep
           unit == step * Scale
           below == price \div unit
           above == (price + unit - 1) \div unit
<1>1. step \in Nat \ {0} /\ unit \in Nat \ {0}
  BY ScaleIsPositive
<1>2. below \in Int /\ below * unit <= price
  BY <1>1, Division
<1>3. above \in Int /\ price + unit - 1 < above * unit + unit
  <2>1. price + unit - 1 \in Int
    BY <1>1
  <2> HIDE DEF unit
  <2>. QED
    BY <1>1, <2>1, Division
<1>4. ASSUME NEW k \in Int PROVE k * unit = (k * step) * Scale /\ (k * unit) \div Scale = k * step
  <2>1. k * unit = (k * step) * Scale
    BY <1>1, ScaleIsPositive
  <2>2. k * step \in Int
    BY <1>1
  <2>. QED
    BY <2>1, <2>2, ScaleIsPositive, DivisionIsExact
<1>5. QE!AlignPrice(rule, "buy", price) = below * step
  <2>1. QE!AlignPrice(rule, "buy", price) = (below * unit) \div Scale
    BY DEF QE!AlignPrice, QE!Floor
  <2>. QED
    BY <1>2, <1>4, <2>1
<1>6. QE!AlignPrice(rule, "sell", price) = above * step
  <2>1. QE!AlignPrice(rule, "sell", price) = (above * unit) \div Scale
    BY DEF QE!AlignPrice, QE!Ceiling
  <2>. QED
    BY <1>3, <1>4, <2>1
<1>7. below * unit = (below * step) * Scale /\ above * unit = (above * step) * Scale
  BY <1>2, <1>3, <1>4
<1>8. above * unit >= price
  <2>1. above * unit \in Int
    BY <1>1, <1>3
  <2> HIDE DEF unit, above
  <2>. QED
    BY <1>1, <1>3, <2>1
<1>. QED
  BY <1>1, <1>2, <1>3, <1>5, <1>6, <1>7, <1>8

\* The price of a buy is below the other side and no higher than was wanted, the
\* price of a sell above it and no lower.
LEMMA PostOnlyFacts ==
  ASSUME NEW rule, rule.priceStep \in Nat \ {0}, NEW m, m.bid \in Int, m.ask \in Int, NEW price \in Int
  PROVE  /\ QE!PostOnlyPrice(rule, m, "buy", price) \in Int
         /\ QE!PostOnlyPrice(rule, m, "buy", price) * Scale <= price
         /\ QE!PostOnlyPrice(rule, m, "sell", price) \in Int
         /\ QE!PostOnlyPrice(rule, m, "sell", price) * Scale >= price
<1> DEFINE lower == (m.ask - rule.priceStep) * Scale
           higher == (m.bid + rule.priceStep) * Scale
           buy == QE!AlignPrice(rule, "buy", price)
           sell == QE!AlignPrice(rule, "sell", price)
           buy2 == QE!AlignPrice(rule, "buy", lower)
           sell2 == QE!AlignPrice(rule, "sell", higher)
<1>1. m.ask - rule.priceStep \in Int /\ m.bid + rule.priceStep \in Int /\ lower \in Int /\ higher \in Int
  BY ScaleIsPositive
<1>2. /\ buy \in Int /\ buy * Scale <= price /\ sell \in Int /\ sell * Scale >= price
      /\ buy2 \in Int /\ buy2 * Scale <= lower /\ sell2 \in Int /\ sell2 * Scale >= higher
  BY <1>1, AlignedPrice
<1>3. QE!PostOnlyPrice(rule, m, "buy", price) = IF buy >= m.ask THEN buy2 ELSE buy
  BY DEF QE!PostOnlyPrice
<1>4. QE!PostOnlyPrice(rule, m, "sell", price) = IF sell <= m.bid THEN sell2 ELSE sell
  BY DEF QE!PostOnlyPrice
<1>5. buy2 <= m.ask - rule.priceStep /\ m.bid + rule.priceStep <= sell2
  <2> HIDE DEF buy2, sell2
  <2>. QED
    BY <1>1, <1>2, ScaleIsPositive, ProductOrder
<1> HIDE DEF buy, sell, buy2, sell2, lower, higher
<1>6. ASSUME buy >= m.ask PROVE buy2 * Scale <= price
  <2>1. buy2 < buy
    BY <1>2, <1>5, <1>6
  <2>2. Scale * buy2 < Scale * buy
    BY <1>2, <2>1, ScaleIsPositive, ProductGrows
  <2>3. Scale * buy2 = buy2 * Scale /\ Scale * buy = buy * Scale /\ buy2 * Scale \in Int /\ buy * Scale \in Int
    BY <1>2, ScaleIsPositive
  <2>. QED
    BY <1>2, <2>2, <2>3
<1>7. ASSUME sell <= m.bid PROVE sell2 * Scale >= price
  <2>1. sell < sell2
    BY <1>2, <1>5, <1>7
  <2>2. Scale * sell < Scale * sell2
    BY <1>2, <2>1, ScaleIsPositive, ProductGrows
  <2>3. Scale * sell2 = sell2 * Scale /\ Scale * sell = sell * Scale /\ sell2 * Scale \in Int /\ sell * Scale \in Int
    BY <1>2, ScaleIsPositive
  <2>. QED
    BY <1>2, <2>2, <2>3
<1>8. CASE buy >= m.ask /\ sell <= m.bid
  BY <1>2, <1>3, <1>4, <1>6, <1>7, <1>8
<1>9. CASE buy >= m.ask /\ ~(sell <= m.bid)
  BY <1>2, <1>3, <1>4, <1>6, <1>9
<1>10. CASE ~(buy >= m.ask) /\ sell <= m.bid
  BY <1>2, <1>3, <1>4, <1>7, <1>10
<1>11. CASE ~(buy >= m.ask) /\ ~(sell <= m.bid)
  BY <1>2, <1>3, <1>4, <1>11
<1>. QED
  BY <1>8, <1>9, <1>10, <1>11

\* Whatever was wanted, a number or not, what is placed does not cross.
LEMMA PostOnlyNeverCrosses ==
  ASSUME NEW rule, rule.priceStep \in Nat \ {0}, NEW m, m.bid \in Int, m.ask \in Int, NEW price
  PROVE  /\ ~(QE!PostOnlyPrice(rule, m, "buy", price) >= m.ask)
         /\ ~(QE!PostOnlyPrice(rule, m, "sell", price) <= m.bid)
<1> DEFINE lower == (m.ask - rule.priceStep) * Scale
           higher == (m.bid + rule.priceStep) * Scale
           buy == QE!AlignPrice(rule, "buy", price)
           sell == QE!AlignPrice(rule, "sell", price)
           buy2 == QE!AlignPrice(rule, "buy", lower)
           sell2 == QE!AlignPrice(rule, "sell", higher)
<1>1. m.ask - rule.priceStep \in Int /\ m.bid + rule.priceStep \in Int /\ lower \in Int /\ higher \in Int
  BY ScaleIsPositive
<1>2. buy2 \in Int /\ buy2 * Scale <= lower /\ sell2 \in Int /\ sell2 * Scale >= higher
  BY <1>1, AlignedPrice
<1>3. QE!PostOnlyPrice(rule, m, "buy", price) = IF buy >= m.ask THEN buy2 ELSE buy
  BY DEF QE!PostOnlyPrice
<1>4. QE!PostOnlyPrice(rule, m, "sell", price) = IF sell <= m.bid THEN sell2 ELSE sell
  BY DEF QE!PostOnlyPrice
<1>5. buy2 <= m.ask - rule.priceStep /\ m.bid + rule.priceStep <= sell2
  <2> HIDE DEF buy2, sell2
  <2>. QED
    BY <1>1, <1>2, ScaleIsPositive, ProductOrder
<1> HIDE DEF buy, sell, buy2, sell2
<1>6. ~(buy2 >= m.ask) /\ ~(sell2 <= m.bid)
  BY <1>2, <1>5
<1>. QED
  BY <1>3, <1>4, <1>6, Zenon

-----------------------------------------------------------------------------
(* The inductive invariant: answers and intents are those for the markets    *)
(* and the histories at hand.                                                *)

ReplayInv ==
    /\ portfolio \in Portfolios /\ account \in Accounts
    /\ DOMAIN markets \subseteq Symbols /\ \A s \in DOMAIN markets : markets[s] \in Books
    /\ DOMAIN answers = DOMAIN portfolio
    /\ \A i \in DOMAIN portfolio :
          answers[i] = {} \/ answers[i] = Quoted(portfolio, i, markets, memory)
    /\ intents = {} \/ intents = QE!Places(answers, {}, markets, Rules, <<>>, now, 0)

\* A configured plugin has its numbers.
LEMMA Configured ==
  ASSUME ReplayInv, NEW i \in DOMAIN portfolio
  PROVE  Numbers(portfolio[i])
BY ReplayAssumption DEF ReplayInv

\* What a plugin quotes depends on the balances, which stay.
LEMMA QuotedStays ==
  ASSUME UNCHANGED <<portfolio, account>>, NEW i
  PROVE  Quoted(portfolio, i, markets, memory)' = Quoted(portfolio, i, markets', memory')
BY DEF Quoted, Adjustment, Base

LEMMA ReplayInductive == Spec => []ReplayInv
<1>1. Init => ReplayInv
  <2> SUFFICES ASSUME Init PROVE ReplayInv
    OBVIOUS
  <2>1. DOMAIN markets = {}
    BY DEF Init
  <2>2. DOMAIN answers = DOMAIN portfolio /\ \A i \in DOMAIN portfolio : answers[i] = {}
    BY DEF Init
  <2>. QED
    BY <2>1, <2>2 DEF Init, ReplayInv
<1>2. ReplayInv /\ [Next]_vars => ReplayInv'
  <2> SUFFICES ASSUME ReplayInv, [Next]_vars PROVE ReplayInv'
    OBVIOUS
  <2>1. ASSUME NEW s \in Symbols, NEW m \in Books, NEW delay \in Delays, Replay(s, m, delay)
        PROVE  ReplayInv'
    <3>1. portfolio' = portfolio /\ account' = account
      BY <2>1 DEF Replay
    <3>2. markets' = [t \in DOMAIN markets \cup {s} |-> IF t = s THEN m ELSE markets[t]]
      BY <2>1 DEF Replay
    <3>3. DOMAIN markets' \subseteq Symbols /\ \A t \in DOMAIN markets' : markets'[t] \in Books
      BY <3>2 DEF ReplayInv
    <3>4. answers' = [i \in DOMAIN portfolio |-> Quoted(portfolio, i, markets', memory')]
      BY <2>1 DEF Replay
    <3>5. intents' = QE!Places(answers', {}, markets', Rules, <<>>, now', 0)
      BY <2>1 DEF Replay
    <3>6. ASSUME NEW i \in DOMAIN portfolio
          PROVE  answers'[i] = Quoted(portfolio, i, markets', memory')
      BY <3>4
    <3>7. (\A i \in DOMAIN portfolio :
              answers[i] = {} \/ answers[i] = Quoted(portfolio, i, markets, memory))'
      <4> SUFFICES ASSUME NEW i \in DOMAIN portfolio
                   PROVE  (answers[i] = Quoted(portfolio, i, markets, memory))'
        BY <3>1
      <4>. QED
        BY <3>1, <3>6, QuotedStays
    <3>8. portfolio' \in Portfolios /\ account' \in Accounts /\ DOMAIN answers' = DOMAIN portfolio'
      BY <3>1, <3>4 DEF ReplayInv
    <3>. QED
      BY <3>3, <3>5, <3>7, <3>8 DEF ReplayInv
  <2>2. CASE UNCHANGED vars
    <3>1. /\ UNCHANGED <<portfolio, account>> /\ markets' = markets /\ memory' = memory
          /\ answers' = answers /\ intents' = intents /\ now' = now
      BY <2>2 DEF vars
    <3>2. (\A i \in DOMAIN portfolio :
              answers[i] = {} \/ answers[i] = Quoted(portfolio, i, markets, memory))'
      <4> SUFFICES ASSUME NEW i \in DOMAIN portfolio
                   PROVE  (answers[i] = {} \/ answers[i] = Quoted(portfolio, i, markets, memory))'
        BY <3>1
      <4>1. Quoted(portfolio, i, markets, memory)' = Quoted(portfolio, i, markets, memory)
        BY <3>1, QuotedStays
      <4>. QED
        BY <3>1, <4>1 DEF ReplayInv
    <3>. QED
      BY <3>1, <3>2 DEF ReplayInv
  <2>. QED
    BY <2>1, <2>2 DEF Next
<1>. QED
  BY <1>1, <1>2, PTL DEF Spec

\* What is placed is a wanted quote with its price and its size rounded.
LEMMA PlacedFacts ==
  ASSUME ReplayInv, NEW p \in intents
  PROVE  \E q \in QE!Desired(answers) :
            /\ q.symbol \in DOMAIN markets /\ p = QE!Priced(Rules, markets, q)
            /\ QE!ValidMinimums(Rules[p.symbol], p.price, p.size)
<1>1. p \in QE!Places(answers, {}, markets, Rules, <<>>, now, 0)
  BY DEF ReplayInv
<1>. QED
  BY <1>1, Zenon DEF QE!Places

LEMMA PricedFacts ==
  ASSUME NEW q
  PROVE  LET p == QE!Priced(Rules, markets, q)
         IN  /\ p.strategy = q.strategy /\ p.symbol = q.symbol /\ p.side = q.side
             /\ p.price = QE!PostOnlyPrice(Rules[q.symbol], markets[q.symbol], q.side, q.price)
BY DEF QE!Priced

\* The market and the rule of a quoted symbol.
LEMMA KnownMarket ==
  ASSUME ReplayInv, NEW s \in DOMAIN markets
  PROVE  /\ s \in DOMAIN Rules /\ Rules[s].priceStep \in Nat \ {0}
         /\ markets[s].bid \in Nat /\ markets[s].ask \in Nat
<1>1. s \in Symbols /\ markets[s] \in Books
  BY DEF ReplayInv
<1>. QED
  BY <1>1, ReplayAssumption DEF Symbols

LEMMA NothingToRefuse == ReplayInv => RiskFindsNothingToRefuse
<1> SUFFICES ASSUME ReplayInv, NEW p \in intents,
                    NEW rule \in {"symbol_not_allowed", "missing_market", "market_minimums",
                                  "post_only_cross"},
                    Risk!Breaks(rule, p, [markets |-> markets])
             PROVE  FALSE
  BY DEF RiskFindsNothingToRefuse
<1>1. PICK q \in QE!Desired(answers) :
         /\ q.symbol \in DOMAIN markets /\ p = QE!Priced(Rules, markets, q)
         /\ QE!ValidMinimums(Rules[p.symbol], p.price, p.size)
  BY PlacedFacts
<1>2. /\ p.symbol = q.symbol /\ p.side = q.side
      /\ p.price = QE!PostOnlyPrice(Rules[q.symbol], markets[q.symbol], q.side, q.price)
  BY <1>1, PricedFacts
<1>3. /\ p.symbol \in DOMAIN markets /\ p.symbol \in DOMAIN Rules
      /\ Rules[p.symbol].priceStep \in Nat \ {0}
      /\ markets[p.symbol].bid \in Nat /\ markets[p.symbol].ask \in Nat
  BY <1>1, <1>2, KnownMarket
<1> DEFINE e == [markets |-> markets]
<1>4. e.markets = markets
  OBVIOUS
<1> HIDE DEF e
<1>5. CASE rule = "symbol_not_allowed"
  BY <1>3, <1>5 DEF Risk!Breaks, e
<1>6. CASE rule = "missing_market"
  <2>1. p.symbol \notin DOMAIN e.markets
    BY <1>6 DEF Risk!Breaks, e
  <2>. QED
    BY <1>3, <1>4, <2>1
<1>7. CASE rule = "market_minimums"
  <2>1. ~(p.size >= Rules[p.symbol].minSize /\ Risk!Value(p) >= Rules[p.symbol].minNotional)
    BY <1>7 DEF Risk!Breaks
  <2>. QED
    BY <1>1, <2>1, Zenon DEF Risk!Value, QE!ValidMinimums
<1>8. CASE rule = "post_only_cross"
  <2>1. \/ p.side = "buy" /\ p.price >= e.markets[p.symbol].ask
        \/ p.side = "sell" /\ p.price <= e.markets[p.symbol].bid
    BY <1>8 DEF Risk!Breaks, e
  <2>2. \/ q.side = "buy" /\ p.price >= markets[p.symbol].ask
        \/ q.side = "sell" /\ p.price <= markets[p.symbol].bid
    BY <1>2, <1>4, <2>1, Zenon
  <2>3. /\ ~(QE!PostOnlyPrice(Rules[p.symbol], markets[p.symbol], "buy", q.price) >= markets[p.symbol].ask)
        /\ ~(QE!PostOnlyPrice(Rules[p.symbol], markets[p.symbol], "sell", q.price) <= markets[p.symbol].bid)
    BY <1>3, PostOnlyNeverCrosses
  <2>. QED
    BY <1>2, <2>2, <2>3, Zenon
<1>. QED
  BY <1>5, <1>6, <1>7, <1>8

\* What the quote engine builds for a market, the risk engine does not refuse for
\* its symbol, its market, its minimums or its other side (quote/engine.py:60,
\* risk/engine.py:44-63, 97-102): for any strategies, whatever they want.
THEOREM RiskNeverFindsAnythingToRefuse == Spec => []RiskFindsNothingToRefuse
BY ReplayInductive, NothingToRefuse, PTL

-----------------------------------------------------------------------------
(* A strategy's own quotes.                                                  *)

\* The bids that a strategy wants are below the asks that it wants.
WantedApart ==
    \A b, a \in QE!Desired(answers) :
        (/\ b.strategy = a.strategy /\ b.symbol = a.symbol /\ b.symbol \in DOMAIN markets
         /\ b.side = "buy" /\ a.side = "sell")
            => b.price \in Int /\ a.price \in Int /\ b.price < a.price

LEMMA RoundingKeepsApart == ReplayInv /\ WantedApart => OwnQuotesUncrossed
<1> SUFFICES ASSUME ReplayInv, WantedApart, NEW b \in intents, NEW a \in intents,
                    b.strategy = a.strategy, b.symbol = a.symbol, b.side = "buy", a.side = "sell"
             PROVE  b.price < a.price
  BY DEF OwnQuotesUncrossed
<1>1. PICK x \in QE!Desired(answers) : x.symbol \in DOMAIN markets /\ b = QE!Priced(Rules, markets, x)
  BY PlacedFacts
<1>2. PICK y \in QE!Desired(answers) : y.symbol \in DOMAIN markets /\ a = QE!Priced(Rules, markets, y)
  BY PlacedFacts
<1>3. /\ b.strategy = x.strategy /\ b.symbol = x.symbol /\ b.side = x.side
      /\ b.price = QE!PostOnlyPrice(Rules[x.symbol], markets[x.symbol], x.side, x.price)
  BY <1>1, PricedFacts
<1>4. /\ a.strategy = y.strategy /\ a.symbol = y.symbol /\ a.side = y.side
      /\ a.price = QE!PostOnlyPrice(Rules[y.symbol], markets[y.symbol], y.side, y.price)
  BY <1>2, PricedFacts
<1>5. x.price \in Int /\ y.price \in Int /\ x.price < y.price
  BY <1>1, <1>3, <1>4 DEF WantedApart
<1>6. /\ Rules[x.symbol].priceStep \in Nat \ {0}
      /\ markets[x.symbol].bid \in Int /\ markets[x.symbol].ask \in Int
  BY <1>1, KnownMarket
<1>7. b.price \in Int /\ b.price * Scale <= x.price
  BY <1>3, <1>5, <1>6, PostOnlyFacts
<1>8. a.price \in Int /\ a.price * Scale >= y.price
  BY <1>3, <1>4, <1>5, <1>6, PostOnlyFacts
<1>9. b.price * Scale < a.price * Scale
  <2>1. b.price * Scale \in Int /\ a.price * Scale \in Int
    BY <1>7, <1>8, ScaleIsPositive
  <2>. QED
    BY <1>5, <1>7, <1>8, <2>1
<1>. QED
  BY <1>7, <1>8, <1>9, ScaleIsPositive, ProductOrder

\* Rounding and post-only correction never make quotes cross that were wanted
\* apart (quote/engine.py:101, MarketRule.align_price): for any price steps,
\* books and portfolios, plugins that quote under the same key included.
THEOREM RoundingNeverCrosses == Spec => [](WantedApart => OwnQuotesUncrossed)
<1>1. ReplayInv => (WantedApart => OwnQuotesUncrossed)
  BY RoundingKeepsApart
<1>. QED
  BY <1>1, ReplayInductive, PTL

-----------------------------------------------------------------------------
(* Plugins that trade towards a target.                                      *)

\* Two numbers of whole orders and a rest are equal only part by part.
LEMMA DigitsApart ==
  ASSUME NEW n \in Nat \ {0}, NEW x \in Nat, NEW y \in Nat, NEW k \in 1 .. n, NEW l \in 1 .. n,
         x * n + k = y * n + l
  PROVE  x = y /\ k = l
<1>0. k \in Int /\ l \in Int /\ x * n \in Int /\ y * n \in Int
  OBVIOUS
<1>1. ASSUME x < y PROVE FALSE
  <2>1. y - x - 1 \in Nat /\ y = x + 1 + (y - x - 1)
    BY <1>1
  <2>2. (y - x - 1) * n \in Nat
    BY <2>1
  <2>3. y * n = x * n + n + (y - x - 1) * n
    BY <2>1
  <2>. QED
    BY <1>0, <2>2, <2>3
<1>2. ASSUME y < x PROVE FALSE
  <2>1. x - y - 1 \in Nat /\ x = y + 1 + (x - y - 1)
    BY <1>2
  <2>2. (x - y - 1) * n \in Nat
    BY <2>1
  <2>3. x * n = y * n + n + (x - y - 1) * n
    BY <2>1
  <2>. QED
    BY <1>0, <2>2, <2>3
<1>3. x = y
  BY <1>1, <1>2
<1>. QED
  BY <1>0, <1>3

LEMMA Predecessor == \A n \in Nat \ {0} : \E x \in Nat : n = x + 1 /\ n - 1 = x
<1>. SUFFICES ASSUME NEW n \in Nat \ {0} PROVE \E x \in Nat : n = x + 1 /\ n - 1 = x
  OBVIOUS
<1>1. n - 1 \in Nat /\ n = (n - 1) + 1
  OBVIOUS
<1>. QED
  BY <1>1

Units(levels) == UNION {{l} \X (1 .. l.size) : l \in levels}

\* The quotes of a plugin that buys or sells until nothing remains, by level.
RangeSize(orderSize, remaining, l) ==
    LET left == remaining - (l - 1) * orderSize IN IF orderSize < left THEN orderSize ELSE left

\* Together they are for no more than what remains to be traded.
LEMMA LevelsWithinRemaining ==
  ASSUME NEW orderSize \in Int, NEW remaining \in Int, remaining > 0, NEW Q,
         \A q \in Q : /\ q.level \in Nat \ {0} /\ orderSize > 0
                      /\ remaining - (q.level - 1) * orderSize > 0
                      /\ q.size = RangeSize(orderSize, remaining, q.level),
         \A q, r \in Q : q.level = r.level => q = r
  PROVE  TotalSize(Q) \in Nat /\ TotalSize(Q) <= remaining
<1> DEFINE f == [u \in Units(Q) |-> (u[1].level - 1) * orderSize + u[2]]
<1>1. ASSUME NEW u \in Units(Q)
      PROVE  /\ u[1] \in Q /\ u = <<u[1], u[2]>> /\ u[1].level - 1 \in Nat /\ orderSize \in Nat \ {0}
             /\ u[2] \in 1 .. orderSize
             /\ (u[1].level - 1) * orderSize + u[2] \in 1 .. remaining
  <2>1. PICK q \in Q : u \in {q} \X (1 .. q.size)
    BY DEF Units
  <2>2. u[1] = q /\ u[2] \in 1 .. q.size /\ u = <<u[1], u[2]>>
    BY <2>1
  <2>3. q.level - 1 \in Nat /\ orderSize \in Nat \ {0} /\ remaining - (q.level - 1) * orderSize > 0
    OBVIOUS
  <2> DEFINE x == (q.level - 1) * orderSize
  <2>4. x \in Nat
    BY <2>3
  <2>5. q.size = IF orderSize < remaining - x THEN orderSize ELSE remaining - x
    BY DEF RangeSize
  <2> HIDE DEF x
  <2>6. u[2] \in 1 .. orderSize /\ x + u[2] \in 1 .. remaining
    <3>1. q.size \in Int /\ q.size <= orderSize /\ q.size <= remaining - x
      BY <2>3, <2>4, <2>5
    <3>2. u[2] \in Int /\ u[2] >= 1 /\ u[2] <= q.size
      BY <2>2, <3>1
    <3>. QED
      BY <2>4, <3>1, <3>2
  <2>. QED
    BY <2>2, <2>3, <2>6 DEF x
<1>2. f \in [Units(Q) -> 1 .. remaining]
  BY <1>1
<1>3. ASSUME NEW u \in Units(Q), NEW w \in Units(Q), f[u] = f[w] PROVE u = w
  <2>1. PICK q \in Q, k \in 1 .. orderSize : u = <<q, k>>
    BY <1>1
  <2>2. PICK r \in Q, l \in 1 .. orderSize : w = <<r, l>>
    BY <1>1
  <2>3. f[u] = (q.level - 1) * orderSize + k /\ f[w] = (r.level - 1) * orderSize + l
    BY <2>1, <2>2
  <2>4. q.level \in Nat \ {0} /\ r.level \in Nat \ {0} /\ orderSize \in Nat \ {0}
    OBVIOUS
  <2>5. PICK x \in Nat : q.level = x + 1 /\ q.level - 1 = x
    BY <2>4, Predecessor
  <2>6. PICK y \in Nat : r.level = y + 1 /\ r.level - 1 = y
    BY <2>4, Predecessor
  <2> HIDE DEF f
  <2>7. x * orderSize + k = y * orderSize + l
    BY <1>3, <2>3, <2>5, <2>6
  <2>8. x = y /\ k = l
    BY <2>4, <2>7, DigitsApart
  <2>9. q.level = r.level
    BY <2>5, <2>6, <2>8
  <2>. QED
    BY <2>1, <2>2, <2>8, <2>9
<1> HIDE DEF f
<1>4. f \in Injection(Units(Q), 1 .. remaining)
  BY <1>2, <1>3 DEF Injection, IsInjective
<1>5. IsFiniteSet(1 .. remaining) /\ Cardinality(1 .. remaining) = remaining
  BY FS_Interval
<1>6. Cardinality(Units(Q)) <= remaining /\ Cardinality(Units(Q)) \in Nat
  BY <1>4, <1>5, FS_Injection, FS_CardinalityType
<1>. QED
  BY <1>6 DEF TotalSize, Units

LEMMA TotalOfNothing == TotalSize({}) = 0
<1>1. UNION {{l} \X (1 .. l.size) : l \in {}} = {}
  OBVIOUS
<1>. QED
  BY <1>1, FS_EmptySet DEF TotalSize

LEMMA MinOfTwo ==
  ASSUME NEW a \in Int, NEW b \in Int
  PROVE  Sets!Min({a, b}) \in Int /\ Sets!Min({a, b}) <= a /\ Sets!Min({a, b}) <= b
<1>1. \E x \in {a, b} : \A y \in {a, b} : x <= y
  BY a <= b \/ b <= a
<1>2. Sets!Min({a, b}) \in {a, b} /\ \A y \in {a, b} : Sets!Min({a, b}) <= y
  BY <1>1 DEF Sets!Min
<1>. QED
  BY <1>2

\* The quotes of a plugin on one side, and their total.
QuotesOn(i, side) == {q \in answers[i] : q.side = side}

\* A quote with the key and the symbol of its plugin.
NamedBy(p, x) == [strategy |-> p.key, symbol |-> p.symbol, side |-> x.side, level |-> x.level,
                  price |-> x.price, size |-> x.size]
AllNamedBy(p, Q, wanted) == \A q \in Q : \E x \in wanted : q = NamedBy(p, x)

\* The levels of a side, whoever quotes them, are for what remains at most.
LEMMA RangeSideWithin ==
  ASSUME NEW p, p.size \in Int, p.levels \in Int, NEW side, NEW anchor, NEW remaining \in Int, remaining > 0,
         NEW Q, AllNamedBy(p, Q, RangeLevels(side, anchor, remaining, p.size, p))
  PROVE  /\ TotalSize(Q) \in Nat /\ TotalSize(Q) <= remaining
         /\ \A q \in Q : q.side = side
<1> DEFINE price(l) == Away(side, 2 * anchor * BPS, 2 * (p.offset + p.spacing * (l - 1)))
<1>1. ASSUME NEW q \in Q
      PROVE  /\ q.level \in Nat \ {0} /\ p.size > 0 /\ remaining - (q.level - 1) * p.size > 0
             /\ q.size = RangeSize(p.size, remaining, q.level) /\ q.side = side
             /\ q = [strategy |-> p.key, symbol |-> p.symbol, side |-> side, level |-> q.level,
                     price |-> price(q.level), size |-> RangeSize(p.size, remaining, q.level)]
  <2>1. PICK x \in RangeLevels(side, anchor, remaining, p.size, p) :
           q = [strategy |-> p.key, symbol |-> p.symbol, side |-> x.side, level |-> x.level,
                price |-> x.price, size |-> x.size]
    BY DEF AllNamedBy, NamedBy
  <2>2. RangeLevels(side, anchor, remaining, p.size, p) =
           {Quote(side, l, price(l), RangeSize(p.size, remaining, l)) :
              l \in {k \in 1 .. p.levels : p.size > 0 /\ remaining - (k - 1) * p.size > 0}}
    BY DEF RangeLevels, RangeSize
  <2> HIDE DEF price
  <2>3. PICK l \in 1 .. p.levels :
           /\ p.size > 0 /\ remaining - (l - 1) * p.size > 0
           /\ x = Quote(side, l, price(l), RangeSize(p.size, remaining, l))
    BY <2>1, <2>2
  <2>4. /\ x.side = side /\ x.level = l /\ x.price = price(l)
        /\ x.size = RangeSize(p.size, remaining, l)
    BY <2>3 DEF Quote
  <2>5. q.level = l /\ q.side = side /\ q.size = RangeSize(p.size, remaining, l)
    BY <2>1, <2>4
  <2>6. l \in Nat \ {0}
    OBVIOUS
  <2>. QED
    BY <2>1, <2>3, <2>4, <2>5, <2>6
<1> HIDE DEF price
<1>2. ASSUME NEW q \in Q, NEW r \in Q, q.level = r.level PROVE q = r
  BY <1>1, <1>2, Zenon
<1>3. \A q \in Q : /\ q.level \in Nat \ {0} /\ p.size > 0
                   /\ remaining - (q.level - 1) * p.size > 0
                   /\ q.size = RangeSize(p.size, remaining, q.level)
  BY <1>1
<1>4. \A q, r \in Q : q.level = r.level => q = r
  BY <1>2
<1>5. TotalSize(Q) \in Nat /\ TotalSize(Q) <= remaining
  BY <1>3, <1>4, LevelsWithinRemaining
<1>. QED
  BY <1>1, <1>5

LEMMA BuysWithin ==
  ASSUME NEW p, p.size \in Int, p.levels \in Int, NEW anchor, NEW remaining \in Int, remaining > 0,
         NEW Q, AllNamedBy(p, Q, RangeLevels("buy", anchor, remaining, p.size, p))
  PROVE  /\ TotalSize(Q) \in Nat /\ TotalSize(Q) <= remaining
         /\ \A q \in Q : q.side = "buy"
BY RangeSideWithin

LEMMA SellsWithin ==
  ASSUME NEW p, p.size \in Int, p.levels \in Int, NEW anchor, NEW remaining \in Int, remaining > 0,
         NEW Q, AllNamedBy(p, Q, RangeLevels("sell", anchor, remaining, p.size, p))
  PROVE  /\ TotalSize(Q) \in Nat /\ TotalSize(Q) <= remaining
         /\ \A q \in Q : q.side = "sell"
BY RangeSideWithin

\* What the property says of one plugin, in numbers.
StopsAt(target, available, total, bought, sold) ==
    /\ bought > 0 => total + bought <= target
    /\ sold > 0 => total - sold >= target /\ sold <= available

LEMMA QuotedByRange ==
  ASSUME ReplayInv, NEW i \in DOMAIN portfolio, NEW p, p = portfolio[i], p.kind = "range_rebalance"
  PROVE  AllNamedBy(p, answers[i], RangeQuotes(p, markets[p.symbol], Base(p)))
<1> DEFINE m == markets[p.symbol]
           wanted == RangeQuotes(p, m, Base(p))
<1>1. answers[i] = {} \/ answers[i] = Quoted(portfolio, i, markets, memory)
  BY DEF ReplayInv
<1>2. OnTimer(p, m, Adjustment(portfolio, p.symbol, i), Base(p), memory[i]) = wanted
  BY DEF OnTimer
<1>3. Quoted(portfolio, i, markets, memory) =
         IF p.symbol \notin DOMAIN markets THEN {}
         ELSE {NamedBy(p, x) : x \in OnTimer(p, m, Adjustment(portfolio, p.symbol, i), Base(p), memory[i])}
  BY Zenon DEF Quoted, NamedBy
<1> HIDE DEF wanted
<1>4. answers[i] = {} \/ answers[i] = {NamedBy(p, x) : x \in wanted}
  BY <1>1, <1>2, <1>3
<1>. QED
  BY <1>4 DEF AllNamedBy, wanted

LEMMA RangeStops == ReplayInv => RangeStopsAtTarget
<1> SUFFICES ASSUME ReplayInv, NEW i \in DOMAIN portfolio, portfolio[i].kind = "range_rebalance"
             PROVE  StopsAt(portfolio[i].target, Base(portfolio[i]).available,
                            Base(portfolio[i]).available + Base(portfolio[i]).frozen,
                            TotalSize(QuotesOn(i, "buy")), TotalSize(QuotesOn(i, "sell")))
  BY Zenon DEF RangeStopsAtTarget, QuotesOn, StopsAt
<1>0. PICK p : p = portfolio[i]
  OBVIOUS
<1>1. p.size \in Int /\ p.target \in Int /\ p.levels \in Int /\ p.symbol \in Symbols
  BY <1>0, Configured, Zenon DEF Numbers
<1>2. Base(p).available \in Nat /\ Base(p).frozen \in Nat
  <2>1. account \in Accounts
    BY DEF ReplayInv
  <2>. QED
    BY <1>1, <2>1, ReplayAssumption DEF Base
<1>3. PICK total \in Nat : total = Base(p).available + Base(p).frozen
  BY <1>2
<1>4. PICK available \in Nat : available = Base(p).available
  BY <1>2
<1>5. PICK target \in Int : target = p.target
  BY <1>1
<1>6. PICK bid, ask : bid = markets[p.symbol].bid /\ ask = markets[p.symbol].ask
  OBVIOUS
<1>7. PICK wanted : wanted = RangeQuotes(p, markets[p.symbol], Base(p))
  OBVIOUS
<1>8. PICK above \in Int : above = total - target
  BY <1>3, <1>5
<1>9. PICK below \in Int : below = target - total
  BY <1>3, <1>5
<1>10. \/ wanted = {}
       \/ wanted = RangeLevels("buy", bid, below, p.size, p) /\ total < target
       \/ wanted = RangeLevels("sell", ask, Sets!Min({above, available}), p.size, p) /\ total > target
  BY <1>3, <1>4, <1>5, <1>6, <1>7, <1>8, <1>9 DEF RangeQuotes
<1>11. AllNamedBy(p, answers[i], wanted)
  BY <1>0, <1>7, QuotedByRange
<1> DEFINE bought == TotalSize(QuotesOn(i, "buy"))
           sold == TotalSize(QuotesOn(i, "sell"))
<1>12. StopsAt(target, available, total, bought, sold)
  <2>1. ASSUME wanted = {} PROVE bought = 0 /\ sold = 0
    <3>1. QuotesOn(i, "buy") = {} /\ QuotesOn(i, "sell") = {}
      BY <1>11, <2>1 DEF AllNamedBy, QuotesOn
    <3>. QED
      BY <3>1, TotalOfNothing
  <2>2. CASE wanted = {}
    <3> HIDE DEF bought, sold
    <3>. QED
      BY <2>1, <2>2 DEF StopsAt
  <2>3. CASE wanted = RangeLevels("buy", bid, below, p.size, p) /\ total < target
    <3>1. below > 0
      BY <1>9, <2>3
    <3>2. AllNamedBy(p, answers[i], RangeLevels("buy", bid, below, p.size, p))
      BY <1>11, <2>3
    <3>3. /\ TotalSize(answers[i]) \in Nat /\ TotalSize(answers[i]) <= below
          /\ \A q \in answers[i] : q.side = "buy"
      BY <1>1, <3>1, <3>2, BuysWithin
    <3>4. QuotesOn(i, "buy") = answers[i] /\ QuotesOn(i, "sell") = {}
      BY <3>3 DEF QuotesOn
    <3>5. bought \in Nat /\ bought <= below /\ sold = 0
      BY <3>3, <3>4, TotalOfNothing
    <3> HIDE DEF bought, sold
    <3>. QED
      BY <1>9, <3>5 DEF StopsAt
  <2>4. CASE wanted = RangeLevels("sell", ask, Sets!Min({above, available}), p.size, p) /\ total > target
    <3>1. PICK rest : rest = Sets!Min({above, available})
      OBVIOUS
    <3>2. rest \in Int /\ rest <= above /\ rest <= available
      <4>1. available \in Int
        OBVIOUS
      <4>. QED
        BY <3>1, <4>1, MinOfTwo, Zenon
    <3>3. AllNamedBy(p, answers[i], RangeLevels("sell", ask, rest, p.size, p))
      BY <1>11, <2>4, <3>1
    <3>4. CASE rest > 0
      <4>1. /\ TotalSize(answers[i]) \in Nat /\ TotalSize(answers[i]) <= rest
            /\ \A q \in answers[i] : q.side = "sell"
        BY <1>1, <3>2, <3>3, <3>4, SellsWithin
      <4>2. QuotesOn(i, "sell") = answers[i] /\ QuotesOn(i, "buy") = {}
        BY <4>1 DEF QuotesOn
      <4>3. sold \in Nat /\ sold <= rest /\ bought = 0
        BY <4>1, <4>2, TotalOfNothing
      <4> HIDE DEF bought, sold
      <4>. QED
        BY <1>8, <3>2, <4>3 DEF StopsAt
    <3>5. CASE ~(rest > 0)
      <4>1. ASSUME NEW l \in 1 .. p.levels, p.size > 0 PROVE ~(rest - (l - 1) * p.size > 0)
        <5>1. l - 1 \in Nat /\ p.size \in Nat
          BY <1>1, <4>1
        <5>2. (l - 1) * p.size \in Nat
          BY <5>1
        <5>. QED
          BY <3>2, <3>5, <5>2
      <4>2. wanted = {}
        BY <2>4, <3>1, <4>1 DEF RangeLevels
      <4> HIDE DEF bought, sold
      <4>. QED
        BY <2>1, <4>2 DEF StopsAt
    <3>. QED
      BY <3>4, <3>5
  <2>. QED
    BY <1>10, <2>2, <2>3, <2>4
<1>. QED
  BY <1>0, <1>3, <1>4, <1>5, <1>12

\* However many levels a range_rebalance plugin quotes, filling all of them does
\* not take its inventory past the target, and sells nothing that is frozen
\* (range_rebalance.py:35-115): for any parameters, balances and books.
THEOREM RangeAlwaysStopsAtTarget == Spec => []RangeStopsAtTarget
BY ReplayInductive, RangeStops, PTL

-----------------------------------------------------------------------------
(* Histories.                                                                *)

\* A recursive function on 0..n has a solution.
SinceStep(h, c, f, n) ==
    IF n = 0 THEN <<>> ELSE IF h[n].ts >= c THEN Append(f[n - 1], h[n]) ELSE f[n - 1]
SinceIs(h, c, m, f) == f = [n \in 0 .. m |-> SinceStep(h, c, f, n)]

LEMMA SinceExists ==
  ASSUME NEW h, NEW c, NEW n \in Nat
  PROVE  \E f : SinceIs(h, c, n, f)
<1> DEFINE Bad == {m \in Nat : ~\E f : SinceIs(h, c, m, f)}
<1> SUFFICES ASSUME Bad # {} PROVE FALSE
  OBVIOUS
<1>1. PICK m \in Bad : \A k \in Bad : m <= k
  BY NatHasLeast
<1>2. m \in Nat /\ ~\E f : SinceIs(h, c, m, f)
  OBVIOUS
<1>3. CASE m = 0
  <2> DEFINE f == [k \in 0 .. 0 |-> <<>>]
  <2>1. f = [k \in 0 .. 0 |-> SinceStep(h, c, f, k)]
    BY DEF SinceStep
  <2>2. SinceIs(h, c, m, f)
    BY <1>3, <2>1 DEF SinceIs
  <2>. QED
    BY <1>2, <2>2
<1>4. CASE m # 0
  <2>1. m - 1 \in Nat /\ m - 1 \notin Bad
    BY <1>1, <1>2, <1>4
  <2>2. PICK g : SinceIs(h, c, m - 1, g)
    BY <2>1
  <2> DEFINE f == [k \in 0 .. m |-> IF k = m THEN SinceStep(h, c, g, m) ELSE g[k]]
  <2>3. ASSUME NEW k \in 0 .. m PROVE f[k] = SinceStep(h, c, f, k)
    <3>1. CASE k = m
      <4>1. f[m - 1] = g[m - 1] /\ f[m] = SinceStep(h, c, g, m)
        BY <1>2, <2>1
      <4> HIDE DEF f
      <4>. QED
        BY <3>1, <4>1 DEF SinceStep
    <3>2. CASE k # m
      <4>1. k \in 0 .. (m - 1) /\ f[k] = g[k]
        BY <1>2, <3>2
      <4>2. g[k] = SinceStep(h, c, g, k)
        BY <2>2, <4>1 DEF SinceIs
      <4>3. k # 0 => f[k - 1] = g[k - 1]
        BY <1>2, <4>1
      <4> HIDE DEF f
      <4>. QED
        BY <4>1, <4>2, <4>3 DEF SinceStep
    <3>. QED
      BY <3>1, <3>2
  <2>4. f = [k \in 0 .. m |-> SinceStep(h, c, f, k)]
    <3>1. f = [k \in 0 .. m |-> f[k]]
      OBVIOUS
    <3> HIDE DEF f
    <3>. QED
      BY <2>3, <3>1
  <2> HIDE DEF f
  <2>5. SinceIs(h, c, m, f)
    BY <2>4 DEF SinceIs
  <2>. QED
    BY <1>2, <2>5
<1>. QED
  BY <1>3, <1>4

\* What is kept of a history: entries that are recent.
LEMMA SinceKeeps ==
  ASSUME NEW E, NEW h \in Seq(E), NEW c
  PROVE  Since(h, c) \in Seq({e \in E : e.ts >= c})
<1> DEFINE Recent == {e \in E : e.ts >= c}
           f == CHOOSE g : g = [n \in 0 .. Len(h) |-> SinceStep(h, c, g, n)]
<1>1. Since(h, c) = f[Len(h)]
  BY DEF Since, SinceStep
<1>2. f = [n \in 0 .. Len(h) |-> SinceStep(h, c, f, n)]
  <2>1. Len(h) \in Nat
    OBVIOUS
  <2>2. \E g : g = [n \in 0 .. Len(h) |-> SinceStep(h, c, g, n)]
    BY <2>1, SinceExists DEF SinceIs
  <2>. QED
    BY <2>2
<1> HIDE DEF f
<1> DEFINE Bad == {n \in 0 .. Len(h) : f[n] \notin Seq(Recent)}
<1>3. Bad = {}
  <2> SUFFICES ASSUME Bad # {} PROVE FALSE
    OBVIOUS
  <2>1. Bad \in SUBSET Nat
    OBVIOUS
  <2>2. PICK n \in Bad : \A k \in Bad : n <= k
    BY <2>1, NatHasLeast
  <2>3. n \in 0 .. Len(h) /\ f[n] \notin Seq(Recent) /\ f[n] = SinceStep(h, c, f, n)
    BY <1>2, <2>2
  <2>4. n # 0
    BY <2>3 DEF SinceStep
  <2>5. f[n - 1] \in Seq(Recent) /\ h[n] \in E
    BY <2>2, <2>3, <2>4
  <2>6. h[n].ts >= c => h[n] \in Recent
    BY <2>5
  <2> HIDE DEF Recent, Bad
  <2>7. SinceStep(h, c, f, n) \in Seq(Recent)
    BY <2>4, <2>5, <2>6 DEF SinceStep
  <2>. QED
    BY <2>3, <2>7
<1>4. Len(h) \in 0 .. Len(h)
  OBVIOUS
<1>. QED
  BY <1>1, <1>3, <1>4

-----------------------------------------------------------------------------
(* Sums.                                                                     *)

\* The units of natural numbers, and how many they are.
Counted(f, T) == UNION {{x} \X (1 .. f[x]) : x \in T}
Count(f, T) == Cardinality(Counted(f, T))

\* The units of one member are as many as its amount.
LEMMA UnitsOfOne ==
    ASSUME NEW x, NEW n \in Nat
    PROVE  IsFiniteSet({x} \X (1..n)) /\ Cardinality({x} \X (1..n)) = n
<1>1. IsFiniteSet({x}) /\ Cardinality({x}) = 1
  BY FS_Singleton, Zenon
<1>2. IsFiniteSet(1..n) /\ Cardinality(1..n) = n
  BY FS_Interval
<1> DEFINE I == 1..n
<1> HIDE DEF I
<1>3. /\ IsFiniteSet({x} \X I)
      /\ Cardinality({x} \X I) = Cardinality({x}) * Cardinality(I)
  BY <1>1, <1>2, FS_Product, Zenon DEF I
<1>4. Cardinality(I) = n
  BY <1>2 DEF I
<1>5. Cardinality({x} \X I) = n
  BY <1>1, <1>3, <1>4
<1> QED BY <1>3, <1>5 DEF I

\* What SumFunction takes from the rest of a set.
AddStep(f, g, T) ==
    IF T = {} THEN 0 ELSE LET x == CHOOSE y \in T : TRUE IN f[x] + g[T \ {x}]

\* The fold is a recursive function on the subsets.
LEMMA SumUnfolds ==
  ASSUME NEW f
  PROVE  Sets!SumFunction(f)
            = (CHOOSE g : g = [T \in SUBSET (DOMAIN f) |-> AddStep(f, g, T)])[DOMAIN f]
  BY DEF Sets!SumFunction, Sets!SumFunctionOnSet, Sets!FoldFunctionOnSet, Sets!MapThenFoldSet, AddStep

\* Finitely many natural numbers have finitely many units.
LEMMA CountFinite ==
  ASSUME NEW f, NEW T, IsFiniteSet(T), \A y \in T : f[y] \in Nat
  PROVE  IsFiniteSet(Counted(f, T)) /\ Count(f, T) \in Nat
<1> DEFINE one == [y \in T |-> {y} \X (1 .. f[y])]
           ones == {one[y] : y \in T}
<1>1. IsFiniteSet(ones)
  <2>1. one \in Surjection(T, ones)
    BY DEF Surjection
  <2>. QED
    BY <2>1, FS_Surjection
<1>2. ASSUME NEW y \in T PROVE IsFiniteSet(one[y])
  <2>1. PICK n \in Nat : n = f[y]
    OBVIOUS
  <2>2. one[y] = {y} \X (1 .. n)
    BY <2>1
  <2>. QED
    BY <2>2, UnitsOfOne
<1>3. Counted(f, T) = UNION ones
  BY DEF Counted
<1>4. \A part \in ones : IsFiniteSet(part)
  BY <1>2
<1> HIDE DEF one, ones
<1>5. IsFiniteSet(UNION ones)
  BY <1>1, <1>4, FS_UNION
<1>. QED
  BY <1>3, <1>5, FS_CardinalityType DEF Count

\* One more number.
LEMMA CountAdds ==
  ASSUME NEW f, NEW T, IsFiniteSet(T), \A y \in T : f[y] \in Nat, NEW x \in T
  PROVE  /\ Count(f, T) \in Nat /\ Count(f, T \ {x}) \in Nat
         /\ Count(f, T) = f[x] + Count(f, T \ {x})
<1>1. ASSUME NEW S \in SUBSET T PROVE IsFiniteSet(Counted(f, S))
  <2>1. IsFiniteSet(S)
    BY FS_Subset
  <2>. QED
    BY <2>1, CountFinite
<1>2. PICK n \in Nat : n = f[x]
  OBVIOUS
<1>3. PICK last : last = {x} \X (1 .. n)
  OBVIOUS
<1>4. PICK rest : rest = Counted(f, T \ {x})
  OBVIOUS
<1>5. IsFiniteSet(last) /\ Cardinality(last) = n
  BY <1>3, UnitsOfOne
<1>6. IsFiniteSet(rest) /\ IsFiniteSet(Counted(f, T))
  BY <1>1, <1>4
<1>7. Counted(f, T) = rest \cup last /\ rest \cap last = {}
  BY <1>2, <1>3, <1>4, SMT DEF Counted
<1>8. Cardinality(rest \cup last) = Cardinality(rest) + Cardinality(last) - Cardinality(rest \cap last)
  BY <1>5, <1>6, FS_Union
<1>9. Cardinality(rest \cap last) = 0 /\ Cardinality(rest) \in Nat /\ Cardinality(Counted(f, T)) \in Nat
  BY <1>6, <1>7, FS_EmptySet, FS_CardinalityType
<1>. QED
  BY <1>2, <1>4, <1>5, <1>7, <1>8, <1>9 DEF Count

\* The sum of natural numbers is the count of their units, whichever is taken next.
LEMMA SumIsCount ==
  ASSUME NEW f, IsFiniteSet(DOMAIN f), \A x \in DOMAIN f : f[x] \in Nat
  PROVE  Sets!SumFunction(f) \in Nat
<1> DEFINE D == DOMAIN f
           Sums(g) == g = [T \in SUBSET D |-> AddStep(f, g, T)]
           known == [T \in SUBSET D |-> Count(f, T)]
           sum == CHOOSE g : Sums(g)
<1>1. Count(f, {}) = 0
  <2>1. Counted(f, {}) = {}
    BY DEF Counted
  <2>. QED
    BY <2>1, FS_EmptySet DEF Count
<1>2. ASSUME NEW T \in SUBSET D PROVE IsFiniteSet(T)
  BY FS_Subset
<1>3. ASSUME NEW T \in SUBSET D, T # {}, NEW g, NEW x \in T, x = CHOOSE y \in T : TRUE,
             g[T \ {x}] = Count(f, T \ {x})
      PROVE  AddStep(f, g, T) = Count(f, T)
  <2>1. Count(f, T) = f[x] + Count(f, T \ {x})
    BY <1>2, CountAdds
  <2>2. AddStep(f, g, T) = f[x] + g[T \ {x}]
    BY <1>3, Zenon DEF AddStep
  <2>. QED
    BY <1>3, <2>1, <2>2
<1>4. ASSUME NEW g PROVE AddStep(f, g, {}) = Count(f, {})
  BY <1>1 DEF AddStep
<1>5. ASSUME NEW T \in SUBSET D, T # {} PROVE (CHOOSE y \in T : TRUE) \in T
  BY <1>5
<1>6. Sums(known)
  <2>1. ASSUME NEW T \in SUBSET D PROVE AddStep(f, known, T) = Count(f, T)
    <3>1. CASE T = {}
      BY <1>4, <3>1
    <3>2. CASE T # {}
      <4>1. PICK x \in T : x = CHOOSE y \in T : TRUE
        BY <1>5, <3>2
      <4>2. known[T \ {x}] = Count(f, T \ {x})
        OBVIOUS
      <4> HIDE DEF known, D
      <4>. QED
        BY <1>3, <3>2, <4>1, <4>2
    <3>. QED
      BY <3>1, <3>2
  <2>. QED
    BY <2>1
<1>7. Sums(sum)
  <2> HIDE DEF Sums, known
  <2>. QED
    BY <1>6, Zenon
<1> HIDE DEF sum, known
<1>8. \A T \in SUBSET D : sum[T] = Count(f, T)
  <2> DEFINE Wrong == {T \in SUBSET D : sum[T] # Count(f, T)}
  <2> SUFFICES ASSUME Wrong # {} PROVE FALSE
    OBVIOUS
  <2>1. Wrong \subseteq FiniteSubsetsOf(D)
    BY <1>2 DEF FiniteSubsetsOf
  <2>2. PICK T \in Wrong : \A S \in Wrong : <<S, T>> \notin StrictSubsetOrdering(D)
    BY <2>1, FS_StrictSubsetOrderingWellFounded, WFMin
  <2>3. sum[T] = AddStep(f, sum, T)
    BY <1>7
  <2>4. T # {}
    BY <1>4, <2>2, <2>3
  <2>5. PICK x \in T : x = CHOOSE y \in T : TRUE
    BY <1>5, <2>4
  <2>7. sum[T \ {x}] = Count(f, T \ {x})
    <3>1. <<T \ {x}, T>> \in StrictSubsetOrdering(D)
      BY DEF StrictSubsetOrdering
    <3>. QED
      BY <2>2, <3>1
  <2>8. sum[T] = Count(f, T)
    BY <1>3, <2>3, <2>4, <2>5, <2>7
  <2>. QED
    BY <2>8
<1>9. Sets!SumFunction(f) = sum[D]
  BY SumUnfolds DEF sum
<1>10. Count(f, D) \in Nat
  <2>1. CASE D = {}
    BY <1>1, <2>1
  <2>2. CASE D # {}
    BY <2>2, CountAdds
  <2>. QED
    BY <2>1, <2>2
<1>. QED
  BY <1>8, <1>9, <1>10

-----------------------------------------------------------------------------
(* The histories of the plugins.                                             *)

\* An entry of a history, and a plugin that keeps one.
Entry == [ts : Nat, mid2 : Nat \ {0}]
KeepsHistory(p) == p.kind \in {"volatility_spread", "avellaneda_stoikov"}

\* A history is what was seen in a window up to some moment.
Windows(p, t) == {e \in Entry : t - p.window <= e.ts /\ e.ts <= t}
HistoryInv ==
    /\ now \in Nat /\ fed \in 0 .. MaxEvents
    /\ DOMAIN memory = DOMAIN portfolio
    /\ \A i \in DOMAIN portfolio :
          /\ KeepsHistory(portfolio[i]) => \E t \in 0 .. now : memory[i] \in Seq(Windows(portfolio[i], t))
          /\ ~KeepsHistory(portfolio[i]) => memory[i] = <<>>

\* A snapshot adds the newest entry and takes the old ones out.
LEMMA RememberFacts ==
  ASSUME NEW p, p.window \in Nat, NEW h \in Seq(Entry), NEW t \in Nat, NEW mid2 \in Nat \ {0},
         \A k \in DOMAIN h : h[k].ts <= t
  PROVE  Remember(h, p, t, mid2) \in Seq(Windows(p, t))
<1> DEFINE Old == {e \in Entry : e.ts <= t}
           new == [ts |-> t, mid2 |-> mid2]
<1>1. new \in Old
  BY DEF Entry
<1>2. h \in Seq(Old)
  <2>1. \A k \in 1 .. Len(h) : h[k] \in Old
    OBVIOUS
  <2> HIDE DEF Old
  <2>. QED
    BY <2>1
<1> HIDE DEF new, Old
<1>3. Append(h, new) \in Seq(Old)
  BY <1>1, <1>2
<1>4. PICK c : c = t - p.window
  OBVIOUS
<1>5. Since(Append(h, new), c) \in Seq({e \in Old : e.ts >= c})
  BY <1>3, SinceKeeps
<1>6. {e \in Old : e.ts >= c} = Windows(p, t)
  BY <1>4 DEF Old, Windows, Entry
<1>. QED
  BY <1>4, <1>5, <1>6 DEF Remember, new

LEMMA HistoryInductive == Spec => []HistoryInv
<1>1. Init => HistoryInv
  <2> SUFFICES ASSUME Init PROVE HistoryInv
    OBVIOUS
  <2>1. \A i \in DOMAIN portfolio : memory[i] = <<>> /\ <<>> \in Seq(Windows(portfolio[i], 0))
    BY DEF Init
  <2>. QED
    BY <2>1, ReplayAssumption DEF Init, HistoryInv
<1>2. ReplayInv /\ HistoryInv /\ [Next]_vars => HistoryInv'
  <2> SUFFICES ASSUME ReplayInv, HistoryInv, [Next]_vars PROVE HistoryInv'
    OBVIOUS
  <2>1. ASSUME NEW s \in Symbols, NEW m \in Books, NEW delay \in Delays, Replay(s, m, delay)
        PROVE  HistoryInv'
    <3>1. portfolio' = portfolio /\ fed' \in 0 .. MaxEvents
      BY <2>1, ReplayAssumption DEF Replay, HistoryInv
    <3>2. PICK t \in Nat : t = now' /\ now <= t
      BY <2>1, ReplayAssumption DEF Replay, HistoryInv
    <3>3. memory' = [i \in DOMAIN portfolio |-> Remembered(portfolio[i], memory[i], s, m, t)]
      BY <2>1, <3>2 DEF Replay
    <3>4. Mid2(m) \in Nat \ {0}
      BY ReplayAssumption DEF Mid2
    <3>5. ASSUME NEW i \in DOMAIN portfolio, KeepsHistory(portfolio[i])
          PROVE  \E u \in 0 .. t : memory'[i] \in Seq(Windows(portfolio[i], u))
      <4>1. PICK p : p = portfolio[i]
        OBVIOUS
      <4>2. p.window \in Nat
        BY <3>5, <4>1, Configured, Zenon DEF Numbers, KeepsHistory
      <4>3. PICK h : h = memory[i]
        OBVIOUS
      <4>4. PICK u \in 0 .. now : h \in Seq(Windows(p, u))
        BY <3>5, <4>1, <4>3 DEF HistoryInv
      <4>5. memory'[i] = Remembered(p, h, s, m, t)
        BY <3>3, <4>1, <4>3
      <4>6. now \in Nat
        BY DEF HistoryInv
      <4>7. CASE p.symbol = s
        <5>1. memory'[i] = Remember(h, p, t, Mid2(m))
          BY <3>5, <4>1, <4>5, <4>7 DEF Remembered, KeepsHistory
        <5>2. h \in Seq(Entry)
          BY <4>4 DEF Windows
        <5>3. ASSUME NEW k \in DOMAIN h PROVE h[k].ts <= t
          <6>1. h[k] \in Windows(p, u)
            BY <4>4
          <6>2. h[k].ts \in Nat /\ h[k].ts <= u
            BY <6>1 DEF Windows, Entry
          <6>. QED
            BY <3>2, <4>6, <6>2
        <5>4. PICK mid2 \in Nat \ {0} : mid2 = Mid2(m)
          BY <3>4
        <5>5. Remember(h, p, t, mid2) \in Seq(Windows(p, t))
          BY <4>2, <5>2, <5>3, RememberFacts
        <5>. QED
          BY <4>1, <5>1, <5>4, <5>5
      <4>8. CASE p.symbol # s
        <5>1. memory'[i] = h
          BY <4>5, <4>8 DEF Remembered
        <5>. QED
          BY <3>2, <4>1, <4>4, <4>6, <5>1
      <4>. QED
        BY <4>7, <4>8
    <3>6. ASSUME NEW i \in DOMAIN portfolio, ~KeepsHistory(portfolio[i])
          PROVE  memory'[i] = <<>>
      <4>1. memory'[i] = memory[i]
        BY <3>3, <3>6 DEF Remembered, KeepsHistory
      <4>. QED
        BY <3>6, <4>1 DEF HistoryInv
    <3>7. DOMAIN memory' = DOMAIN portfolio'
      BY <3>1, <3>3
    <3>. QED
      BY <3>1, <3>2, <3>5, <3>6, <3>7 DEF HistoryInv, Windows, KeepsHistory
  <2>2. CASE UNCHANGED vars
    BY <2>2 DEF vars, HistoryInv, Windows, KeepsHistory
  <2>. QED
    BY <2>1, <2>2 DEF Next
<1>. QED
  BY <1>1, <1>2, ReplayInductive, PTL DEF Spec

-----------------------------------------------------------------------------
(* What the strategies compute are numbers.                                  *)

LEMMA ClampIsInt ==
  ASSUME NEW x \in Int, NEW low \in Int, NEW high \in Int
  PROVE  Clamp(x, low, high) \in Int /\ Clamp(x, low, high) >= low
BY DEF Clamp

\* What a history holds.
LEMMA EntryFacts ==
  ASSUME NEW h \in Seq(Entry)
  PROVE  /\ Len(h) \in Nat /\ DOMAIN h = 1 .. Len(h)
         /\ \A i \in 1 .. Len(h) : h[i].mid2 \in Nat \ {0}
<1>1. Len(h) \in Nat /\ DOMAIN h = 1 .. Len(h) /\ \A i \in 1 .. Len(h) : h[i] \in Entry
  OBVIOUS
<1>. QED
  BY <1>1 DEF Entry

\* The smallest and the greatest mid of a history.
LEMMA MidExtremes ==
  ASSUME NEW h \in Seq(Entry), Len(h) > 0
  PROVE  Sets!Max(Mids(h)) \in Nat /\ Sets!Min(Mids(h)) \in Nat
<1>0. PICK f : f = [i \in 1 .. Len(h) |-> h[i].mid2]
  OBVIOUS
<1>1. PICK n \in Nat : n = Len(h)
  OBVIOUS
<1>2. PICK D : D = 1 .. n
  OBVIOUS
<1>3. IsFiniteSet(D) /\ D # {} /\ DOMAIN h = D
  <2>1. IsFiniteSet(D)
    BY <1>2, FS_Interval
  <2>2. 1 \in D
    BY <1>1, <1>2
  <2>. QED
    BY <1>1, <1>2, <2>1, <2>2, EntryFacts
<1>4. ASSUME NEW i \in D PROVE f[i] \in Nat \ {0} /\ f[i] = h[i].mid2
  BY <1>0, <1>1, <1>2, EntryFacts
<1>5. PICK top : top = Count(f, D)
  OBVIOUS
<1>6. ASSUME NEW i \in D PROVE f[i] \in Nat /\ top \in Nat /\ f[i] <= top
  <2>1. Count(f, D) \in Nat /\ Count(f, D \ {i}) \in Nat /\ Count(f, D) = f[i] + Count(f, D \ {i})
    <3>1. IsFiniteSet(D) /\ \A y \in D : f[y] \in Nat
      BY <1>3, <1>4
    <3>2. Count(f, D) \in Nat /\ Count(f, D \ {i}) \in Nat
      BY <3>1, CountAdds
    <3>3. Count(f, D) = f[i] + Count(f, D \ {i})
      BY <3>1, CountAdds
    <3>. QED
      BY <3>2, <3>3
  <2>2. PICK n1 \in Nat, n2 \in Nat, n3 \in Nat :
           n1 = Count(f, D) /\ n2 = f[i] /\ n3 = Count(f, D \ {i}) /\ n1 = n2 + n3
    BY <1>4, <2>1
  <2>3. n2 <= n1
    BY <2>2
  <2>. QED
    BY <1>5, <2>2, <2>3
<1>7. Mids(h) \in SUBSET (1 .. top) /\ Mids(h) # {} /\ top \in Nat
  BY <1>3, <1>4, <1>6 DEF Mids
<1>8. \E x \in Mids(h) : \A y \in Mids(h) : y <= x
  BY <1>7, IndexHasGreatest
<1>9. \E x \in Mids(h) : \A y \in Mids(h) : x <= y
  BY <1>7, NatHasLeast
<1>10. \A x, y \in Mids(h) : y <= x <=> x >= y
  BY <1>7
<1>11. Sets!Max(Mids(h)) \in Mids(h) /\ Sets!Min(Mids(h)) \in Mids(h)
  <2>1. \E x \in Mids(h) : \A y \in Mids(h) : x >= y
    BY <1>8, <1>10
  <2>. QED
    BY <1>9, <2>1 DEF Sets!Max, Sets!Min
<1>. QED
  BY <1>7, <1>11

\* The spread of volatility_spread stays above its minimum.
LEMMA DynamicSpreadFacts ==
  ASSUME NEW p, p.spread \in Int, p.multiplier \in Int, p.minSpread \in Int, p.maxSpread \in Int,
         NEW h \in Seq(Entry)
  PROVE  DynamicSpread(h, p) \in Int /\ DynamicSpread(h, p) >= p.minSpread
<1>1. CASE Len(h) < 2
  BY <1>1, ClampIsInt DEF DynamicSpread
<1>2. CASE ~(Len(h) < 2)
  <2>1. PICK n \in Nat : n = Len(h) /\ n >= 2
    BY <1>2
  <2>2. PICK latest \in Nat \ {0} : latest = h[Len(h)].mid2
    BY <2>1, EntryFacts
  <2>3. PICK top \in Nat : top = Sets!Max(Mids(h))
    BY <2>1, MidExtremes
  <2>4. PICK bottom \in Nat : bottom = Sets!Min(Mids(h))
    BY <2>1, MidExtremes
  <2>5. PICK x \in Int : x = (top - bottom) * BPS
    BY BPSAssumption
  <2>6. PICK v \in Int : v = x \div latest
    BY Division
  <2>7. PICK y \in Int : y = p.spread + v * p.multiplier
    OBVIOUS
  <2>8. DynamicSpread(h, p) = Clamp(y, p.minSpread, p.maxSpread)
    BY <1>2, <2>2, <2>3, <2>4, <2>5, <2>6, <2>7 DEF DynamicSpread
  <2>9. PICK low \in Int, high \in Int : low = p.minSpread /\ high = p.maxSpread
    OBVIOUS
  <2>10. Clamp(y, low, high) \in Int /\ Clamp(y, low, high) >= low
    BY ClampIsInt
  <2>. QED
    BY <2>8, <2>9, <2>10
<1>. QED
  BY <1>1, <1>2

\* A natural number has a root.
LEMMA RootFacts ==
  ASSUME NEW n \in Nat
  PROVE  Root(n) \in Nat
<1> DEFINE Above == {k \in Nat : (k + 1) * (k + 1) > n}
<1>1. n \in Above
  <2>1. (n + 1) * (n + 1) = n * n + n + n + 1 /\ n * n \in Nat
    OBVIOUS
  <2>. QED
    BY <2>1
<1>2. PICK r \in Above : \A k \in Above : r <= k
  BY <1>1, NatHasLeast
<1>3. r \in Nat /\ r <= n /\ (r + 1) * (r + 1) > n
  BY <1>1, <1>2
<1>4. r * r <= n
  <2>1. CASE r = 0
    BY <2>1
  <2>2. CASE r # 0
    <3>1. PICK k \in Nat : r = k + 1
      BY <1>3, <2>2, Predecessor
    <3>2. k \notin Above
      BY <1>2, <3>1
    <3>3. (k + 1) * (k + 1) <= n
      BY <3>2
    <3>. QED
      BY <3>1, <3>3
  <2>. QED
    BY <2>1, <2>2
<1>5. \E k \in 0 .. n : k * k <= n /\ (k + 1) * (k + 1) > n
  BY <1>3, <1>4
<1>6. Root(n) \in 0 .. n
  BY <1>5, Zenon DEF Root
<1>. QED
  BY <1>6

LEMMA AbsIsNat == ASSUME NEW x \in Int PROVE Abs(x) \in Nat
BY DEF Abs

\* The volatility of avellaneda_stoikov.
LEMMA SigmaIsInt ==
  ASSUME NEW p, p.window \in Nat \ {0}, p.horizon \in Nat, p.minSigma \in Int, NEW h \in Seq(Entry)
  PROVE  Sigma(h, p) \in Int
<1>1. CASE Len(h) < 2
  BY <1>1 DEF Sigma
<1>2. CASE ~(Len(h) < 2)
  <2> DEFINE return(i) == (Abs(h[i].mid2 - h[i - 1].mid2) * BPS) \div h[i - 1].mid2
             f == [i \in 2 .. Len(h) |-> return(i) * return(i)]
  <2>1. PICK n \in Nat : n = Len(h) /\ n >= 2
    BY <1>2
  <2>2. ASSUME NEW i \in 2 .. n PROVE return(i) \in Int
    <3>1. PICK before \in Nat \ {0} : before = h[i - 1].mid2
      <4>1. i - 1 \in 1 .. Len(h)
        BY <2>1
      <4>. QED
        BY <4>1, EntryFacts
    <3>2. PICK after \in Nat : after = h[i].mid2
      <4>1. i \in 1 .. Len(h)
        BY <2>1
      <4>. QED
        BY <4>1, EntryFacts
    <3>3. after - before \in Int
      BY <3>1, <3>2
    <3>4. PICK d \in Nat : d = Abs(after - before)
      BY <3>3, AbsIsNat
    <3>5. PICK x \in Int : x = d * BPS
      BY BPSAssumption
    <3>6. return(i) = x \div before
      BY <3>1, <3>2, <3>4, <3>5
    <3>. QED
      BY <3>1, <3>6, Division
  <2> HIDE DEF return
  <2>3. ASSUME NEW x \in Int PROVE x * x \in Nat
    <3>1. CASE x >= 0
      BY <3>1
    <3>2. CASE x < 0
      <4>1. -x \in Nat /\ x * x = (-x) * (-x)
        BY <3>2
      <4>. QED
        BY <4>1
    <3>. QED
      BY <3>1, <3>2
  <2>4. DOMAIN f = 2 .. n /\ \A i \in 2 .. n : f[i] \in Nat
    BY <2>1, <2>2, <2>3
  <2>5. IsFiniteSet(2 .. n)
    BY FS_Interval
  <2> HIDE DEF f
  <2>6. PICK squares \in Nat : squares = Sets!SumFunction(f)
    BY <2>4, <2>5, SumIsCount
  <2>7. PICK x \in Nat : x = squares * p.horizon
    OBVIOUS
  <2>8. PICK y \in Nat \ {0} : y = (Len(h) - 1) * p.window
    <3>1. n - 1 \in Nat \ {0}
      BY <2>1
    <3>2. (n - 1) * p.window \in Nat \ {0}
      BY <3>1
    <3>. QED
      BY <2>1, <3>2
  <2>9. PICK z \in Nat : z = x \div y
    <3>1. x \div y \in Nat
      <4>1. x \div y \in Int /\ x < (x \div y) * y + y
        BY Division
      <4>2. PICK q \in Int : q = x \div y
        BY <4>1
      <4>3. (0 - 1) * y < q * y
        BY <4>1, <4>2
      <4>4. 0 - 1 < q
        BY <4>3, ProductOrder
      <4>. QED
        BY <4>2, <4>4
    <3>. QED
      BY <3>1
  <2>10. PICK s \in Nat : s = Root(z)
    BY RootFacts
  <2>11. Sigma(h, p) = IF s > p.minSigma THEN s ELSE p.minSigma
    <3>1. squares = Sets!SumFunction([i \in 2 .. Len(h) |-> return(i) * return(i)])
      BY <2>6 DEF f
    <3>. QED
      BY <1>2, <2>7, <2>8, <2>9, <2>10, <3>1, Zenon DEF Sigma, return
  <2>. QED
    BY <2>11
<1>. QED
  BY <1>1, <1>2

-----------------------------------------------------------------------------
(* What the plugins read from a book and from the balances.                  *)

\* Ratios are rounded to numbers.
LEMMA RatioIsInt ==
  ASSUME NEW x \in Int, NEW y \in Int, NEW s \in Nat \ {0}
  PROVE  (x * y) \div s \in Int
<1>1. x * y \in Int
  OBVIOUS
<1>. QED
  BY <1>1, Division

LEMMA SkewIsInt ==
  ASSUME NEW p, p.target \in Int, p.skew \in Int,
         NEW base, base.available \in Nat, base.frozen \in Nat
  PROVE  Skew(p, base) \in Int
<1>1. CASE p.target <= 0
  BY <1>1 DEF Skew
<1>2. CASE ~(p.target <= 0)
  <2>1. PICK target \in Nat \ {0}, skew \in Int : target = p.target /\ skew = p.skew
    BY <1>2
  <2>2. PICK low \in Int : low = -target
    OBVIOUS
  <2>3. PICK x \in Int : x = base.available + base.frozen - target
    OBVIOUS
  <2>4. PICK d \in Int : d = Clamp(x, low, target)
    <3>1. target \in Int
      OBVIOUS
    <3>. QED
      BY <3>1, ClampIsInt
  <2>5. PICK q \in Int : q = (d * skew) \div target
    BY RatioIsInt
  <2>6. Skew(p, base) = -q
    BY <1>2, <2>1, <2>2, <2>3, <2>4, <2>5 DEF Skew
  <2>. QED
    BY <2>6
<1>. QED
  BY <1>1, <1>2

LEMMA ShiftIsInt ==
  ASSUME NEW p, p.target \in Int, p.maxInventory \in Int, p.riskAversion \in Int, p.lean \in Int,
         NEW base, base.available \in Nat, base.frozen \in Nat, NEW sigma \in Int
  PROVE  ReservationShift(p, base, sigma) \in Int
<1>1. CASE p.maxInventory <= 0
  BY <1>1 DEF ReservationShift
<1>2. CASE ~(p.maxInventory <= 0)
  <2>1. PICK most \in Nat \ {0}, target \in Int, ra \in Int, lean \in Int :
           most = p.maxInventory /\ target = p.target /\ ra = p.riskAversion /\ lean = p.lean
    BY <1>2
  <2>2. PICK low \in Int : low = -most
    OBVIOUS
  <2>3. PICK x \in Int : x = base.available + base.frozen - target
    OBVIOUS
  <2>4. PICK d \in Int : d = Clamp(x, low, most)
    <3>1. most \in Int
      OBVIOUS
    <3>. QED
      BY <3>1, ClampIsInt
  <2>5. PICK y \in Int : y = d * ra * sigma * lean
    OBVIOUS
  <2>6. PICK q \in Int : q = y \div most
    BY Division
  <2>7. ReservationShift(p, base, sigma) = -q
    BY <1>2, <2>1, <2>2, <2>3, <2>4, <2>5, <2>6 DEF ReservationShift
  <2>. QED
    BY <2>7
<1>. QED
  BY <1>1, <1>2

\* A side of a book.
Side(levels) == IsFiniteSet(levels) /\ \A l \in levels : l.price \in Nat /\ l.size \in Nat

LEMMA SideFacts ==
  ASSUME NEW levels, Side(levels), NEW n, NEW bids
  PROVE  /\ TotalSize(Best(levels, n, bids)) \in Nat
         /\ Notional(Best(levels, n, bids)) \in Nat
<1>1. PICK best : best = Best(levels, n, bids)
  OBVIOUS
<1>2. best \in SUBSET levels
  BY <1>1 DEF Best
<1>3. IsFiniteSet(best) /\ \A l \in best : l.price \in Nat /\ l.size \in Nat
  BY <1>2, FS_Subset DEF Side
<1>4. TotalSize(best) \in Nat
  <2>1. PICK f : f = [l \in best |-> l.size]
    OBVIOUS
  <2>2. \A l \in best : f[l] = l.size /\ f[l] \in Nat
    BY <1>3, <2>1
  <2>3. Count(f, best) \in Nat
    BY <1>3, <2>2, CountFinite
  <2>4. Counted(f, best) = UNION {{l} \X (1 .. l.size) : l \in best}
    BY <2>2 DEF Counted
  <2>. QED
    BY <2>3, <2>4 DEF Count, TotalSize
<1>5. Notional(best) \in Nat
  <2>1. PICK f : f = [l \in best |-> l.price * l.size]
    OBVIOUS
  <2>2. \A l \in best : f[l] \in Nat
    BY <1>3, <2>1
  <2>3. DOMAIN f = best
    BY <2>1
  <2>4. Sets!SumFunction(f) \in Nat
    BY <1>3, <2>2, <2>3, SumIsCount
  <2>. QED
    BY <2>1, <2>4 DEF Notional
<1>. QED
  BY <1>1, <1>4, <1>5

\* A snapshot.
Snapshot(m) == m.bid \in Nat /\ m.ask \in Nat /\ Side(m.bids) /\ Side(m.asks)

LEMMA SnapshotFacts ==
  ASSUME NEW m, Snapshot(m), NEW n
  PROVE  Microprice2(m, n) \in Int /\ Imbalance(m, n) \in Int
<1>1. PICK b \in Nat, x \in Nat : /\ b = TotalSize(Best(m.bids, n, TRUE))
                                  /\ x = Notional(Best(m.bids, n, TRUE))
  BY SideFacts DEF Snapshot
<1>2. PICK a \in Nat, y \in Nat : /\ a = TotalSize(Best(m.asks, n, FALSE))
                                  /\ y = Notional(Best(m.asks, n, FALSE))
  BY SideFacts DEF Snapshot
<1>3. PICK bid \in Nat, ask \in Nat : bid = m.bid /\ ask = m.ask
  BY DEF Snapshot
<1>4. Microprice2(m, n) \in Int
  <2>1. CASE b = 0 \/ a = 0
    <3>1. Microprice2(m, n) = IF a + b = 0 THEN bid + ask ELSE 2 * (IF b = 0 THEN bid ELSE ask)
      BY <1>1, <1>2, <1>3, <2>1, Zenon DEF Microprice2, Mid2
    <3>. QED
      BY <3>1
  <2>2. CASE ~(b = 0 \/ a = 0)
    <3>1. PICK s \in Nat \ {0} : s = a * b * (a + b)
      <4>1. a * b \in Nat \ {0} /\ a + b \in Nat \ {0}
        BY <2>2
      <4>. QED
        BY <4>1
    <3>2. PICK z \in Int : z = 2 * (y * b * b + x * a * a)
      OBVIOUS
    <3>3. Microprice2(m, n) = z \div s
      BY <1>1, <1>2, <2>2, <3>1, <3>2 DEF Microprice2
    <3>. QED
      BY <3>3, Division
  <2>. QED
    BY <2>1, <2>2
<1>5. Imbalance(m, n) \in Int
  <2>1. CASE a + b = 0
    BY <1>1, <1>2, <2>1 DEF Imbalance
  <2>2. CASE a + b # 0
    <3>1. PICK s \in Nat \ {0} : s = a + b
      BY <2>2
    <3>2. PICK z \in Int : z = BPS * (b - a)
      BY BPSAssumption
    <3>3. Imbalance(m, n) = z \div s
      BY <1>1, <1>2, <2>2, <3>1, <3>2 DEF Imbalance
    <3>. QED
      BY <3>3, Division
  <2>. QED
    BY <2>1, <2>2
<1>. QED
  BY <1>4, <1>5

\* The books of the log are such snapshots.
LEMMA MarketFacts ==
  ASSUME ReplayInv, NEW s \in DOMAIN markets
  PROVE  Snapshot(markets[s]) /\ Mid2(markets[s]) \in Nat \ {0}
<1>1. PICK m \in Books : m = markets[s]
  BY DEF ReplayInv
<1>2. /\ m.bid \in Nat /\ m.ask \in Nat /\ Mid2(m) > 0
      /\ \A levels \in {m.bids, m.asks} : Side(levels)
  BY ReplayAssumption DEF Side
<1>3. Mid2(m) \in Nat \ {0}
  BY <1>2 DEF Mid2
<1>. QED
  BY <1>1, <1>2, <1>3 DEF Snapshot

\* The balances of a plugin's base currency.
LEMMA BaseFacts ==
  ASSUME ReplayInv, NEW i \in DOMAIN portfolio
  PROVE  Base(portfolio[i]).available \in Nat /\ Base(portfolio[i]).frozen \in Nat
<1>1. portfolio[i].symbol \in Symbols /\ account \in Accounts
  BY Configured, Zenon DEF ReplayInv, Numbers
<1>. QED
  BY <1>1, ReplayAssumption DEF Base

\* The skews of a symbol, and the one that counts.
Skews(symbol) == {j \in DOMAIN portfolio : portfolio[j].kind = "inventory_skew" /\ portfolio[j].symbol = symbol}

LEMMA AdjustmentIs ==
  ASSUME ReplayInv, NEW symbol, NEW i
  PROVE  \/ Skews(symbol) = {} /\ Adjustment(portfolio, symbol, i) = 0
         \/ \E j \in Skews(symbol) :
               Adjustment(portfolio, symbol, i) = Skew(portfolio[j], Base(portfolio[j]))
<1> DEFINE last == CHOOSE k \in Skews(symbol) : \A l \in Skews(symbol) : l <= k
<1>1. Adjustment(portfolio, symbol, i)
         = IF Skews(symbol) = {} THEN 0 ELSE Skew(portfolio[last], Base(portfolio[last]))
  BY DEF Adjustment, Skews
<1>2. ASSUME Skews(symbol) # {} PROVE last \in Skews(symbol)
  <2>1. Len(portfolio) \in Nat /\ Skews(symbol) \in SUBSET (1 .. Len(portfolio))
    BY ReplayAssumption DEF ReplayInv, Skews
  <2>2. \E k \in Skews(symbol) : \A l \in Skews(symbol) : l <= k
    BY <1>2, <2>1, IndexHasGreatest
  <2>. QED
    BY <2>2
<1> HIDE DEF last
<1>. QED
  BY <1>1, <1>2

LEMMA AdjustmentIsInt ==
  ASSUME ReplayInv, NEW symbol, NEW i
  PROVE  Adjustment(portfolio, symbol, i) \in Int
<1>1. ASSUME NEW j \in Skews(symbol) PROVE Skew(portfolio[j], Base(portfolio[j])) \in Int
  <2>1. j \in DOMAIN portfolio /\ portfolio[j].kind = "inventory_skew"
    BY DEF Skews
  <2>2. portfolio[j].target \in Int /\ portfolio[j].skew \in Int
    BY <2>1, Configured, Zenon DEF Numbers
  <2>3. Base(portfolio[j]).available \in Nat /\ Base(portfolio[j]).frozen \in Nat
    BY <2>1, BaseFacts
  <2>. QED
    BY <2>2, <2>3, SkewIsInt
<1>. QED
  BY <1>1, AdjustmentIs

-----------------------------------------------------------------------------
(* Quotes around a fair price, whatever the kind of plugin.                  *)

\* What order_book_imbalance makes of the book.
Tilt(p, m) == LET seen == Imbalance(m, p.depth) IN IF Abs(seen) >= p.threshold THEN seen ELSE 0

\* The fair price of a plugin over 2 * BPS, its spread, and twice the distance
\* of a level from the fair price.
FairOf(p, m, adjustment, base, history) ==
    CASE p.kind = "microprice_mm" -> Shifted(Microprice2(m, p.depth), adjustment)
      [] p.kind = "order_book_imbalance" ->
            (Shifted(Mid2(m), (Tilt(p, m) * p.skew) \div BPS) * (BPS + adjustment)) \div BPS
      [] p.kind = "avellaneda_stoikov" ->
            Shifted(Mid2(m), ReservationShift(p, base, Sigma(history, p)) + adjustment)
      [] OTHER -> Shifted(Mid2(m), adjustment)
SpreadOf(p, m, history) ==
    CASE p.kind = "order_book_imbalance" -> p.spread + (p.widen * Abs(Tilt(p, m))) \div BPS
      [] p.kind = "volatility_spread" -> DynamicSpread(history, p)
      [] p.kind = "avellaneda_stoikov" ->
            Clamp(p.spread + p.riskAversion * Sigma(history, p) * p.multiplier, p.minSpread, p.maxSpread)
      [] OTHER -> p.spread
Distance(p, spread, l) ==
    LET d == Dist2(spread, p.spacing, l)
    IN  IF p.kind = "ladder_mm" /\ p.maxDistance > 0 /\ d > 2 * p.maxDistance THEN 2 * p.maxDistance ELSE d

\* A quote at its level on a side of a fair price.
Around(p, fair, spread, x) ==
    /\ x.side \in {"buy", "sell"} /\ x.level \in Nat \ {0} /\ x.size \in Int
    /\ x.price = Away(x.side, fair, Distance(p, spread, x.level))

LEMMA QuoteFacts ==
  ASSUME NEW side, NEW l, NEW price, NEW size
  PROVE  LET x == Quote(side, l, price, size)
         IN  x.side = side /\ x.level = l /\ x.price = price /\ x.size = size
BY DEF Quote

LEMMA BothSidesAround ==
  ASSUME NEW p, p.levels \in Int, p.kind # "ladder_mm", NEW fair, NEW spread,
         NEW size, \A l \in 1 .. p.levels : size[l] \in Int,
         NEW x \in BothSides(fair, spread, p, size)
  PROVE  Around(p, fair, spread, x)
<1>1. PICK side \in {"buy", "sell"}, l \in 1 .. p.levels :
         x = Quote(side, l, Away(side, fair, Dist2(spread, p.spacing, l)), size[l])
  BY DEF BothSides
<1>2. /\ x.side = side /\ x.level = l /\ x.size = size[l]
      /\ x.price = Away(side, fair, Dist2(spread, p.spacing, l))
  BY <1>1, QuoteFacts
<1>3. Distance(p, spread, l) = Dist2(spread, p.spacing, l)
  BY DEF Distance
<1>4. l \in Nat \ {0}
  OBVIOUS
<1>. QED
  BY <1>2, <1>3, <1>4 DEF Around

LEMMA LadderAround ==
  ASSUME NEW p, Numbers(p), p.kind = "ladder_mm", NEW m, NEW adjustment,
         NEW x \in LadderQuotes(p, m, adjustment)
  PROVE  Around(p, Shifted(Mid2(m), adjustment), p.spread, x)
<1> DEFINE fair == Shifted(Mid2(m), adjustment)
           size(l) == p.size * p.multiplier ^ (l - 1)
           rung(side, l) == Quote(side, l, Away(side, fair, Distance(p, p.spread, l)), size(l))
<1>1. LadderQuotes(p, m, adjustment) = {rung("buy", l) : l \in 1 .. p.bidLevels}
                                          \cup {rung("sell", l) : l \in 1 .. p.askLevels}
  BY Zenon DEF LadderQuotes, Distance
<1>2. /\ p.bidLevels \in Int /\ p.askLevels \in Int /\ p.size \in Int
      /\ \A l \in (1 .. p.bidLevels) \cup (1 .. p.askLevels) : p.multiplier ^ (l - 1) \in Int
  BY Zenon DEF Numbers
<1> HIDE DEF fair, size
<1>3. ASSUME NEW l \in (1 .. p.bidLevels) \cup (1 .. p.askLevels), NEW side \in {"buy", "sell"},
             x = rung(side, l)
      PROVE  Around(p, fair, p.spread, x)
  <2>1. l \in Nat \ {0}
    BY <1>2
  <2>2. PICK power \in Int : power = p.multiplier ^ (l - 1)
    BY <1>2
  <2>3. size(l) \in Int
    <3>1. size(l) = p.size * power
      BY <2>2 DEF size
    <3>. QED
      BY <1>2, <3>1
  <2>4. /\ x.side = side /\ x.level = l /\ x.size = size(l)
        /\ x.price = Away(side, fair, Distance(p, p.spread, l))
    BY <1>3, QuoteFacts
  <2>. QED
    BY <2>1, <2>3, <2>4 DEF Around
<1>4. CASE \E l \in 1 .. p.bidLevels : x = rung("buy", l)
  <2>1. PICK l \in 1 .. p.bidLevels : x = rung("buy", l)
    BY <1>4
  <2> HIDE DEF rung
  <2>. QED
    BY <1>3, <2>1 DEF fair
<1>5. CASE \E l \in 1 .. p.askLevels : x = rung("sell", l)
  <2>1. PICK l \in 1 .. p.askLevels : x = rung("sell", l)
    BY <1>5
  <2> HIDE DEF rung
  <2>. QED
    BY <1>3, <2>1 DEF fair
<1> HIDE DEF rung
<1>. QED
  BY <1>1, <1>4, <1>5

\* The sizes of the levels.
LEMMA SizesAreInt ==
  ASSUME NEW p, Numbers(p), NEW l \in 1 .. p.levels
  PROVE  /\ p.kind \in TwoSided => Flat(p)[l] \in Int
         /\ p.kind \in {"basic_mm", "microprice_mm"} => Growing(p)[l] \in Int
<1>1. ASSUME p.kind \in TwoSided PROVE p.size \in Int
  BY <1>1, Zenon DEF Numbers, TwoSided
<1>2. Flat(p)[l] = p.size /\ Growing(p)[l] = p.size * p.multiplier ^ (l - 1)
  BY DEF Flat, Growing
<1>3. ASSUME p.kind \in {"basic_mm", "microprice_mm"} PROVE Growing(p)[l] \in Int
  <2>1. p.kind \in TwoSided
    BY <1>3 DEF TwoSided, Kinds
  <2>2. p.size \in Int
    BY <1>1, <2>1
  <2>3. PICK power \in Int : power = p.multiplier ^ (l - 1)
    BY <1>3, Zenon DEF Numbers
  <2>. QED
    BY <1>2, <2>2, <2>3
<1>. QED
  BY <1>1, <1>2, <1>3

\* The quotes of a plugin that quotes both sides are around its fair price.
LEMMA OnTimerAround ==
  ASSUME NEW p, Numbers(p), p.kind \in TwoSided, NEW m, NEW adjustment, NEW base, NEW history,
         NEW x \in OnTimer(p, m, adjustment, base, history)
  PROVE  Around(p, FairOf(p, m, adjustment, base, history), SpreadOf(p, m, history), x)
<1>1. ASSUME p.kind # "ladder_mm" PROVE p.levels \in Int
  BY <1>1, Zenon DEF Numbers, TwoSided
<1>2. \A l \in 1 .. p.levels : Flat(p)[l] \in Int
  BY SizesAreInt
<1>3. CASE p.kind \in {"basic_mm", "microprice_mm"}
  <2>1. \A l \in 1 .. p.levels : Growing(p)[l] \in Int
    BY <1>3, SizesAreInt
  <2>2. FairOf(p, m, adjustment, base, history)
           = Shifted(IF p.kind = "basic_mm" THEN Mid2(m) ELSE Microprice2(m, p.depth), adjustment)
    BY <1>3 DEF FairOf
  <2>3. SpreadOf(p, m, history) = p.spread
    BY <1>3 DEF SpreadOf
  <2>4. OnTimer(p, m, adjustment, base, history)
           = BothSides(FairOf(p, m, adjustment, base, history), p.spread, p, Growing(p))
    BY <1>3, <2>2 DEF OnTimer, BasicQuotes, MicropriceQuotes
  <2>. QED
    BY <1>1, <1>3, <2>1, <2>3, <2>4, BothSidesAround
<1>4. CASE p.kind = "hedged_mm"
  <2>1. FairOf(p, m, adjustment, base, history) = Shifted(Mid2(m), adjustment)
    BY <1>4 DEF FairOf
  <2>2. SpreadOf(p, m, history) = p.spread
    BY <1>4 DEF SpreadOf
  <2>3. OnTimer(p, m, adjustment, base, history)
           = BothSides(FairOf(p, m, adjustment, base, history), p.spread, p, Flat(p))
    BY <1>4, <2>1 DEF OnTimer, HedgedQuotes
  <2>. QED
    BY <1>1, <1>2, <1>4, <2>2, <2>3, BothSidesAround
<1>5. CASE p.kind = "order_book_imbalance"
  <2>1. FairOf(p, m, adjustment, base, history) =
           (Shifted(Mid2(m), (Tilt(p, m) * p.skew) \div BPS) * (BPS + adjustment)) \div BPS
    BY <1>5 DEF FairOf
  <2>2. SpreadOf(p, m, history) = p.spread + (p.widen * Abs(Tilt(p, m))) \div BPS
    BY <1>5 DEF SpreadOf
  <2>3. OnTimer(p, m, adjustment, base, history) = ImbalanceQuotes(p, m, adjustment)
    BY <1>5 DEF OnTimer
  <2>4. OnTimer(p, m, adjustment, base, history) =
           BothSides(FairOf(p, m, adjustment, base, history), SpreadOf(p, m, history), p, Flat(p))
    BY <2>1, <2>2, <2>3, Zenon DEF ImbalanceQuotes, Tilt
  <2>. QED
    BY <1>1, <1>2, <1>5, <2>4, BothSidesAround
<1>6. CASE p.kind = "volatility_spread"
  <2>1. FairOf(p, m, adjustment, base, history) = Shifted(Mid2(m), adjustment)
    BY <1>6 DEF FairOf
  <2>2. SpreadOf(p, m, history) = DynamicSpread(history, p)
    BY <1>6 DEF SpreadOf
  <2>3. OnTimer(p, m, adjustment, base, history) =
           BothSides(FairOf(p, m, adjustment, base, history), SpreadOf(p, m, history), p, Flat(p))
    BY <1>6, <2>1, <2>2 DEF OnTimer, VolatilityQuotes
  <2>. QED
    BY <1>1, <1>2, <1>6, <2>3, BothSidesAround
<1>7. CASE p.kind = "avellaneda_stoikov"
  <2>1. FairOf(p, m, adjustment, base, history) =
           Shifted(Mid2(m), ReservationShift(p, base, Sigma(history, p)) + adjustment)
    BY <1>7 DEF FairOf
  <2>2. SpreadOf(p, m, history) =
           Clamp(p.spread + p.riskAversion * Sigma(history, p) * p.multiplier, p.minSpread, p.maxSpread)
    BY <1>7 DEF SpreadOf
  <2>3. OnTimer(p, m, adjustment, base, history) = AvellanedaQuotes(p, m, adjustment, base, history)
    BY <1>7 DEF OnTimer
  <2>4. OnTimer(p, m, adjustment, base, history) =
           BothSides(FairOf(p, m, adjustment, base, history), SpreadOf(p, m, history), p, Flat(p))
    BY <2>1, <2>2, <2>3, Zenon DEF AvellanedaQuotes
  <2>. QED
    BY <1>1, <1>2, <1>7, <2>4, BothSidesAround
<1>8. CASE p.kind = "ladder_mm"
  <2>1. FairOf(p, m, adjustment, base, history) = Shifted(Mid2(m), adjustment)
    BY <1>8 DEF FairOf
  <2>2. SpreadOf(p, m, history) = p.spread
    BY <1>8 DEF SpreadOf
  <2>3. OnTimer(p, m, adjustment, base, history) = LadderQuotes(p, m, adjustment)
    BY <1>8 DEF OnTimer
  <2>. QED
    BY <1>8, <2>1, <2>2, <2>3, LadderAround
<1>. QED
  BY <1>3, <1>4, <1>5, <1>6, <1>7, <1>8 DEF TwoSided, Kinds

-----------------------------------------------------------------------------
(* What is quoted are numbers.                                               *)

LEMMA HistoryFacts ==
  ASSUME HistoryInv, NEW i \in DOMAIN portfolio
  PROVE  memory[i] \in Seq(Entry)
<1>1. CASE KeepsHistory(portfolio[i])
  <2>1. PICK t \in 0 .. now : memory[i] \in Seq(Windows(portfolio[i], t))
    BY <1>1 DEF HistoryInv
  <2>2. Windows(portfolio[i], t) \subseteq Entry
    BY DEF Windows
  <2>. QED
    BY <2>1, <2>2
<1>2. CASE ~KeepsHistory(portfolio[i])
  <2>1. memory[i] = <<>>
    BY <1>2 DEF HistoryInv
  <2>. QED
    BY <2>1
<1>. QED
  BY <1>1, <1>2

\* A market, a balance and a history that are numbers.
Sound(m, adjustment, base, history) ==
    /\ Snapshot(m) /\ Mid2(m) \in Nat \ {0}
    /\ adjustment \in Int /\ base.available \in Nat /\ base.frozen \in Nat
    /\ history \in Seq(Entry)

LEMMA TiltIsInt ==
  ASSUME NEW p, NEW m, Snapshot(m)
  PROVE  Tilt(p, m) \in Int
<1>1. Imbalance(m, p.depth) \in Int
  BY SnapshotFacts
<1>. QED
  BY <1>1 DEF Tilt

LEMMA SpreadFacts ==
  ASSUME NEW p, Numbers(p), p.kind \in TwoSided, NEW m, NEW adjustment, NEW base, NEW history,
         Sound(m, adjustment, base, history)
  PROVE  /\ SpreadOf(p, m, history) \in Int
         /\ p.kind \in {"volatility_spread", "avellaneda_stoikov"} => SpreadOf(p, m, history) >= p.minSpread
<1>1. p.spread \in Int
  BY Zenon DEF Numbers
<1>2. CASE p.kind = "order_book_imbalance"
  <2>1. p.widen \in Int
    BY <1>2, Zenon DEF Numbers
  <2>2. PICK tilt \in Int : tilt = Tilt(p, m)
    BY TiltIsInt DEF Sound
  <2>3. PICK size \in Nat : size = Abs(tilt)
    BY AbsIsNat
  <2>4. PICK w \in Int, spread \in Int : w = p.widen /\ spread = p.spread
    BY <1>1, <2>1
  <2>5. PICK q \in Int : q = (w * size) \div BPS
    <3>1. size \in Int
      OBVIOUS
    <3>. QED
      BY <3>1, BPSAssumption, RatioIsInt
  <2>6. SpreadOf(p, m, history) = spread + q
    BY <1>2, <2>2, <2>3, <2>4, <2>5 DEF SpreadOf
  <2>. QED
    BY <1>2, <2>6
<1>3. CASE p.kind = "volatility_spread"
  <2>1. p.multiplier \in Int /\ p.minSpread \in Int /\ p.maxSpread \in Int
    BY <1>3, Zenon DEF Numbers
  <2>2. DynamicSpread(history, p) \in Int /\ DynamicSpread(history, p) >= p.minSpread
    BY <1>1, <2>1, DynamicSpreadFacts DEF Sound
  <2>3. SpreadOf(p, m, history) = DynamicSpread(history, p)
    BY <1>3 DEF SpreadOf
  <2>. QED
    BY <2>2, <2>3
<1>4. CASE p.kind = "avellaneda_stoikov"
  <2>1. PICK low \in Int, high \in Int, ra \in Int, mult \in Int, spread \in Int :
           low = p.minSpread /\ high = p.maxSpread /\ ra = p.riskAversion /\ mult = p.multiplier /\ spread = p.spread
    <3>1. p.minSpread \in Int /\ p.maxSpread \in Int /\ p.riskAversion \in Int /\ p.multiplier \in Int
      BY <1>4, Zenon DEF Numbers
    <3>. QED
      BY <1>1, <3>1
  <2>2. p.window \in Nat \ {0} /\ p.horizon \in Nat /\ p.minSigma \in Int
    BY <1>4, Zenon DEF Numbers
  <2>3. PICK sigma \in Int : sigma = Sigma(history, p)
    BY <2>2, SigmaIsInt DEF Sound
  <2>4. PICK x \in Int : x = spread + ra * sigma * mult
    OBVIOUS
  <2>5. SpreadOf(p, m, history) = Clamp(x, low, high)
    BY <1>4, <2>1, <2>3, <2>4 DEF SpreadOf
  <2>6. Clamp(x, low, high) \in Int /\ Clamp(x, low, high) >= low
    BY ClampIsInt
  <2>. QED
    BY <2>1, <2>5, <2>6
<1>5. CASE p.kind \notin {"order_book_imbalance", "volatility_spread", "avellaneda_stoikov"}
  <2>1. SpreadOf(p, m, history) = p.spread
    BY <1>5 DEF SpreadOf
  <2>. QED
    BY <1>1, <1>5, <2>1
<1>. QED
  BY <1>2, <1>3, <1>4, <1>5

LEMMA ShiftedIsInt ==
  ASSUME NEW x \in Int, NEW y \in Int
  PROVE  Shifted(x, y) \in Int
BY BPSAssumption DEF Shifted

LEMMA FairIsInt ==
  ASSUME NEW p, Numbers(p), NEW m, NEW adjustment, NEW base, NEW history,
         Sound(m, adjustment, base, history)
  PROVE  FairOf(p, m, adjustment, base, history) \in Int
<1>0. PICK mid2 \in Int, adj \in Int : mid2 = Mid2(m) /\ adj = adjustment
  BY DEF Sound
<1>1. CASE p.kind = "microprice_mm"
  <2>1. Microprice2(m, p.depth) \in Int
    BY SnapshotFacts DEF Sound
  <2>2. FairOf(p, m, adjustment, base, history) = Shifted(Microprice2(m, p.depth), adj)
    BY <1>0, <1>1 DEF FairOf
  <2>. QED
    BY <2>1, <2>2, ShiftedIsInt
<1>2. CASE p.kind = "order_book_imbalance"
  <2>1. PICK tilt \in Int, skew \in Int : tilt = Tilt(p, m) /\ skew = p.skew
    <3>1. p.skew \in Int
      BY <1>2, Zenon DEF Numbers
    <3>. QED
      BY <3>1, TiltIsInt DEF Sound
  <2>2. PICK shift \in Int : shift = (tilt * skew) \div BPS
    BY BPSAssumption, RatioIsInt
  <2>3. PICK x \in Int : x = Shifted(mid2, shift)
    BY ShiftedIsInt
  <2>4. PICK y \in Int : y = BPS + adj
    BY BPSAssumption
  <2>5. FairOf(p, m, adjustment, base, history) = (x * y) \div BPS
    BY <1>0, <1>2, <2>1, <2>2, <2>3, <2>4 DEF FairOf
  <2>. QED
    BY <2>5, BPSAssumption, RatioIsInt
<1>3. CASE p.kind = "avellaneda_stoikov"
  <2>1. /\ p.window \in Nat \ {0} /\ p.horizon \in Nat /\ p.minSigma \in Int
        /\ p.target \in Int /\ p.maxInventory \in Int /\ p.riskAversion \in Int /\ p.lean \in Int
    BY <1>3, Zenon DEF Numbers
  <2>2. PICK sigma \in Int : sigma = Sigma(history, p)
    BY <2>1, SigmaIsInt DEF Sound
  <2>3. PICK shift \in Int : shift = ReservationShift(p, base, sigma)
    BY <2>1, ShiftIsInt DEF Sound
  <2>4. PICK x \in Int : x = shift + adj
    OBVIOUS
  <2>5. FairOf(p, m, adjustment, base, history) = Shifted(mid2, x)
    BY <1>0, <1>3, <2>2, <2>3, <2>4 DEF FairOf
  <2>. QED
    BY <2>5, ShiftedIsInt
<1>4. CASE p.kind \notin {"microprice_mm", "order_book_imbalance", "avellaneda_stoikov"}
  <2>1. FairOf(p, m, adjustment, base, history) = Shifted(mid2, adj)
    BY <1>0, <1>4 DEF FairOf
  <2>. QED
    BY <2>1, ShiftedIsInt
<1>. QED
  BY <1>1, <1>2, <1>3, <1>4

LEMMA DistanceIsInt ==
  ASSUME NEW p, Numbers(p), p.kind \in TwoSided, NEW spread \in Int, NEW l \in Int
  PROVE  Distance(p, spread, l) \in Int
<1>1. p.spacing \in Int /\ (p.kind = "ladder_mm" => p.maxDistance \in Int)
  BY Zenon DEF Numbers, TwoSided
<1>2. PICK spacing \in Int : spacing = p.spacing
  BY <1>1
<1>3. PICK d \in Int : d = Dist2(spread, spacing, l)
  BY DEF Dist2
<1>. QED
  BY <1>1, <1>2, <1>3 DEF Distance

LEMMA AwayIsInt ==
  ASSUME NEW side, NEW fair \in Int, NEW d \in Int
  PROVE  Away(side, fair, d) \in Int
BY BPSAssumption DEF Away

\* A quote that is a number.
Number(x) == x.side \in {"buy", "sell"} /\ x.price \in Int /\ x.size \in Int

LEMMA RangeLevelsAreNumbers ==
  ASSUME NEW p, p.size \in Int, p.spacing \in Int, p.levels \in Int, p.offset \in Int,
         NEW side \in {"buy", "sell"}, NEW anchor \in Int, NEW remaining \in Int,
         NEW x \in RangeLevels(side, anchor, remaining, p.size, p)
  PROVE  Number(x)
<1> DEFINE price(l) == Away(side, 2 * anchor * BPS, 2 * (p.offset + p.spacing * (l - 1)))
<1>1. RangeLevels(side, anchor, remaining, p.size, p) =
         {Quote(side, l, price(l), RangeSize(p.size, remaining, l)) :
            l \in {k \in 1 .. p.levels : p.size > 0 /\ remaining - (k - 1) * p.size > 0}}
  BY DEF RangeLevels, RangeSize
<1> HIDE DEF price
<1>2. PICK l \in 1 .. p.levels : x = Quote(side, l, price(l), RangeSize(p.size, remaining, l))
  BY <1>1
<1>3. x.side = side /\ x.price = price(l) /\ x.size = RangeSize(p.size, remaining, l)
  BY <1>2, QuoteFacts
<1>4. price(l) \in Int
  <2>1. PICK fair \in Int, d \in Int : fair = 2 * anchor * BPS /\ d = 2 * (p.offset + p.spacing * (l - 1))
    BY BPSAssumption
  <2>. QED
    BY <2>1, AwayIsInt DEF price
<1>5. RangeSize(p.size, remaining, l) \in Int
  <2>1. PICK left \in Int : left = remaining - (l - 1) * p.size
    OBVIOUS
  <2>. QED
    BY <2>1 DEF RangeSize
<1>. QED
  BY <1>3, <1>4, <1>5 DEF Number

LEMMA RangeQuotesAreNumbers ==
  ASSUME NEW p, Numbers(p), p.kind = "range_rebalance", NEW m, NEW adjustment, NEW base, NEW history,
         Sound(m, adjustment, base, history), NEW x \in RangeQuotes(p, m, base)
  PROVE  Number(x)
<1>1. p.size \in Int /\ p.spacing \in Int /\ p.levels \in Int /\ p.offset \in Int /\ p.target \in Int
  BY Zenon DEF Numbers
<1>2. PICK bid \in Int, ask \in Int : bid = m.bid /\ ask = m.ask
  BY DEF Sound, Snapshot
<1>3. PICK total \in Int, available \in Int : total = base.available + base.frozen /\ available = base.available
  BY DEF Sound
<1>4. PICK above \in Int, below \in Int : above = total - p.target /\ below = p.target - total
  BY <1>1
<1>5. PICK rest \in Int : rest = Sets!Min({above, available})
  BY MinOfTwo
<1>6. \/ RangeQuotes(p, m, base) = {}
      \/ RangeQuotes(p, m, base) = RangeLevels("buy", bid, below, p.size, p)
      \/ RangeQuotes(p, m, base) = RangeLevels("sell", ask, rest, p.size, p)
  BY <1>2, <1>3, <1>4, <1>5 DEF RangeQuotes
<1>. QED
  BY <1>1, <1>6, RangeLevelsAreNumbers

\* The market, the adjustment, the balance and the history of a plugin.
LEMMA PluginSound ==
  ASSUME ReplayInv, HistoryInv, NEW i \in DOMAIN portfolio, portfolio[i].symbol \in DOMAIN markets
  PROVE  Sound(markets[portfolio[i].symbol], Adjustment(portfolio, portfolio[i].symbol, i),
               Base(portfolio[i]), memory[i])
BY MarketFacts, AdjustmentIsInt, BaseFacts, HistoryFacts DEF Sound

\* What a plugin wants, by its name.
Wanted(i) ==
    LET p == portfolio[i]
    IN  OnTimer(p, markets[p.symbol], Adjustment(portfolio, p.symbol, i), Base(p), memory[i])

LEMMA AnswerIs ==
  ASSUME ReplayInv, NEW i \in DOMAIN portfolio, NEW q \in answers[i]
  PROVE  /\ portfolio[i].symbol \in DOMAIN markets
         /\ q.symbol = portfolio[i].symbol /\ q.strategy = portfolio[i].key
         /\ \E x \in Wanted(i) : /\ q.side = x.side /\ q.level = x.level
                                 /\ q.price = x.price /\ q.size = x.size
<1> DEFINE p == portfolio[i]
           wanted == Wanted(i)
<1>1. answers[i] = Quoted(portfolio, i, markets, memory)
  BY DEF ReplayInv
<1>2. answers[i] = IF p.symbol \notin DOMAIN markets THEN {} ELSE {NamedBy(p, x) : x \in wanted}
  BY <1>1, Zenon DEF Quoted, NamedBy, Wanted
<1>3. p.symbol \in DOMAIN markets
  BY <1>2
<1> HIDE DEF p, wanted
<1>4. PICK x \in wanted : q = NamedBy(p, x)
  BY <1>2, <1>3
<1>5. /\ q.symbol = p.symbol /\ q.strategy = p.key /\ q.side = x.side /\ q.level = x.level
      /\ q.price = x.price /\ q.size = x.size
  BY <1>4 DEF NamedBy
<1>. QED
  BY <1>3, <1>5 DEF p, wanted

LEMMA WantedAreNumbers ==
  ASSUME ReplayInv, HistoryInv, NEW i \in DOMAIN portfolio, portfolio[i].symbol \in DOMAIN markets,
         NEW x \in Wanted(i)
  PROVE  Number(x)
<1>1. PICK p : p = portfolio[i]
  OBVIOUS
<1>2. PICK m, adjustment, base, history :
         /\ m = markets[p.symbol] /\ adjustment = Adjustment(portfolio, p.symbol, i)
         /\ base = Base(p) /\ history = memory[i]
  OBVIOUS
<1>3. Sound(m, adjustment, base, history)
  BY <1>1, <1>2, PluginSound
<1>4. Numbers(p)
  BY <1>1, Configured
<1>5. x \in OnTimer(p, m, adjustment, base, history)
  BY <1>1, <1>2 DEF Wanted
<1>6. CASE p.kind \in TwoSided
  <2>1. PICK fair \in Int : fair = FairOf(p, m, adjustment, base, history)
    BY <1>3, <1>4, FairIsInt
  <2>2. PICK spread \in Int : spread = SpreadOf(p, m, history)
    BY <1>3, <1>4, <1>6, SpreadFacts
  <2>3. Around(p, fair, spread, x)
    BY <1>4, <1>5, <1>6, <2>1, <2>2, OnTimerAround
  <2>4. PICK l \in Int : l = x.level
    BY <2>3 DEF Around
  <2>5. PICK d \in Int : d = Distance(p, spread, l)
    BY <1>4, <1>6, DistanceIsInt
  <2>6. x.price = Away(x.side, fair, d)
    BY <2>3, <2>4, <2>5 DEF Around
  <2>7. x.price \in Int
    BY <2>6, AwayIsInt
  <2>. QED
    BY <2>3, <2>7 DEF Around, Number
<1>7. CASE p.kind = "range_rebalance"
  <2>1. x \in RangeQuotes(p, m, base)
    BY <1>5, <1>7 DEF OnTimer
  <2>. QED
    BY <1>3, <1>4, <1>7, <2>1, RangeQuotesAreNumbers
<1>8. CASE p.kind = "inventory_skew"
  BY <1>5, <1>8 DEF OnTimer
<1>9. p.kind \in Kinds
  BY <1>4, Zenon DEF Numbers
<1>. QED
  BY <1>6, <1>7, <1>8, <1>9 DEF TwoSided

-----------------------------------------------------------------------------
(* Types.                                                                    *)

LEMMA AnswersAreNumbers ==
  ASSUME ReplayInv, HistoryInv, NEW i \in DOMAIN portfolio, NEW q \in answers[i]
  PROVE  Number(q) /\ q.symbol \in DOMAIN markets
<1>1. PICK x \in Wanted(i) : q.side = x.side /\ q.price = x.price /\ q.size = x.size
  BY AnswerIs
<1>2. portfolio[i].symbol \in DOMAIN markets /\ q.symbol = portfolio[i].symbol
  BY AnswerIs
<1>3. Number(x)
  BY <1>2, WantedAreNumbers
<1>. QED
  BY <1>1, <1>2, <1>3 DEF Number

\* Who wants a quote.
LEMMA DesiredBySome ==
  ASSUME ReplayInv, NEW q \in QE!Desired(answers)
  PROVE  \E i \in DOMAIN portfolio : q \in answers[i]
<1>1. PICK i \in DOMAIN answers : q \in answers[i]
  BY DEF QE!Desired
<1>. QED
  BY <1>1 DEF ReplayInv

LEMMA PlacedAreNumbers ==
  ASSUME ReplayInv, HistoryInv, NEW p \in intents
  PROVE  p.symbol \in DOMAIN markets /\ Number(p)
<1>1. PICK q \in QE!Desired(answers) : q.symbol \in DOMAIN markets /\ p = QE!Priced(Rules, markets, q)
  BY PlacedFacts
<1>2. PICK i \in DOMAIN portfolio : q \in answers[i]
  BY DesiredBySome
<1>3. q.side \in {"buy", "sell"} /\ q.price \in Int /\ q.size \in Int
  BY <1>2, AnswersAreNumbers DEF Number
<1>4. /\ p.symbol = q.symbol /\ p.side = q.side
      /\ p.price = QE!PostOnlyPrice(Rules[q.symbol], markets[q.symbol], q.side, q.price)
  BY <1>1, PricedFacts
<1>5. PICK rule : rule = Rules[q.symbol]
  OBVIOUS
<1>6. PICK step \in Nat \ {0} : step = rule.sizeStep
  <2>1. q.symbol \in Symbols
    BY <1>1 DEF ReplayInv
  <2>. QED
    BY <1>5, <2>1, ReplayAssumption
<1>7. PICK k \in Int : k = q.size \div step
  BY <1>3, Division
<1>8. p.size = k * step
  BY <1>1, <1>5, <1>6, <1>7 DEF QE!Priced, QE!AlignSize, QE!Floor
<1>9. /\ rule.priceStep \in Nat \ {0}
      /\ markets[q.symbol].bid \in Int /\ markets[q.symbol].ask \in Int
  BY <1>1, <1>5, KnownMarket
<1>10. p.price \in Int
  BY <1>3, <1>4, <1>5, <1>9, PostOnlyFacts
<1>. QED
  BY <1>1, <1>3, <1>4, <1>8, <1>10 DEF Number

LEMMA ReplayTypes == ReplayInv /\ HistoryInv => TypeOK
<1> SUFFICES ASSUME ReplayInv, HistoryInv PROVE TypeOK
  OBVIOUS
<1>1. ASSUME NEW i \in DOMAIN memory, NEW k \in DOMAIN memory[i], NEW l \in DOMAIN memory[i]
      PROVE  memory[i][k].ts \in 0 .. now /\ memory[i][l].ts - memory[i][k].ts <= portfolio[i].window
  <2>1. i \in DOMAIN portfolio
    BY DEF HistoryInv
  <2>2. CASE KeepsHistory(portfolio[i])
    <3>1. PICK t \in 0 .. now : memory[i] \in Seq(Windows(portfolio[i], t))
      BY <2>1, <2>2 DEF HistoryInv
    <3>2. memory[i][k] \in Windows(portfolio[i], t) /\ memory[i][l] \in Windows(portfolio[i], t)
      BY <3>1
    <3>3. PICK window \in Nat : window = portfolio[i].window
      BY <2>1, <2>2, Configured, Zenon DEF Numbers, KeepsHistory
    <3>4. now \in Nat
      BY DEF HistoryInv
    <3>. QED
      BY <3>2, <3>3, <3>4 DEF Windows, Entry
  <2>3. CASE ~KeepsHistory(portfolio[i])
    <3>1. memory[i] = <<>>
      BY <2>1, <2>3 DEF HistoryInv
    <3>. QED
      BY <3>1
  <2>. QED
    BY <2>2, <2>3
<1>2. \A p \in intents : p.symbol \in DOMAIN markets /\ Number(p)
  BY PlacedAreNumbers
<1>3. /\ portfolio \in Portfolios /\ account \in Accounts /\ now \in Nat /\ fed \in 0 .. MaxEvents
      /\ DOMAIN markets \subseteq Symbols /\ \A s \in DOMAIN markets : markets[s] \in Books
  BY DEF ReplayInv, HistoryInv
<1>. QED
  BY <1>1, <1>2, <1>3, Zenon DEF TypeOK, Number

\* What the replay keeps has its type: a plugin's history reaches no further
\* back than its window (volatility_spread.py:15-23, avellaneda_stoikov.py:17-26)
\* and prices and sizes placed are whole numbers of ticks, for any market
\* rules, books, portfolios and logs.
THEOREM ReplayTypeCorrect == Spec => []TypeOK
BY ReplayInductive, HistoryInductive, ReplayTypes, PTL

-----------------------------------------------------------------------------
(* Leaning against inventory.                                                *)

\* A symbol has one inventory_skew plugin at most, and one unit of inventory too
\* much or too few is worth a basis point: what is less than a basis point, the
\* model rounds away.
FeltSkews ==
    \A j \in DOMAIN portfolio :
        portfolio[j].kind = "inventory_skew" =>
            /\ portfolio[j].target > 0 /\ portfolio[j].skew >= portfolio[j].target
            /\ \A k \in DOMAIN portfolio :
                  portfolio[k].kind = "inventory_skew" /\ portfolio[k].symbol = portfolio[j].symbol => k = j

\* Too much inventory gives a negative adjustment, too little a positive one.
LEMMA SkewLeans ==
  ASSUME NEW p, p.target \in Nat \ {0}, p.skew \in Int, p.skew >= p.target,
         NEW base, base.available \in Nat, base.frozen \in Nat
  PROVE  /\ Skew(p, base) \in Int
         /\ base.available + base.frozen > p.target => Skew(p, base) < 0
         /\ base.available + base.frozen < p.target => Skew(p, base) > 0
<1>1. PICK target \in Nat \ {0}, skew \in Nat \ {0} : target = p.target /\ skew = p.skew /\ skew >= target
  OBVIOUS
<1>2. PICK held \in Nat : held = base.available + base.frozen
  OBVIOUS
<1>3. PICK low \in Int, high \in Int : low = -target /\ high = target
  OBVIOUS
<1>4. PICK x \in Int : x = held - target
  OBVIOUS
<1>5. PICK d \in Int : d = Clamp(x, low, high)
  BY ClampIsInt
<1>6. (held > target => d >= 1) /\ (held < target => d <= -1)
  BY <1>1, <1>2, <1>3, <1>4, <1>5 DEF Clamp
<1>7. PICK y \in Int : y = d * skew
  OBVIOUS
<1>8. PICK q \in Int : q = y \div target /\ q * target <= y /\ y < q * target + target
  BY Division
<1>9. Skew(p, base) = -q
  BY <1>1, <1>2, <1>3, <1>4, <1>5, <1>7, <1>8 DEF Skew
<1>10. ASSUME held > target PROVE q > 0
  <2>1. PICK e \in Nat : d = e + 1
    <3>1. d - 1 \in Nat /\ d = (d - 1) + 1
      BY <1>6, <1>10
    <3>. QED
      BY <3>1
  <2>2. y = e * skew + skew /\ e * skew \in Nat
    BY <1>7, <2>1
  <2>3. q * target \in Int /\ 0 * target < q * target
    BY <1>1, <1>8, <2>2
  <2>4. target \in Nat \ {0} /\ 0 \in Int
    OBVIOUS
  <2>5. 0 < q
    BY <2>3, <2>4, ProductOrder
  <2>. QED
    BY <2>5
<1>11. ASSUME held < target PROVE q < 0
  <2>1. PICK e \in Nat : d = -(e + 1)
    <3>1. -d - 1 \in Nat /\ d = -((-d - 1) + 1)
      BY <1>6, <1>11
    <3>. QED
      BY <3>1
  <2>2. y = -(e * skew) - skew /\ e * skew \in Nat
    BY <1>7, <2>1
  <2>3. q * target \in Int /\ q * target < 0 * target
    BY <1>1, <1>8, <2>2
  <2>4. target \in Nat \ {0} /\ 0 \in Int
    OBVIOUS
  <2>5. q < 0
    BY <2>3, <2>4, ProductOrder
  <2>. QED
    BY <2>5
<1>. QED
  BY <1>1, <1>2, <1>9, <1>10, <1>11

\* The middle of two quotes at a distance is that of the shifted price.
LEMMA CentreMoves ==
  ASSUME NEW mid2 \in Nat \ {0}, NEW adj \in Int, NEW d \in Int
  PROVE  LET centre == Away("buy", Shifted(mid2, adj), d) + Away("sell", Shifted(mid2, adj), d)
             neutral == 2 * mid2 * (Scale \div 2)
         IN  (adj < 0 => centre < neutral) /\ (adj > 0 => centre > neutral)
<1>1. PICK n \in Nat \ {0} : n = BPS
  BY BPSAssumption
<1>2. PICK u \in Nat \ {0} : u = 4 * n * mid2
  <2>1. n * mid2 \in Nat \ {0}
    OBVIOUS
  <2>2. 4 * n * mid2 = 4 * (n * mid2)
    OBVIOUS
  <2>. QED
    BY <2>1, <2>2
<1>3. PICK x \in Int : x = n + adj
  OBVIOUS
<1>4. PICK buy \in Int, sell \in Int : /\ buy = Away("buy", Shifted(mid2, adj), d)
                                       /\ sell = Away("sell", Shifted(mid2, adj), d)
                                       /\ buy + sell = u * x
  <2>1. PICK fair \in Int : fair = Shifted(mid2, adj) /\ fair = mid2 * x
    BY <1>1, <1>3 DEF Shifted
  <2>2. Away("buy", fair, d) = fair * (2 * n - d) /\ Away("sell", fair, d) = fair * (2 * n + d)
    BY <1>1 DEF Away
  <2>3. fair * (2 * n - d) \in Int /\ fair * (2 * n + d) \in Int
    OBVIOUS
  <2>4. fair * (2 * n - d) + fair * (2 * n + d) = fair * (4 * n)
    OBVIOUS
  <2>5. fair * (4 * n) = u * x
    BY <1>2, <2>1
  <2>. QED
    BY <2>1, <2>2, <2>3, <2>4, <2>5
<1>5. PICK neutral \in Int : neutral = 2 * mid2 * (Scale \div 2) /\ neutral = u * n
  <2>1. PICK h \in Int : h = 2 * n * n
    OBVIOUS
  <2>2. Scale = h * 2
    BY <1>1, <2>1 DEF Scale
  <2>3. Scale \div 2 = h
    BY <2>2, DivisionIsExact
  <2>4. 2 * mid2 * h = u * n /\ 2 * mid2 * h \in Int
    BY <1>2, <2>1
  <2>. QED
    BY <2>3, <2>4
<1>6. n \in Int
  OBVIOUS
<1>7. ASSUME adj < 0 PROVE u * x < u * n
  BY <1>3, <1>6, <1>7, ProductGrows
<1>8. ASSUME adj > 0 PROVE u * n < u * x
  BY <1>3, <1>6, <1>8, ProductGrows
<1>9. u * x \in Int /\ u * n \in Int
  OBVIOUS
<1>. QED
  BY <1>4, <1>5, <1>7, <1>8, <1>9

LEMMA Leans == ReplayInv /\ HistoryInv /\ FeltSkews => LeansAgainstInventory
<1> SUFFICES ASSUME ReplayInv, HistoryInv, FeltSkews,
                    NEW i \in DOMAIN portfolio, NEW j \in DOMAIN portfolio,
                    portfolio[i].kind \in {"basic_mm", "hedged_mm", "ladder_mm", "volatility_spread"},
                    portfolio[j].kind = "inventory_skew", portfolio[j].symbol = portfolio[i].symbol,
                    portfolio[i].symbol \in DOMAIN markets,
                    NEW b \in answers[i], NEW a \in answers[i],
                    b.side = "buy", a.side = "sell", b.level = a.level
             PROVE  LET held == Base(portfolio[j]).available + Base(portfolio[j]).frozen
                        centre == b.price + a.price
                        neutral == 2 * Mid2(markets[portfolio[i].symbol]) * (Scale \div 2)
                    IN  /\ held > portfolio[j].target => centre < neutral
                        /\ held < portfolio[j].target => centre > neutral
  BY Zenon DEF LeansAgainstInventory
<1>1. PICK p, k : p = portfolio[i] /\ k = portfolio[j]
  OBVIOUS
<1>2. PICK m, adj, base, history :
         /\ m = markets[p.symbol] /\ adj = Adjustment(portfolio, p.symbol, i)
         /\ base = Base(p) /\ history = memory[i]
  OBVIOUS
<1>3. Sound(m, adj, base, history) /\ Numbers(p) /\ Numbers(k)
  BY <1>1, <1>2, PluginSound, Configured
<1>4. adj = Skew(k, Base(k))
  <2>1. j \in Skews(p.symbol)
    BY <1>1 DEF Skews
  <2>2. \A l \in Skews(p.symbol) : l = j
    BY <1>1 DEF Skews, FeltSkews
  <2>. QED
    BY <1>1, <1>2, <2>1, <2>2, AdjustmentIs
<1>5. PICK fair : fair = FairOf(p, m, adj, base, history) /\ fair = Shifted(Mid2(m), adj)
  BY <1>1 DEF FairOf
<1>6. p.kind \in TwoSided
  BY <1>1 DEF TwoSided, Kinds
<1>7. PICK spread \in Int : spread = SpreadOf(p, m, history)
  BY <1>3, <1>6, SpreadFacts
<1>8. ASSUME NEW q \in answers[i]
      PROVE  q.level \in Int /\ q.price = Away(q.side, fair, Distance(p, spread, q.level))
  <2>1. PICK x \in Wanted(i) : q.side = x.side /\ q.level = x.level /\ q.price = x.price
    BY AnswerIs
  <2>2. x \in OnTimer(p, m, adj, base, history)
    BY <1>1, <1>2 DEF Wanted
  <2>3. Around(p, fair, spread, x)
    BY <1>3, <1>5, <1>6, <1>7, <2>2, OnTimerAround
  <2>. QED
    BY <2>1, <2>3 DEF Around
<1>9. PICK d \in Int : d = Distance(p, spread, b.level)
  BY <1>3, <1>6, <1>8, DistanceIsInt
<1>10. b.price = Away("buy", fair, d) /\ a.price = Away("sell", fair, d)
  BY <1>8, <1>9
<1>11. PICK mid2 \in Nat \ {0} : mid2 = Mid2(m)
  BY <1>3 DEF Sound
<1>12. adj \in Int
  BY <1>3 DEF Sound
<1>13. LET centre == b.price + a.price
           neutral == 2 * mid2 * (Scale \div 2)
       IN  (adj < 0 => centre < neutral) /\ (adj > 0 => centre > neutral)
  BY <1>5, <1>9, <1>10, <1>11, <1>12, CentreMoves
<1>14. /\ Base(k).available + Base(k).frozen > k.target => adj < 0
       /\ Base(k).available + Base(k).frozen < k.target => adj > 0
  <2>1. k.target \in Int /\ k.skew \in Int
    BY <1>1, <1>3, Zenon DEF Numbers
  <2>2. k.target \in Nat \ {0} /\ k.skew >= k.target
    BY <1>1, <2>1 DEF FeltSkews
  <2>3. Base(k).available \in Nat /\ Base(k).frozen \in Nat
    BY <1>1, BaseFacts
  <2>. QED
    BY <1>4, <2>1, <2>2, <2>3, SkewLeans
<1>. QED
  BY <1>1, <1>2, <1>11, <1>13, <1>14

\* Market makers around the mid move their quotes against the inventory of their
\* symbol (strategy/engine.py:62, inventory_skew.py:12-30), wherever in the
\* configuration the inventory_skew plugin stands: for any number of plugins,
\* levels, spacings and limits of distance, any books, balances and histories.
THEOREM AlwaysLeansAgainstInventory == Spec => [](FeltSkews => LeansAgainstInventory)
<1>1. ReplayInv /\ HistoryInv => (FeltSkews => LeansAgainstInventory)
  BY Leans
<1>. QED
  BY <1>1, ReplayInductive, HistoryInductive, PTL

-----------------------------------------------------------------------------
(* Every kind of plugin.                                                     *)

\* The fair price of a plugin at the market, the balance and the history it has.
FairPrice(i) ==
    LET p == portfolio[i]
    IN  FairOf(p, markets[p.symbol], Adjustment(portfolio, p.symbol, i), Base(p), memory[i])
PricesPositive ==
    \A i \in DOMAIN portfolio :
        portfolio[i].kind \in TwoSided /\ portfolio[i].symbol \in DOMAIN markets => FairPrice(i) > 0

\* The configuration asks for a spread, and for levels that are not closer to
\* each other than that.
SpreadPositive(p) ==
    /\ p.spacing >= 0
    /\ p.kind \in {"volatility_spread", "avellaneda_stoikov"} => p.minSpread > 0
    /\ p.kind \notin {"volatility_spread", "avellaneda_stoikov"} => p.spread > 0
    /\ p.kind = "order_book_imbalance" => p.widen >= 0
SpreadsPositive == \A i \in DOMAIN portfolio : portfolio[i].kind \in TwoSided => SpreadPositive(portfolio[i])

\* Plugins that quote a symbol under the same key agree on its fair price.
SameKeySamePrice ==
    \A i, j \in DOMAIN portfolio :
        (/\ i # j /\ portfolio[i].key = portfolio[j].key /\ portfolio[i].symbol = portfolio[j].symbol
         /\ {portfolio[i].kind, portfolio[j].kind} \cap {"inventory_skew"} = {})
            => portfolio[i].kind \in TwoSided /\ portfolio[j].kind \in TwoSided /\ FairPrice(i) = FairPrice(j)

\* A bid is below the price it is taken from and an ask above it.
LEMMA AwayFacts ==
  ASSUME NEW fair \in Nat \ {0}, NEW dist2 \in Nat \ {0}
  PROVE  /\ Away("buy", fair, dist2) \in Int /\ Away("buy", fair, dist2) < fair * (2 * BPS)
         /\ Away("sell", fair, dist2) \in Int /\ fair * (2 * BPS) < Away("sell", fair, dist2)
<1>1. BPS \in Nat
  BY BPSAssumption
<1>2. /\ 2 * BPS - dist2 \in Int /\ 2 * BPS \in Int /\ 2 * BPS + dist2 \in Int
      /\ 2 * BPS - dist2 < 2 * BPS /\ 2 * BPS < 2 * BPS + dist2
  BY <1>1
<1>3. Away("buy", fair, dist2) = fair * (2 * BPS - dist2) /\ Away("sell", fair, dist2) = fair * (2 * BPS + dist2)
  BY DEF Away
<1>4. fair * (2 * BPS - dist2) \in Int /\ fair * (2 * BPS + dist2) \in Int
  BY <1>2
<1>. QED
  BY <1>2, <1>3, <1>4, ProductGrows

LEMMA DistancePositive ==
  ASSUME NEW spread \in Nat \ {0}, NEW spacing \in Nat, NEW l \in Int, l >= 1
  PROVE  Dist2(spread, spacing, l) \in Nat \ {0}
<1>1. spacing * (l - 1) \in Nat
  OBVIOUS
<1>2. 2 * spacing * (l - 1) = 2 * (spacing * (l - 1))
  OBVIOUS
<1>. QED
  BY <1>1, <1>2 DEF Dist2

\* A spread that is asked for is there at every level.
LEMMA SpreadIsPositive ==
  ASSUME NEW p, Numbers(p), p.kind \in TwoSided, SpreadPositive(p), NEW m, NEW adjustment, NEW base,
         NEW history, Sound(m, adjustment, base, history), NEW l \in Nat \ {0}
  PROVE  Distance(p, SpreadOf(p, m, history), l) \in Nat \ {0}
<1>1. p.spacing \in Nat /\ p.spread \in Int /\ (p.kind = "ladder_mm" => p.maxDistance \in Int)
  BY Zenon, SMT DEF Numbers, TwoSided, SpreadPositive
<1>2. PICK spread : spread = SpreadOf(p, m, history)
  OBVIOUS
<1>3. spread \in Nat \ {0}
  <2>1. CASE p.kind \in {"volatility_spread", "avellaneda_stoikov"}
    <3>1. p.minSpread \in Int /\ p.minSpread > 0
      BY <2>1, Zenon DEF Numbers, SpreadPositive
    <3>2. spread \in Int /\ spread >= p.minSpread
      BY <1>2, <2>1, SpreadFacts
    <3>. QED
      BY <3>1, <3>2
  <2>2. CASE p.kind = "order_book_imbalance"
    <3>1. p.spread > 0 /\ p.widen \in Int /\ p.widen >= 0
      <4>1. p.widen \in Int
        BY <2>2, Zenon DEF Numbers
      <4>. QED
        BY <2>2, <4>1 DEF SpreadPositive
    <3>2. PICK tilt \in Int : tilt = Tilt(p, m)
      BY TiltIsInt DEF Sound
    <3>3. PICK x \in Nat : x = p.widen * Abs(tilt)
      <4>1. PICK size \in Nat : size = Abs(tilt)
        BY AbsIsNat
      <4>2. p.widen \in Nat
        BY <3>1
      <4>. QED
        BY <4>1, <4>2
    <3>4. PICK n \in Nat \ {0} : n = BPS
      BY BPSAssumption
    <3>5. PICK q \in Int : q = x \div n /\ x < q * n + n
      BY Division
    <3>6. q >= 0
      <4>1. (0 - 1) * n < q * n
        BY <3>5
      <4>2. 0 - 1 < q
        BY <4>1, ProductOrder
      <4>. QED
        BY <4>2
    <3>7. spread = p.spread + q
      BY <1>2, <2>2, <3>2, <3>3, <3>4, <3>5 DEF SpreadOf
    <3>. QED
      BY <1>1, <3>1, <3>6, <3>7
  <2>3. CASE p.kind \notin {"volatility_spread", "avellaneda_stoikov", "order_book_imbalance"}
    <3>1. spread = p.spread
      BY <1>2, <2>3 DEF SpreadOf
    <3>. QED
      BY <1>1, <2>3, <3>1 DEF SpreadPositive
  <2>. QED
    BY <2>1, <2>2, <2>3
<1>4. PICK d \in Nat \ {0} : d = Dist2(spread, p.spacing, l)
  <2>1. l \in Int /\ l >= 1
    OBVIOUS
  <2>. QED
    BY <1>1, <1>3, <2>1, DistancePositive
<1>5. Distance(p, spread, l) \in Nat \ {0}
  <2>1. CASE p.kind = "ladder_mm" /\ p.maxDistance > 0
    <3>1. PICK most \in Nat \ {0} : most = p.maxDistance
      BY <1>1, <2>1
    <3>. QED
      BY <1>4, <2>1, <3>1 DEF Distance
  <2>2. CASE ~(p.kind = "ladder_mm" /\ p.maxDistance > 0)
    BY <1>4, <2>2 DEF Distance
  <2>. QED
    BY <2>1, <2>2
<1>. QED
  BY <1>2, <1>5

\* The quotes of a plugin are around its fair price.
LEMMA QuotesAround ==
  ASSUME ReplayInv, HistoryInv, PricesPositive, SpreadsPositive,
         NEW i \in DOMAIN portfolio, portfolio[i].kind \in TwoSided, NEW q \in answers[i]
  PROVE  /\ q.price \in Int /\ FairPrice(i) \in Int
         /\ q.side = "buy" => q.price < FairPrice(i) * (2 * BPS)
         /\ q.side = "sell" => FairPrice(i) * (2 * BPS) < q.price
<1>1. PICK p : p = portfolio[i]
  OBVIOUS
<1>2. PICK m, adj, base, history :
         /\ m = markets[p.symbol] /\ adj = Adjustment(portfolio, p.symbol, i)
         /\ base = Base(p) /\ history = memory[i]
  OBVIOUS
<1>3. p.symbol \in DOMAIN markets
  BY <1>1, AnswerIs
<1>4. Sound(m, adj, base, history) /\ Numbers(p)
  BY <1>1, <1>2, <1>3, PluginSound, Configured
<1>5. PICK fair \in Nat \ {0} : fair = FairOf(p, m, adj, base, history) /\ fair = FairPrice(i)
  <2>1. FairOf(p, m, adj, base, history) \in Int
    BY <1>4, FairIsInt
  <2>2. FairPrice(i) = FairOf(p, m, adj, base, history)
    BY <1>1, <1>2 DEF FairPrice
  <2>3. FairPrice(i) > 0
    BY <1>1, <1>3 DEF PricesPositive
  <2>. QED
    BY <2>1, <2>2, <2>3
<1>6. PICK x \in Wanted(i) : q.side = x.side /\ q.price = x.price
  BY AnswerIs
<1>7. x \in OnTimer(p, m, adj, base, history)
  BY <1>1, <1>2 DEF Wanted
<1>8. Around(p, fair, SpreadOf(p, m, history), x)
  BY <1>1, <1>4, <1>5, <1>7, OnTimerAround
<1>9. PICK l \in Nat \ {0} : l = x.level
  BY <1>8 DEF Around
<1>10. SpreadPositive(p)
  BY <1>1 DEF SpreadsPositive
<1>11. PICK d \in Nat \ {0} : d = Distance(p, SpreadOf(p, m, history), l)
  BY <1>1, <1>4, <1>10, SpreadIsPositive
<1>12. x.price = Away(x.side, fair, d)
  BY <1>8, <1>9, <1>11 DEF Around
<1>13. /\ Away("buy", fair, d) \in Int /\ Away("buy", fair, d) < fair * (2 * BPS)
       /\ Away("sell", fair, d) \in Int /\ fair * (2 * BPS) < Away("sell", fair, d)
  BY AwayFacts
<1>14. x.side \in {"buy", "sell"}
  BY <1>8 DEF Around
<1>15. CASE x.side = "buy"
  BY <1>5, <1>6, <1>12, <1>13, <1>15
<1>16. CASE x.side = "sell"
  BY <1>5, <1>6, <1>12, <1>13, <1>16
<1>. QED
  BY <1>14, <1>15, <1>16

\* A range_rebalance plugin quotes one side, an inventory_skew plugin none.
LEMMA OneSided ==
  ASSUME ReplayInv, NEW i \in DOMAIN portfolio, portfolio[i].kind \notin TwoSided,
         NEW q \in answers[i], NEW r \in answers[i]
  PROVE  q.side = r.side /\ portfolio[i].kind = "range_rebalance"
<1>1. PICK p : p = portfolio[i]
  OBVIOUS
<1>2. PICK x \in Wanted(i), y \in Wanted(i) : q.side = x.side /\ r.side = y.side
  BY AnswerIs
<1>3. p.kind \in {"range_rebalance", "inventory_skew"}
  <2>1. p.kind \in Kinds
    BY <1>1, Configured, Zenon DEF Numbers
  <2>. QED
    BY <1>1, <2>1 DEF TwoSided
<1>4. p.kind # "inventory_skew"
  BY <1>1, <1>2 DEF Wanted, OnTimer
<1>5. Wanted(i) = RangeQuotes(p, markets[p.symbol], Base(p))
  BY <1>1, <1>3, <1>4 DEF Wanted, OnTimer
<1>6. \E side, anchor, remaining : Wanted(i) = RangeLevels(side, anchor, remaining, p.size, p)
  BY <1>2, <1>5 DEF RangeQuotes
<1>7. PICK side, anchor, remaining : Wanted(i) = RangeLevels(side, anchor, remaining, p.size, p)
  BY <1>6
<1>8. ASSUME NEW z \in Wanted(i) PROVE z.side = side
  <2> DEFINE price(l) == Away(side, 2 * anchor * BPS, 2 * (p.offset + p.spacing * (l - 1)))
  <2>1. RangeLevels(side, anchor, remaining, p.size, p) =
           {Quote(side, l, price(l), RangeSize(p.size, remaining, l)) :
              l \in {k \in 1 .. p.levels : p.size > 0 /\ remaining - (k - 1) * p.size > 0}}
    BY DEF RangeLevels, RangeSize
  <2> HIDE DEF price
  <2>2. PICK l : z = Quote(side, l, price(l), RangeSize(p.size, remaining, l))
    BY <1>7, <2>1
  <2>. QED
    BY <2>2, QuoteFacts
<1>. QED
  BY <1>1, <1>2, <1>3, <1>4, <1>8

LEMMA AnswersApart ==
  ReplayInv /\ HistoryInv /\ PricesPositive /\ SpreadsPositive /\ SameKeySamePrice => WantedApart
<1> SUFFICES ASSUME ReplayInv, HistoryInv, PricesPositive, SpreadsPositive, SameKeySamePrice,
                    NEW b \in QE!Desired(answers), NEW a \in QE!Desired(answers),
                    b.strategy = a.strategy, b.symbol = a.symbol, b.side = "buy", a.side = "sell"
             PROVE  b.price \in Int /\ a.price \in Int /\ b.price < a.price
  BY DEF WantedApart
<1>1. PICK i \in DOMAIN portfolio : b \in answers[i]
  BY DesiredBySome
<1>2. PICK j \in DOMAIN portfolio : a \in answers[j]
  BY DesiredBySome
<1>3. /\ portfolio[i].key = portfolio[j].key /\ portfolio[i].symbol = portfolio[j].symbol
  BY <1>1, <1>2, AnswerIs
<1>4. portfolio[i].kind \in TwoSided /\ portfolio[j].kind \in TwoSided /\ FairPrice(i) = FairPrice(j)
  <2>1. CASE i = j
    <3>1. portfolio[i].kind \in TwoSided
      BY <1>1, <1>2, <2>1, OneSided
    <3>. QED
      BY <2>1, <3>1
  <2>2. CASE i # j
    <3>1. portfolio[i].kind # "inventory_skew"
      BY <1>1, OneSided DEF TwoSided
    <3>2. portfolio[j].kind # "inventory_skew"
      BY <1>2, OneSided DEF TwoSided
    <3>. QED
      BY <1>3, <2>2, <3>1, <3>2 DEF SameKeySamePrice
  <2>. QED
    BY <2>1, <2>2
<1>5. b.price \in Int /\ FairPrice(i) \in Int /\ b.price < FairPrice(i) * (2 * BPS)
  BY <1>1, <1>4, QuotesAround
<1>6. a.price \in Int /\ FairPrice(j) * (2 * BPS) < a.price
  BY <1>2, <1>4, QuotesAround
<1>7. PICK x \in Int : x = FairPrice(i) * (2 * BPS) /\ x = FairPrice(j) * (2 * BPS)
  BY <1>4, <1>5, BPSAssumption
<1>. QED
  BY <1>5, <1>6, <1>7

\* No plugin, of whatever kind, offers to trade with itself as long as prices and
\* spreads are positive (the plugins' on_timer, quote/engine.py:101): for any
\* number of levels, spacings, sizes, imbalances, histories and inventories, and
\* for plugins under the same key that agree on the fair price.
THEOREM PluginsNeverCross ==
  Spec => [](PricesPositive /\ SpreadsPositive /\ SameKeySamePrice => OwnQuotesUncrossed)
<1>1. ReplayInv /\ HistoryInv
         => (PricesPositive /\ SpreadsPositive /\ SameKeySamePrice => OwnQuotesUncrossed)
  BY AnswersApart, RoundingKeepsApart
<1>. QED
  BY <1>1, ReplayInductive, HistoryInductive, PTL

-----------------------------------------------------------------------------
(* Market makers around the mid.                                             *)

\* Market makers that quote around the mid, with a positive spread, and skews of
\* less than the whole price.
MidMaker(p) ==
    p.kind \in {"basic_mm", "hedged_mm", "ladder_mm", "volatility_spread"} /\ SpreadPositive(p)
MildSkew(p) == p.kind = "inventory_skew" /\ p.skew \in 0 .. BPS - 1
MakersOnly == \A i \in DOMAIN portfolio : MidMaker(portfolio[i]) \/ MildSkew(portfolio[i])

LEMMA ClampFacts ==
  ASSUME NEW x \in Int, NEW low \in Int, NEW high \in Int, low <= high
  PROVE  Clamp(x, low, high) \in low .. high
BY DEF Clamp

\* Inventory shifts prices by less than the whole.
LEMMA SkewBounded ==
  ASSUME ReplayInv, NEW i \in DOMAIN portfolio, MildSkew(portfolio[i])
  PROVE  /\ Skew(portfolio[i], Base(portfolio[i])) \in Int
         /\ Skew(portfolio[i], Base(portfolio[i])) > -BPS
<1> DEFINE p == portfolio[i]
           base == Base(p)
           deviation == Clamp(base.available + base.frozen - p.target, -p.target, p.target)
<1>1. p.target \in Int /\ p.skew \in Nat /\ p.skew < BPS /\ BPS \in Nat
  <2>1. p.kind = "inventory_skew" /\ p.skew \in 0 .. BPS - 1
    BY DEF MildSkew
  <2>2. p.target \in Int
    BY <2>1, Configured, Zenon DEF Numbers
  <2>. QED
    BY <2>1, <2>2, BPSAssumption
<1>2. base.available \in Nat /\ base.frozen \in Nat
  BY BaseFacts
<1> HIDE DEF p, base
<1>3. CASE p.target <= 0
  <2>1. Skew(p, base) = 0
    BY <1>3 DEF Skew
  <2>. QED
    BY <1>1, <2>1 DEF p, base
<1>4. CASE ~(p.target <= 0)
  <2>1. p.target \in Nat \ {0}
    BY <1>1, <1>4
  <2>2. Skew(p, base) = -((deviation * p.skew) \div p.target)
    BY <1>4 DEF Skew
  <2>3. deviation \in Int /\ deviation <= p.target
    <3>1. base.available + base.frozen - p.target \in Int /\ -p.target \in Int /\ -p.target <= p.target
      BY <1>2, <2>1
    <3>2. deviation \in -p.target .. p.target
      BY <1>1, <3>1, ClampFacts
    <3> HIDE DEF deviation
    <3>. QED
      BY <1>1, <3>2
  <2> HIDE DEF deviation
  <2> DEFINE q == (deviation * p.skew) \div p.target
  <2>4. q \in Int /\ q * p.target <= deviation * p.skew
    <3>1. deviation * p.skew \in Int
      BY <1>1, <2>3
    <3>. QED
      BY <2>1, <3>1, Division
  <2> HIDE DEF q
  <2>5. deviation * p.skew <= p.skew * p.target
    <3>1. CASE p.skew = 0
      BY <1>1, <2>3, <3>1
    <3>2. CASE p.skew # 0 /\ deviation < p.target
      <4>1. p.skew * deviation < p.skew * p.target
        BY <1>1, <2>3, <3>2, ProductGrows
      <4>2. p.skew * deviation = deviation * p.skew /\ p.skew * deviation \in Int /\ p.skew * p.target \in Int
        BY <1>1, <2>3
      <4>. QED
        BY <4>1, <4>2
    <3>3. CASE deviation = p.target
      BY <1>1, <3>3
    <3>. QED
      BY <1>1, <2>3, <3>1, <3>2, <3>3
  <2>6. q * p.target <= p.skew * p.target
    <3>1. q * p.target \in Int /\ deviation * p.skew \in Int /\ p.skew * p.target \in Int
      BY <1>1, <2>3, <2>4
    <3>. QED
      BY <2>4, <2>5, <3>1
  <2>7. q <= p.skew
    BY <1>1, <2>1, <2>4, <2>6, ProductOrder
  <2>. QED
    BY <1>1, <2>2, <2>4, <2>7 DEF p, base, q
<1>. QED
  BY <1>3, <1>4 DEF p, base

LEMMA AdjustmentBounded ==
  ASSUME ReplayInv, MakersOnly, NEW symbol, NEW i
  PROVE  BPS + Adjustment(portfolio, symbol, i) \in Nat \ {0}
<1>1. CASE Adjustment(portfolio, symbol, i) = 0
  BY <1>1, BPSAssumption
<1>2. ASSUME NEW j \in Skews(symbol),
             Adjustment(portfolio, symbol, i) = Skew(portfolio[j], Base(portfolio[j]))
      PROVE  BPS + Adjustment(portfolio, symbol, i) \in Nat \ {0}
  <2>1. j \in DOMAIN portfolio /\ MildSkew(portfolio[j])
    BY DEF Skews, MakersOnly, MidMaker
  <2>2. PICK x \in Int : x = Skew(portfolio[j], Base(portfolio[j])) /\ x > -BPS
    BY <2>1, SkewBounded
  <2>. QED
    BY <1>2, <2>2, BPSAssumption
<1>. QED
  BY <1>1, <1>2, AdjustmentIs

\* Such makers agree on a positive price.
LEMMA MakersAgree ==
  ReplayInv /\ HistoryInv /\ MakersOnly => PricesPositive /\ SpreadsPositive /\ SameKeySamePrice
<1> SUFFICES ASSUME ReplayInv, HistoryInv, MakersOnly
             PROVE  PricesPositive /\ SpreadsPositive /\ SameKeySamePrice
  OBVIOUS
<1>1. ASSUME NEW i \in DOMAIN portfolio, portfolio[i].kind # "inventory_skew"
      PROVE  /\ MidMaker(portfolio[i]) /\ portfolio[i].kind \in TwoSided
             /\ FairPrice(i) = Shifted(Mid2(markets[portfolio[i].symbol]),
                                       Adjustment(portfolio, portfolio[i].symbol, 1))
  <2>1. MidMaker(portfolio[i])
    BY <1>1 DEF MakersOnly, MildSkew
  <2>2. portfolio[i].kind \in TwoSided
    BY <2>1 DEF MidMaker, TwoSided, Kinds
  <2>3. PICK p : p = portfolio[i]
    OBVIOUS
  <2>4. Adjustment(portfolio, p.symbol, i) = Adjustment(portfolio, p.symbol, 1)
    BY DEF Adjustment
  <2>5. FairPrice(i) = Shifted(Mid2(markets[p.symbol]), Adjustment(portfolio, p.symbol, i))
    BY <2>1, <2>3 DEF FairPrice, FairOf, MidMaker
  <2>. QED
    BY <2>1, <2>2, <2>3, <2>4, <2>5
<1>2. PricesPositive
  <2> SUFFICES ASSUME NEW i \in DOMAIN portfolio, portfolio[i].kind \in TwoSided,
                      portfolio[i].symbol \in DOMAIN markets
               PROVE  FairPrice(i) > 0
    BY DEF PricesPositive
  <2>1. PICK symbol \in DOMAIN markets : symbol = portfolio[i].symbol
    OBVIOUS
  <2>2. PICK x \in Nat \ {0}, y \in Nat \ {0} :
           x = Mid2(markets[symbol]) /\ y = BPS + Adjustment(portfolio, symbol, 1)
    BY AdjustmentBounded, MarketFacts
  <2>3. FairPrice(i) = x * y
    BY <1>1, <2>1, <2>2 DEF Shifted, TwoSided
  <2>. QED
    BY <2>2, <2>3
<1>3. SpreadsPositive
  BY <1>1 DEF SpreadsPositive, MidMaker, TwoSided
<1>4. SameKeySamePrice
  BY <1>1 DEF SameKeySamePrice
<1>. QED
  BY <1>2, <1>3, <1>4

\* Makers around the mid with positive spreads never offer to trade with
\* themselves (basic_mm.py, hedged_mm.py, ladder_mm.py, volatility_spread.py,
\* inventory_skew.py, quote/engine.py:101): for any number of them, of levels, any
\* spacings, limits of distance, histories, inventories and skews, makers under
\* the same key included, and with no condition on what the replay has reached.
THEOREM MakersNeverCross == Spec => [](MakersOnly => OwnQuotesUncrossed)
<1>1. ReplayInv /\ HistoryInv => (MakersOnly => OwnQuotesUncrossed)
  BY MakersAgree, AnswersApart, RoundingKeepsApart
<1>. QED
  BY <1>1, ReplayInductive, HistoryInductive, PTL

=============================================================================
