------------------------------ MODULE Backtest ------------------------------
(***************************************************************************)
(* The replay of recorded market snapshots through the strategy engine and *)
(* the quote engine (src/src/mm/backtest/runner.py,                        *)
(* src/src/mm/strategy/engine.py): what a portfolio of plugins would have  *)
(* placed, with no order working and no plugin paused.                     *)
(*                                                                         *)
(* A plugin is a record of Strategies.tla with its symbol and its key.     *)
(* Prices of the log are whole ticks, times whole time units.              *)
(***************************************************************************)
EXTENDS Strategies

CONSTANTS Rules,       \* the market rule of each symbol
          Bases,       \* the base currency of each symbol
          Portfolios,  \* sequences of plugins: the configured strategies
          Accounts,    \* initial balances: [currency -> [available, frozen]]
          Books,       \* snapshots the log may hold: [bid, ask, bids, asks]
          Delays,      \* time between two of them
          MaxEvents    \* bound on their number

Symbols == DOMAIN Rules

\* The plugins that quote both sides of a fair price.
TwoSided == Kinds \ {"range_rebalance", "inventory_skew"}

\* The configuration gives a plugin the numbers its kind asks for.  That powers
\* of a whole multiplier are whole is written out: it takes an induction.
Numbers(p) ==
    /\ p.kind \in Kinds /\ p.symbol \in Symbols
    /\ p.kind # "inventory_skew" => p.size \in Int /\ p.spacing \in Int
    /\ p.kind \in TwoSided => p.spread \in Int
    /\ p.kind \notin {"ladder_mm", "inventory_skew"} => p.levels \in Int
    /\ p.kind \in {"basic_mm", "microprice_mm"} => \A l \in 1..p.levels : p.multiplier ^ (l - 1) \in Int
    /\ p.kind = "ladder_mm" =>
          /\ p.maxDistance \in Int /\ p.bidLevels \in Int /\ p.askLevels \in Int
          /\ \A l \in (1..p.bidLevels) \cup (1..p.askLevels) : p.multiplier ^ (l - 1) \in Int
    /\ p.kind = "order_book_imbalance" => p.threshold \in Int /\ p.skew \in Int /\ p.widen \in Int
    /\ p.kind \in {"volatility_spread", "avellaneda_stoikov"} =>
          p.window \in Nat \ {0} /\ p.multiplier \in Int /\ p.minSpread \in Int /\ p.maxSpread \in Int
    /\ p.kind = "avellaneda_stoikov" =>
          /\ p.horizon \in Nat /\ p.minSigma \in Int /\ p.riskAversion \in Int /\ p.lean \in Int
          /\ p.maxInventory \in Int /\ p.target \in Int
    /\ p.kind = "range_rebalance" => p.target \in Int /\ p.offset \in Int
    /\ p.kind = "inventory_skew" => p.target \in Int /\ p.skew \in Int

\* Configuration, balances and snapshots hold numbers; a snapshot has a price (the
\* metrics skip one without, _dynamic_spread_bps and _sigma_bps, which is left
\* out) and shows a finite part of the book; a log is in the order of its times.
ASSUME ReplayAssumption ==
    /\ MaxEvents \in Nat /\ Delays \subseteq Nat
    /\ \A s \in Symbols : Rules[s].priceStep \in Nat \ {0} /\ Rules[s].sizeStep \in Nat \ {0}
    /\ \A m \in Books :
          /\ m.bid \in Nat /\ m.ask \in Nat /\ Mid2(m) > 0
          /\ \A levels \in {m.bids, m.asks} :
                IsFiniteSet(levels) /\ \A l \in levels : l.price \in Nat /\ l.size \in Nat
    /\ \A a \in Accounts, s \in Symbols : a[Bases[s]].available \in Nat /\ a[Bases[s]].frozen \in Nat
    /\ \A plugins \in Portfolios :
          /\ Len(plugins) \in Nat /\ DOMAIN plugins = 1..Len(plugins)
          /\ \A i \in DOMAIN plugins : Numbers(plugins[i])

QE == INSTANCE QuoteEngine WITH Denominator <- Scale
Risk == INSTANCE RiskEngine WITH Limits <- [none |-> 0]

VARIABLES
    portfolio,  \* StrategyEngine.plugins
    account,    \* ctx.balances
    now,        \* receive time of the last snapshot
    fed,        \* snapshot_count
    markets,    \* markets, ctx.markets: the last snapshot of each symbol seen
    memory,     \* _history of each plugin
    answers,    \* what each plugin quoted after the last snapshot
    intents     \* what the quote engine would have placed for it

vars == <<portfolio, account, now, fed, markets, memory, answers, intents>>

\* Types; a plugin's history reaches no further back than its window.
TypeOK ==
    /\ portfolio \in Portfolios
    /\ account \in Accounts
    /\ now \in Nat
    /\ fed \in 0..MaxEvents
    /\ DOMAIN markets \subseteq Symbols /\ \A s \in DOMAIN markets : markets[s] \in Books
    /\ \A i \in DOMAIN memory : \A k, l \in DOMAIN memory[i] :
          /\ memory[i][k].ts \in 0..now
          /\ memory[i][l].ts - memory[i][k].ts <= portfolio[i].window
    /\ \A p \in intents : /\ p.symbol \in DOMAIN markets /\ p.side \in {"buy", "sell"}
                          /\ p.price \in Int /\ p.size \in Int

-----------------------------------------------------------------------------
Base(p) == account[Bases[p.symbol]]

\* Mutant: the adjustment of a plugin is not there yet for those listed before it.
AdjustmentInOrder(plugins, symbol, i) ==
    LET skews == {j \in 1..(i - 1) : plugins[j].kind = "inventory_skew" /\ plugins[j].symbol = symbol}
    IN  IF skews = {} THEN 0 ELSE LET j == CHOOSE k \in skews : \A l \in skews : l <= k
                                  IN  Skew(plugins[j], Base(plugins[j]))

\* generate_quotes: every plugin prepares before any of them quotes, so the
\* adjustment of a symbol is that of its last inventory_skew plugin.
Adjustment(plugins, symbol, i) ==
    LET skews == {j \in DOMAIN plugins : plugins[j].kind = "inventory_skew" /\ plugins[j].symbol = symbol}
    IN  IF skews = {} THEN 0 ELSE LET j == CHOOSE k \in skews : \A l \in skews : l <= k
                                  IN  Skew(plugins[j], Base(plugins[j]))

\* on_timer of plugin i, with its symbol and key on each quote.
Quoted(plugins, i, seen, histories) ==
    LET p == plugins[i]
        Named(q) == [strategy |-> p.key, symbol |-> p.symbol, side |-> q.side, level |-> q.level,
                     price |-> q.price, size |-> q.size]
    IN  IF p.symbol \notin DOMAIN seen THEN {}
        ELSE {Named(q) : q \in OnTimer(p, seen[p.symbol], Adjustment(plugins, p.symbol, i),
                                       Base(p), histories[i])}

\* on_market of plugin i
Remembered(p, history, s, m, time) ==
    IF p.symbol = s /\ p.kind \in {"volatility_spread", "avellaneda_stoikov"}
    THEN Remember(history, p, time, Mid2(m)) ELSE history

Init ==
    /\ portfolio \in Portfolios
    /\ account \in Accounts
    /\ now = 0
    /\ fed = 0
    /\ markets = <<>>
    /\ memory = [i \in DOMAIN portfolio |-> <<>>]
    /\ answers = [i \in DOMAIN portfolio |-> {}]
    /\ intents = {}

\* One turn of the loop in run.
Replay(s, m, delay) ==
    /\ fed < MaxEvents
    /\ fed' = fed + 1
    /\ now' = now + delay
    /\ markets' = [t \in DOMAIN markets \cup {s} |-> IF t = s THEN m ELSE markets[t]]
    /\ memory' = [i \in DOMAIN portfolio |-> Remembered(portfolio[i], memory[i], s, m, now')]
    /\ answers' = [i \in DOMAIN portfolio |-> Quoted(portfolio, i, markets', memory')]
    /\ intents' = QE!Places(answers', {}, markets', Rules, <<>>, now', 0)
    /\ UNCHANGED <<portfolio, account>>

Next == \E s \in Symbols, m \in Books, delay \in Delays : Replay(s, m, delay)

Spec == Init /\ [][Next]_vars

-----------------------------------------------------------------------------
\* A strategy never offers to trade with itself: whatever shift, spread,
\* clipping, rounding and post-only correction do, its bids are below its asks
\* (quote/engine.py:101, the plugins' on_timer).
OwnQuotesUncrossed ==
    \A b, a \in intents :
        b.strategy = a.strategy /\ b.symbol = a.symbol /\ b.side = "buy" /\ a.side = "sell"
            => b.price < a.price

\* Quote engine and risk engine agree on what an order may look like: what one
\* builds for a market the other does not refuse for that market, its minimums
\* or its other side (quote/engine.py:60 and risk/engine.py:44-63, 97-102).
RiskFindsNothingToRefuse ==
    \A p \in intents :
        \A rule \in {"symbol_not_allowed", "missing_market", "market_minimums", "post_only_cross"} :
            ~Risk!Breaks(rule, p, [markets |-> markets])

\* However many levels a range_rebalance plugin quotes, if all are filled its
\* inventory does not pass the target, and it sells nothing that is frozen.
RangeStopsAtTarget ==
    \A i \in DOMAIN portfolio :
        LET p == portfolio[i]
            held == Base(p).available + Base(p).frozen
            bought == TotalSize({q \in answers[i] : q.side = "buy"})
            sold == TotalSize({q \in answers[i] : q.side = "sell"})
        IN  p.kind = "range_rebalance" =>
                /\ bought > 0 => held + bought <= p.target
                /\ sold > 0 => held - sold >= p.target /\ sold <= Base(p).available

\* Inventory above the target moves the quotes of the symbol's market makers
\* down and inventory below it moves them up, wherever in the configuration the
\* inventory_skew plugin stands (strategy/engine.py:62, inventory_skew.py:12).
LeansAgainstInventory ==
    \A i, j \in DOMAIN portfolio :
        LET p == portfolio[i]
            k == portfolio[j]
            held == Base(k).available + Base(k).frozen
        IN  (/\ p.kind \in {"basic_mm", "hedged_mm", "ladder_mm", "volatility_spread"}
             /\ k.kind = "inventory_skew" /\ k.symbol = p.symbol /\ p.symbol \in DOMAIN markets)
            => \A b, a \in answers[i] :
                    b.side = "buy" /\ a.side = "sell" /\ b.level = a.level =>
                        LET centre == b.price + a.price
                            neutral == 2 * Mid2(markets[p.symbol]) * (Scale \div 2)
                        IN  /\ held > k.target => centre < neutral
                            /\ held < k.target => centre > neutral

=============================================================================
