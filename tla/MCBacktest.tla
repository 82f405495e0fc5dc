----------------------------- MODULE MCBacktest -----------------------------
(***************************************************************************)
(* Prices around ten ticks and one hundred basis points in one, so that    *)
(* spreads and shifts of a few per cent are a tick or a fraction of one;   *)
(* one portfolio for each kind of plugin and some that interact.           *)
(***************************************************************************)
EXTENDS Backtest, TLC

MCRules == [X |-> [priceStep |-> 1, sizeStep |-> 1, minSize |-> 1, minNotional |-> 20],
            Y |-> [priceStep |-> 2, sizeStep |-> 2, minSize |-> 2, minNotional |-> 0]]
MCBases == [X |-> "B", Y |-> "C"]

Level(price, size) == [price |-> price, size |-> size]
Book(bid, ask, bids, asks) == [bid |-> bid, ask |-> ask, bids |-> bids, asks |-> asks]

MCBooks == {Book(10, 11, {Level(10, 1), Level(8, 3)}, {Level(11, 3)}),
            Book(9, 13, {Level(9, 4)}, {Level(13, 1), Level(14, 2)}),
            Book(8, 9, {}, {Level(9, 2)}),
            Book(14, 16, {Level(14, 2)}, {})}

Account(b, f) == [B |-> [available |-> b, frozen |-> f], C |-> [available |-> 4, frozen |-> 1]]
MCAccounts == {Account(1, 1), Account(4, 0), Account(5, 4)}

Maker == [symbol |-> "X", levels |-> 2, spacing |-> 7, size |-> 3, multiplier |-> 2, spread |-> 5]
Basic == [kind |-> "basic_mm", key |-> "basic"] @@ Maker
BasicY == [kind |-> "basic_mm", key |-> "basic", symbol |-> "Y"] @@ Maker
Hedged == [kind |-> "hedged_mm", key |-> "hedged"] @@ Maker
Micro == [kind |-> "microprice_mm", key |-> "micro", depth |-> 2] @@ Maker
Ladder == [kind |-> "ladder_mm", key |-> "ladder", bidLevels |-> 3, askLevels |-> 1,
           maxDistance |-> 8] @@ Maker
Tilted == [kind |-> "order_book_imbalance", key |-> "tilted", depth |-> 1, threshold |-> 20,
           skew |-> 20, widen |-> 10] @@ Maker
Volatile == [kind |-> "volatility_spread", key |-> "volatile", window |-> 2,
             minSpread |-> 4, maxSpread |-> 30] @@ Maker
Stoikov == [kind |-> "avellaneda_stoikov", key |-> "stoikov", window |-> 2, horizon |-> 4,
            minSigma |-> 5, minSpread |-> 4, maxSpread |-> 30, riskAversion |-> 1, lean |-> 1,
            maxInventory |-> 4, target |-> 4] @@ Maker
Range(direction) == [kind |-> "range_rebalance", key |-> "range", floor |-> 9, ceiling |-> 14,
                     buyBelow |-> 11, sellAbove |-> 10, target |-> 4, offset |-> 4,
                     direction |-> direction] @@ Maker
Leaning(s) == [kind |-> "inventory_skew", key |-> "skew", symbol |-> s, target |-> 4, skew |-> 30]

MCPortfolios == {<<Basic, BasicY, Leaning("X")>>, <<Leaning("X"), Hedged>>, <<Micro>>,
                 <<Ladder, Leaning("X")>>, <<Tilted>>, <<Volatile, Leaning("X")>>, <<Stoikov>>,
                 <<Range("auto"), Leaning("Y"), BasicY>>, <<Range("buy")>>, <<Range("sell")>>,
                 <<Basic, [key |-> "basic"] @@ Hedged>>}

=============================================================================
