----------------------------- MODULE MarketData -----------------------------
(***************************************************************************)
(* The order book kept from depth messages and the market data hub         *)
(* (src/src/mm/market_data/orderbook.py, hub.py) for one symbol.  The      *)
(* exchange numbers the versions of its book one by one; messages about    *)
(* any of them arrive in any order, repeatedly or never.                   *)
(***************************************************************************)
EXTENDS Integers, Sequences, FiniteSets

CONSTANTS Prices, Sizes,   \* of levels; size 0 is no level
          MaxVersion       \* bound on the versions of the exchange's book

NoVersion == 0
NoMarket == [bid |-> 0, bidSize |-> 0, ask |-> 0, askSize |-> 0]

VARIABLES feed,      \* external: the versions of the exchange's book so far
          book,      \* OrderBook.bids and asks: the size of each price
          version,   \* OrderBook.version
          market,    \* MarketDataHub.snapshots[symbol]
          gapped     \* gap_count > 0

marketVars == <<feed, book, version, market, gapped>>

Side == [Prices -> Sizes]
Empty == [p \in Prices |-> 0]
Levels(side) == {p \in Prices : side[p] > 0}

Highest(S) == CHOOSE p \in S : \A q \in S : q <= p
Lowest(S) == CHOOSE p \in S : \A q \in S : p <= q

\* OrderBook.snapshot: the best level of each side.
Top(b) ==
    LET bid == IF Levels(b.bids) = {} THEN 0 ELSE Highest(Levels(b.bids))
        ask == IF Levels(b.asks) = {} THEN 0 ELSE Lowest(Levels(b.asks))
    IN  [bid |-> bid, bidSize |-> IF bid = 0 THEN 0 ELSE b.bids[bid],
         ask |-> ask, askSize |-> IF ask = 0 THEN 0 ELSE b.asks[ask]]

Uncrossed(b) == \A p \in Levels(b.bids), q \in Levels(b.asks) : p < q

\* What the exchange sends about version v: the whole book, or the levels that
\* differ from the version before.
Message(type, v) ==
    LET changed(side, old) == {p \in Prices : side[p] # old[p]}
        only(side, S) == [p \in S |-> side[p]]
    IN  [type |-> type, version |-> v,
         bids |-> IF type = "snapshot" THEN feed[v].bids
                  ELSE only(feed[v].bids, changed(feed[v].bids, feed[v - 1].bids)),
         asks |-> IF type = "snapshot" THEN feed[v].asks
                  ELSE only(feed[v].asks, changed(feed[v].asks, feed[v - 1].asks))]

MarketInit ==
    /\ feed = <<[bids |-> Empty, asks |-> Empty]>>
    /\ book = [bids |-> Empty, asks |-> Empty]
    /\ version = NoVersion /\ market = NoMarket /\ gapped = FALSE

\* External: one level of a side changes.
BookMoves ==
    /\ Len(feed) < MaxVersion
    /\ \E side \in {"bids", "asks"}, p \in Prices, s \in Sizes :
          LET next == [feed[Len(feed)] EXCEPT ![side][p] = s]
          IN  next # feed[Len(feed)] /\ Uncrossed(next) /\ feed' = Append(feed, next)
    /\ UNCHANGED <<book, version, market, gapped>>

\* Mutant: an update that skips versions is applied.
FollowsSkipping(u) == u.type = "snapshot" \/ (version # NoVersion /\ u.version > version)

\* The update is the next one, or needs none before it.
Follows(u) == u.type = "snapshot" \/ (version # NoVersion /\ u.version = version + 1)

\* An update that the book has seen already.
Old(u) == u.type = "update" /\ version # NoVersion /\ u.version <= version

\* _levels_to_dict of a snapshot, _apply_levels of an update.
Applied(side, levels) == [p \in Prices |-> IF p \in DOMAIN levels THEN levels[p] ELSE side[p]]

\* apply_bitmart_depth_row with a message the book accepts, or ignores: either
\* way the hub publishes what the book says.
DepthApplied(u) ==
    /\ Follows(u) \/ Old(u)
    /\ book' = IF Follows(u) THEN [bids |-> Applied(book.bids, u.bids), asks |-> Applied(book.asks, u.asks)]
               ELSE book
    /\ version' = IF Follows(u) THEN u.version ELSE version
    /\ market' = Top(book')
    /\ UNCHANGED <<feed, gapped>>

\* OrderBookGap: the book and the published market stay.
DepthGap(u) ==
    /\ ~Follows(u) /\ ~Old(u)
    /\ gapped' = TRUE
    /\ UNCHANGED <<feed, book, version, market>>

\* apply_snapshot: a ticker of the REST gateway, as old as its request.
Ticker(v) ==
    /\ market' = Top(feed[v])
    /\ UNCHANGED <<feed, book, version, gapped>>

MarketNext ==
    \/ BookMoves
    \/ \E v \in 1..Len(feed), type \in {"snapshot", "update"} :
          /\ type = "update" => v > 1
          /\ DepthApplied(Message(type, v)) \/ DepthGap(Message(type, v))
    \/ \E v \in 1..Len(feed) : Ticker(v)

MarketSpec == MarketInit /\ [][MarketNext]_marketVars

-----------------------------------------------------------------------------
\* The local book is the exchange's book of the version it claims, and the
\* published market was once the market: lost, repeated and reordered messages
\* make them late but never wrong (orderbook.py:34-52, hub.py:37-50).
BookIsItsVersion ==
    /\ version # NoVersion => book = feed[version]
    /\ market # NoMarket => \E v \in DOMAIN feed : market = Top(feed[v])

=============================================================================
