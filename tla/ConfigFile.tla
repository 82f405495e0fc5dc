----------------------------- MODULE ConfigFile -----------------------------
(***************************************************************************)
(* The configuration file as data: the edits that the admin console makes  *)
(* (src/scripts/admin_server.py) and the test that AppSettings.from_file   *)
(* puts it to (src/src/mm/config/settings.py) in paper mode.  Numbers are  *)
(* kept only as far as they are numbers.                                   *)
(***************************************************************************)

\* A configuration: the listed symbols, the symbols with a market rule and with
\* an initial price, those whose rule is no rule, and the strategies.
Config(symbols, strategies) ==
    [symbols |-> symbols, rules |-> symbols, prices |-> symbols, malformed |-> {},
     strategies |-> strategies]

\* strategy_key: the id, or else name and symbol.
Key(s) == IF s.id # "" THEN <<s.id>> ELSE <<s.name, s.symbol>>

\* save_symbol: a price that is not given defaults to the old one or to 1.
SaveSymbol(c, symbol, wellFormed) ==
    [c EXCEPT !.symbols = @ \cup {symbol},
              !.rules = @ \cup {symbol},
              !.prices = @ \cup {symbol},
              !.malformed = IF wellFormed THEN @ \ {symbol} ELSE @ \cup {symbol}]

\* Mutant: the symbol stays in the list.
DeleteSymbolListed(c, symbol) ==
    [c EXCEPT !.rules = @ \ {symbol},
              !.prices = @ \ {symbol},
              !.malformed = @ \ {symbol},
              !.strategies = {s \in @ : s.symbol # symbol}]

\* delete_symbol takes the strategies of the symbol with it.
DeleteSymbol(c, symbol) ==
    [c EXCEPT !.symbols = @ \ {symbol},
              !.rules = @ \ {symbol},
              !.prices = @ \ {symbol},
              !.malformed = @ \ {symbol},
              !.strategies = {s \in @ : s.symbol # symbol}]

\* POST /api/strategies: replaces the one of that key, or adds one.
SaveStrategy(c, item) ==
    [c EXCEPT !.strategies = {s \in @ : Key(s) # Key(item)} \cup {item}]

\* delete_strategy.
DeleteStrategy(c, key) == [c EXCEPT !.strategies = {s \in @ : Key(s) # key}]

\* AppSettings.from_config and validate raise unless this holds.
Loads(c) ==
    /\ c.malformed = {}
    /\ c.symbols # {}
    /\ c.symbols \subseteq c.rules
    /\ c.symbols \subseteq c.prices

\* The configurations of such symbols and strategies.
Configs(symbols, strategies) ==
    [symbols : SUBSET symbols, rules : SUBSET symbols, prices : SUBSET symbols,
     malformed : SUBSET symbols, strategies : SUBSET strategies]

\* A symbol that is listed has its rule and its price, and no two strategies
\* have the same key.
Coherent(c) ==
    /\ c.symbols \subseteq c.rules /\ c.symbols \subseteq c.prices
    /\ \A s, z \in c.strategies : Key(s) = Key(z) => s = z

=============================================================================
