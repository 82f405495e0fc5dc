\* Three orders of two symbols that share the quote currency, with fees and one
\* death.
SPECIFICATION Spec
CONSTANTS
    Orders = {o1, o2, o3}
    Symbols = {btc, synbo}
    Quote = usdt
    Prices = {1, 2, 3}
    Sizes = {4}
    Scale = 10
    FeeRate = 1
    MinNotional = 5
    StartQuote = 160
    StartBase = 2
    MaxKills = 1
SYMMETRY Symmetry
INVARIANTS
    TypeOK
    FrozenIsReserved
    BookMatchesAccount
    OnlyFeesOverdraw
    SidesAgree
PROPERTY LossStopsTrading
