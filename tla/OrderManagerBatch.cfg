\* Batches of two orders whose loops stop half way, one process death.
SPECIFICATION Spec
CONSTANTS
    Own = {o1, o2}
    Foreign = {}
    Symbols <- MCSymbols
    SymbolOf <- MCSymbolOf
    Size = 1
    PageLimit = 1
    MaxStream = 1
    MaxKills = 1
SYMMETRY Symmetry
VIEW StatusView
INVARIANTS
    NoInvisibleExposure
    TransientHasOwner
PROPERTY ImplementsLedger
