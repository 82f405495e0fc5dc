\* A cancel request is answered that left its order live.
SPECIFICATION Spec
CONSTANTS
    Own = {o1}
    Foreign = {}
    Symbols <- MCSymbols
    SymbolOf <- MCSymbolOf
    Size = 1
    PageLimit = 1
    MaxStream = 1
    MaxKills = 0
INVARIANT CanceledIsOver
