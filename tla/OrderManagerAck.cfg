\* A private fill arrives while the submit call waits for its answer.
SPECIFICATION Spec
CONSTANTS
    Own = {o1}
    Foreign = {}
    Symbols <- MCSymbols
    SymbolOf <- MCSymbolOf
    Size = 1
    PageLimit = 1
    MaxStream = 1
    MaxKills = 0
INVARIANT AckAlwaysApplies
