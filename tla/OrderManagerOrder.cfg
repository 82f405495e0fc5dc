\* One order at a time, an own one or an outsider's: partial fills, three
\* reports waiting in the stream, one process death.
SPECIFICATION Spec
CONSTANTS
    Own = {o1}
    Foreign = {f1}
    Symbols <- MCSymbols
    SymbolOf <- MCSymbolOf
    Size = 2
    PageLimit = 1
    MaxStream = 3
    MaxKills = 1
CONSTRAINT OneInPlay
VIEW FillView
INVARIANTS
    TypeOK
    FillsAreReal
PROPERTY TerminalIsFinal
