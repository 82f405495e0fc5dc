\* One engine process on one symbol; cancels, places, stream and shutdown.
CONSTANTS
    BPS = 100
    Symbol = "S"
    Strategy = "mm"
    Rule <- MCRule
    Limits <- MCLimits
    Levels = 1
    Prices <- MCPrices
    Market <- MCMarket
    Tables <- MCTables
    Listings <- MCListings
    MaxOrders = 4
    MaxReports = 1
    Interval = 1
    DrillIntent <- MCDrillIntent

SPECIFICATION LiveSpec
INVARIANTS TypeOK OnePerSlotUnlessDoubted OpenCountBounded ShutdownLeavesOnlyDoubt DrillsPassAfterCleanRun
    ConsoleForeseesReconcile
PROPERTY StopsWhenAsked
CHECK_DEADLOCK FALSE
