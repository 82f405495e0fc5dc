\* Every plugin, alone and with others, over every log of three snapshots.
CONSTANTS
    BPS = 100
    Rules <- MCRules
    Bases <- MCBases
    Portfolios <- MCPortfolios
    Accounts <- MCAccounts
    Books <- MCBooks
    Delays = {0, 1, 2}
    MaxEvents = 3

SPECIFICATION Spec
INVARIANTS TypeOK OwnQuotesUncrossed RiskFindsNothingToRefuse RangeStopsAtTarget LeansAgainstInventory
CHECK_DEADLOCK FALSE
