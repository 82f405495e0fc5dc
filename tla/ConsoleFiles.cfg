\* Two threads, three requests, two symbols, two strategies, a reloader.
SPECIFICATION Spec
SYMMETRY Alike
CONSTANTS
    Threads = {t1, t2}
    Users = {"root", "op"}
    Role <- MCRole
    Tokens = {"root"}
    Symbols = {"BTC", "ETH"}
    Strategies <- MCStrategies
    FirstConfig <- MCFirstConfig
    MaxRows = 3
    MaxWrites = 2
    None = None
    Edit = Edit
INVARIANTS
    RecordTellsTruth
    FileStaysCoherent
    SettledFileIsLoaded
CHECK_DEADLOCK FALSE
