\* Components side by side: three threads and two calls per three ticks; three
\* orders of size two (one of our own, one of somebody else that has a name, one
\* that has none); a book of three prices and four versions; two records.
SPECIFICATION Spec
SYMMETRY Alike
CONSTANTS
    Threads = {t1, t2, t3}
    MaxCalls = 2
    Window = 3
    MaxTime = 6
    Orders = {own, named, foreign}
    Named = {own, named}
    Own = {own}
    Size = 2
    MaxQueue = 2
    Prices = {1, 2, 3}
    Sizes = {0, 1, 2}
    MaxVersion = 4
    Ids = {a, b}
    Values = {1, 2}
INVARIANTS
    WindowNeverExceeded
    FillsReachTheBooks
    BookIsItsVersion
PROPERTY ActsAsOneWrite
CHECK_DEADLOCK FALSE
