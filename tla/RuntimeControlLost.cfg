\* One strategy that is stopped twice.
SPECIFICATION Spec
CONSTANTS
    Strategies = {a}
    Commands = {c1, c2}
    Threads = {t1}
    Asked <- Stopping
    MaxKills = 0
INVARIANTS
    QueuedIsKept
