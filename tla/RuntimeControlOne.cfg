\* One strategy, every kind of request, two commands and one end of the engine.
SPECIFICATION Spec
CONSTANTS
    Strategies = {a}
    Commands = {c1, c2}
    Threads = {t1}
    Asked <- AllKinds
    MaxKills = 1
INVARIANTS
    TypeOK
    AlarmHolds
    QueueTellsTruth
PROPERTIES
    KillSwitchHolds
    PauseEmptiesBook
