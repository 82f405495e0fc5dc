\* One strategy that quotes, and a switch that is set.
SPECIFICATION Spec
CONSTANTS
    Strategies = {a}
    Commands = {}
    Threads = {}
    Asked = {}
    MaxKills = 0
PROPERTIES
    KillSwitchEmptiesBook
