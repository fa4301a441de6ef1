SPECIFICATION LiveSpec
CONSTANTS
    MaxCalls = 4
    MaxTime = 2
    Delays = {0, 1, 2}
    t1 = t1
    t2 = t2
    Targets = {}
    Registry <- NoRegistry
INVARIANTS TypeOK
PROPERTIES TimersFireInOrder ProgramEnds
