SPECIFICATION Spec
CONSTANTS
    Workers = {w1, w2}
    Main = main
    NoAgent = NoAgent
    Locations = {l1}
    NoLocation = NoLocation
    MaxAsync = 0
    MaxTimers = 0
    MaxReports = 0
    w1 = w1
    w2 = w2
SYMMETRY WorkerSymmetry
INVARIANTS TypeOK  NoUseAfterFree
PROPERTIES TurnSpec
