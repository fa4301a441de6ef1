SPECIFICATION Spec
CONSTANTS
    Workers = {w1, w2}
    Main = main
    NoAgent = NoAgent
    Locations = {}
    NoLocation = NoLocation
    MaxAsync = 0
    MaxTimers = 1
    MaxReports = 1
    w1 = w1
    w2 = w2
SYMMETRY WorkerSymmetry
INVARIANTS BroadcastComplete StartRunsAgentFirst IdleHasNoWork
