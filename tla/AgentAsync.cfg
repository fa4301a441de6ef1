SPECIFICATION Spec
CONSTANTS
    Workers = {w1}
    Main = main
    NoAgent = NoAgent
    Locations = {l1}
    NoLocation = NoLocation
    MaxAsync = 1
    MaxTimers = 1
    MaxReports = 0
    w1 = w1
    w2 = w2
INVARIANTS WaiterStore WaitEndsForItsReason IdleHasNoWork
PROPERTIES WaitAsyncSettlesOnce
