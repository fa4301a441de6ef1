SPECIFICATION LiveSpec
CONSTANTS
    Workers = {w1, w2}
    Main = main
    NoAgent = NoAgent
    Locations = {}
    NoLocation = NoLocation
    MaxAsync = 0
    MaxTimers = 0
    MaxReports = 0
    w1 = w1
    w2 = w2
PROPERTIES ReadyRuns StartReturns
