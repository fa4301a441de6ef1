SPECIFICATION LiveSpec
CONSTANTS
    MaxPromises = 3
    MaxLatches = 2
    MaxTasks = 2
INVARIANTS RejectionTracking
PROPERTIES ReactionsRun
