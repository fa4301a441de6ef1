SPECIFICATION Spec
CONSTANTS
    MaxPromises = 4
    MaxLatches = 2
    MaxTasks = 1
INVARIANTS TypeOK ReactionRunsOnce ReactionOrder Adoption
