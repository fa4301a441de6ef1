SPECIFICATION Spec
CONSTANTS
    MaxElements = 2
    MaxCalls = 4
INVARIANTS TypeOK CombinatorResult
