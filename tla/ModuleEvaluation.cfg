SPECIFICATION Spec
CONSTANTS
    Entry = 1
    Graphs <- AllGraphs
    MaxImports = 1
INVARIANTS TypeOK DependenciesFirst CapabilityTruth ImportTruth NothingForgotten AncestorsInOrder
PROPERTIES RunsOnce
