SPECIFICATION TurnSpec
CONSTANTS
    Workers = {w1, w2, w3}
    Main = main
    NoAgent = NoAgent
SYMMETRY WorkerSymmetry
INVARIANTS TurnTypeOK TurnExclusive ReadyQueue NoLostWakeup NeverHangs
