SPECIFICATION Spec
CONSTANTS
    MaxCalls = 5
    MaxTime = 0
    Delays = {0}
    t1 = t1
    t2 = t2
    Targets = {t1, t2}
    Registry <- OneRegistry
INVARIANTS DerefStable ProgramOutcome
PROPERTIES KeptAliveEnds MacrotaskBoundary
