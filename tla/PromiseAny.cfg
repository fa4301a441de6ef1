SPECIFICATION Spec
CONSTANTS
    MaxElements = 1
    MaxCalls = 2
PROPERTIES SettledOnce
