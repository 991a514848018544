SPECIFICATION Spec
CONSTANTS
    Genesis = TRUE
    Interval = 1
    Timeout = 1
    MaxAge = 1
    MaxChanges = 1
    MaxFaults = 1
INVARIANTS
    NeverServesPending
    ServedTruth
    OneStory
PROPERTIES
    LinesAlternate
