SPECIFICATION Spec
CONSTANTS
    Genesis = TRUE
    Interval = 1
    Timeout = 1
    MaxAge = 0
    MaxChanges = 1
    MaxFaults = 0
PROPERTIES
    RecoveryIsLogged
