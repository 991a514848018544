SPECIFICATION Spec
CONSTANTS
    Requests = {r1}
    Interval = 1
    Timeout = 2
    MaxChanges = 2
    MaxGlitches = 2
INVARIANTS
    AtMostOnce
PROPERTIES
    MismatchWindow
    SwitchJustified
    VerdictSettles
