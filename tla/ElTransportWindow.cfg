SPECIFICATION Spec
CONSTANTS
    Requests = {r1}
    Interval = 1
    Timeout = 1
    MaxChanges = 1
    MaxGlitches = 0
PROPERTIES
    MismatchWithinOneInterval
