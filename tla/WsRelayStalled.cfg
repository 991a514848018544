SPECIFICATION Spec
CONSTANTS
    Modes = {FALSE}
    Stalls = {"c"}
    Cap = 1
    MaxData = 1
    MaxMixed = 1
    MaxCalls = 0
    Second = 1
PROPERTIES
    EndsWithPeer
