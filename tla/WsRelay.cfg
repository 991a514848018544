SPECIFICATION Spec
CONSTANTS
    Modes = {TRUE, FALSE}
    Stalls = {"c"}
    Cap = 1
    MaxData = 2
    MaxMixed = 1
    MaxCalls = 2
    Second = 1
INVARIANTS
    TypeOK
    InOrder
    AnsweredInOrder
    OrderlyClose
PROPERTIES
    ClosesBoth
    EndsWhenRead
    ClientIsRead
    CallsAnswered
