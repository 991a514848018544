SPECIFICATION Spec
CONSTANTS
    Width = 3
    Counts = {2}
    Heights = {1, 4}
    Times = {4, 6}
    Slots = {1, 7}
    Geneses = {0, 2}
    SlotTime = 3
    MaxAge = 1
    Start = 5
    End = 7
    MaxPolls = 2
INVARIANTS
    AnswersMatched
    AgesExact
    EndpointsAgree
    GaugesAgree
