SPECIFICATION Spec
CONSTANTS
    Ids = {"1", "null"}
    MaxElements = 3
    MaxMembers = 3
INVARIANTS
    LocalOrForwarded
    OneReplyEach
    PrefilterSound
