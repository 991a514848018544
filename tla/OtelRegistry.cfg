SPECIFICATION Spec
CONSTANTS
    Tasks = {t1, t2}
    Protocols = {"tcp", "ws"}
    Poller = poller
    Peers = {2, 3}
    MaxSets = 2
    MaxRequests = 2
INVARIANTS
    OneInstrument
    FinalExport
PROPERTIES
    CallsReturn
