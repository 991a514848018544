SPECIFICATION Spec
CONSTANTS
    Listeners = {l1, l2}
    Tasks = {t1, t2, t3}
    Poller = poller
    Main = main
    Grace = 1
    Backoff = 2
    NoTime = NoTime
SYMMETRY Symmetry
INVARIANTS
    ReturnReleasesAll
    ReturnsInTime
PROPERTIES
    CutAtSharedDeadline
