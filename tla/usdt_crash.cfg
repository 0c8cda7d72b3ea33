\* A poll is broken off and another one takes its place.
SPECIFICATION Spec
CONSTANTS
    Poller = {p1}
    Transfer = {t1}
    Limit = 2
    MaxRequests = 2
SYMMETRY Symmetry
INVARIANTS
    HandledOnce
CHECK_DEADLOCK FALSE
