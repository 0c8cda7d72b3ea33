\* Two polls that may overlap and break off; an answer of TronGrid may be cut.
SPECIFICATION FairSpec
CONSTANTS
    Poller = {p1, p2}
    Transfer = {t1, t2}
    Limit = 2
    MaxRequests = 2
INVARIANTS
    QuietLeavesNothing
    CreditedWithRow
    QuietHandledOnce
PROPERTIES
    EventuallyRecorded
CHECK_DEADLOCK FALSE
