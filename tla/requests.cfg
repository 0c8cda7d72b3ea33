\* Three requests one after the other, and two that overlap with a text message.
SPECIFICATION MCSpec
CONSTANTS
    Conn = {c1, c2}
    MaxRequests = 3
    Sms = {s1}
    Amounts = {1, 2}
    Stakes = {1}
    Opening = 1
    Multiplier = 1
    FirstBonus = 1
    FirstPoints = 1
    TierPoints = 1
    MaxOverlapping = 2
SYMMETRY Symmetry
INVARIANTS
    MatchesUntilMessage
    AwardedOnce
    MessageCreditsOnce
    SerialReconciles
    SerialStatusTellsMoney
    SerialOneRecentDeposit
CHECK_DEADLOCK FALSE
