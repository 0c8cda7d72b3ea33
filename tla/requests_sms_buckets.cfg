\* A text message credits a deposit.
SPECIFICATION MCSpec
CONSTANTS
    Conn = {c1}
    MaxRequests = 2
    Sms = {s1}
    Amounts = {1, 2}
    Stakes = {1}
    Opening = 1
    Multiplier = 1
    FirstBonus = 1
    FirstPoints = 1
    TierPoints = 1
    MaxOverlapping = 2
SYMMETRY Symmetry
INVARIANTS
    BalanceMatchesBuckets
