\* Two members, transactions one after the other and overlapping.
SPECIFICATION MCSpec
CONSTANTS
    Conn = {c1, c2}
    Member = {m1, m2}
    Referring1 = m1
    Referred1 = m2
    Nobody = nobody
    Referrer <- MCReferrer
    Key = {k1, k2}
    Deposits = {e1, e2}
    Withdrawals = {w1}
    MaxDay = 2
    MaxBets = 2
    Opening = 2
    Stake = 1
    Amount = 1
    Daily = 1
    BatchCount = 1
    BatchPoints = 1
    LosePoints = 1
    ReferrerPoints = 1
    FirstPoints = 1
    TierPoints = 1
    GrantPoints = 1
    Exchanged = 1
    Rate = 1
    MaxSerial = 4
    MaxOverlapping = 3
SYMMETRY Symmetry
INVARIANTS
    TypeOK
    NothingTwice
    SerialReconciles
    SerialAttendedOnce
CHECK_DEADLOCK FALSE
