\* Bets on a reservation and without one, changed, refunded, cancelled, paid: three
\* transactions one after the other, two that overlap.
SPECIFICATION MCSpec
CONSTANTS
    Conn = {c1, c2}
    Rid = {r1}
    ReqId = {q1, q2}
    Tid = {t1, t2, t3}
    Names = {"transaction", "request"}
    Reserves = {3}
    Amounts = {1, 2}
    Payouts <- SomePayouts
    Opening = 3
    Turnover = 1
    MaxOverlapping = 2
SYMMETRY Symmetry
INVARIANTS
    ConsumedWithinReserved
    NeverOverdrawn
    OneBetPerRequest
    SerialReconciles
    SerialConsumedIsSum
    SerialBetsCostTheirStake
CHECK_DEADLOCK FALSE
