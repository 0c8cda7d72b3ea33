\* Three transactions handled one after the other, and two that overlap.
SPECIFICATION MCSpec
CONSTANTS
    Conn = {c1, c2}
    Tid = {t1, t2, t3}
    Stakes = {1, 2}
    Payouts = {0, 3}
    Commands = {"bet", "bet-win", "win", "bonus", "confirm", "cancel", "refund"}
    Deposit = 1
    Comp = 2
    Turnover = 1
    MaxOverlapping = 2
SYMMETRY Symmetry
INVARIANTS
    TypeOK
    WalletSound
    OncePerTid
    CreditUndoneFirst
    SerialReconciles
PROPERTIES
    SerialSpendingOrder
CHECK_DEADLOCK FALSE
