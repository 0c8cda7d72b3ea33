\* The cancellation of a transaction is delivered twice at once.
SPECIFICATION MCSpec
CONSTANTS
    Conn = {c1, c2}
    Tid = {t1, t2}
    Stakes = {1, 2}
    Payouts = {0, 3}
    Commands = {"bet", "cancel"}
    Deposit = 1
    Comp = 2
    Turnover = 1
    MaxOverlapping = 2
SYMMETRY Symmetry
INVARIANTS
    CancelIsNeutral
