\* Transactions one after the other, and two that overlap without a recovery.
SPECIFICATION MCSpec
CONSTANTS
    Tx = {t1, t2}
    Event = {e1, e2}
    Request = {r1}
    Amounts = {1, 3}
    Rates = {1}
    GrantAmounts = {2}
    RecoverAmounts = {3}
    MaxRollback = 1
    MaxGranted = 4
    SmallAmount = 1
    SmallGranted = 2
SYMMETRY Symmetry
INVARIANTS
    TypeOK
    Bounds
    SerialReconciles
PROPERTIES
    ImplementsAccount
