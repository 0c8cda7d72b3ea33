------------------------- MODULE ReserveBalanceProofs -------------------------
(***************************************************************************)
(* Theorems about ReserveBalance, for any number of connections, events,   *)
(* requests and any amounts.                                               *)
(*                                                                         *)
(* The header of reserve-balance.service.ts promises                       *)
(* 0 <= current_amount <= initial_amount.  What is proved here is how much *)
(* of it survives overlapping transactions: the lower bound always does;   *)
(* the upper bound does as long as the head office takes no credit back;   *)
(* and all of it, with the balance equal to what the log adds up to, when  *)
(* transactions run one at a time.                                         *)
(***************************************************************************)
EXTENDS MCReserveBalance, TLAPS

-----------------------------------------------------------------------------
(* Type correctness *)

\* After is an integer whatever the leg.
LEMMA AfterType ==
    ASSUME NEW leg \in Leg, NEW balance \in Int, NEW initial \in Int,
           NEW restoreOn \in BOOLEAN
    PROVE  /\ After(leg, balance, initial, restoreOn) \in Int
           /\ RowOf(leg, balance, initial, restoreOn) \in Row
<1>1. leg.base * leg.rate \in Int
  <2>1. leg.base \in Int /\ leg.rate \in Int
    BY ReserveAssumption DEF ReserveAssumption, Leg
  <2>2. QED
    BY <2>1
<1>2. After(leg, balance, initial, restoreOn) \in Int
  BY <1>1 DEF After, Deducted, Restored, Adjusted, Leg, MutationType
<1>3. QED
  BY <1>2 DEF RowOf, Row, Leg

\* Opening a mutation keeps the types.
LEMMA SnapshotType ==
    ASSUME TypeOK, NEW t \in Tx, NEW leg \in Leg, NEW rest \in SUBSET Leg,
           Snapshot(t, leg, rest)
    PROVE  TypeOK'
<1>1. RowOf(leg, creditBalance, reserveInitialAmount, reserveRestoreEnabled) \in Row
  BY AfterType DEF TypeOK
<1>2. [op |-> "mutate", done |-> {}, rest |-> rest,
       row |-> RowOf(leg, creditBalance, reserveInitialAmount, reserveRestoreEnabled)] \in Mutating
  BY <1>1 DEF Mutating
<1>3. tx' \in [Tx -> {Idle} \cup Mutating \cup Recovering \cup Resolving]
  BY <1>2 DEF Snapshot, TypeOK
<1>4. QED
  BY <1>3 DEF Snapshot, TypeOK, platformRow, switches, requests

\* A transaction in the "mutate" state is a member of Mutating, and so on.
LEMMA TxCases ==
    ASSUME TypeOK, NEW t \in Tx
    PROVE  /\ tx[t].op = "mutate" => tx[t] \in Mutating
           /\ tx[t].op = "recover" => tx[t] \in Recovering
           /\ tx[t].op = "resolve" => tx[t] \in Resolving
           /\ tx[t].op = "idle" => tx[t] = Idle
<1>1. tx[t] \in {Idle} \cup Mutating \cup Recovering \cup Resolving
  BY DEF TypeOK
<1>2. QED
  BY <1>1 DEF Idle, Mutating, Recovering, Resolving

\* The four ways a mutation is opened.
Opens(t) == ApplyLedgerEvent(t) \/ ApplyBetAndWin(t) \/ PostEvent(t) \/ RollbackByEventKey(t)

\* What the callers guarantee about the legs they pass: only an ADJUST is
\* negative, and a second leg is one RESTORE under a key of its own.
WellFormed(leg, rest) ==
    /\ leg.type # "ADJUST" => leg.base >= 0
    /\ \A l \in rest : l.type = "RESTORE" /\ l.base >= 0 /\ l.key # leg.key
    /\ \A l1, l2 \in rest : l1 = l2

\* Every way of opening a mutation is a Snapshot of well-formed legs.
LEMMA Opening ==
    ASSUME TypeOK, NEW t \in Tx, Opens(t)
    PROVE  \E leg \in Leg, rest \in SUBSET Leg : Snapshot(t, leg, rest) /\ WellFormed(leg, rest)
<1>1. CASE ApplyLedgerEvent(t)
  <2>1. PICK e \in Event, kind \in {"BET", "WIN"}, base \in Amounts, rate \in Rates :
           Snapshot(t, [key |-> <<e, 0>>, type |-> LedgerType(kind),
                        base |-> base, rate |-> rate], {})
    BY <1>1 DEF ApplyLedgerEvent
  <2> DEFINE leg == [key |-> <<e, 0>>, type |-> LedgerType(kind), base |-> base, rate |-> rate]
  <2>2. leg \in Leg /\ leg.base >= 0
    BY ReserveAssumption DEF ReserveAssumption, Leg, Key, LedgerType, MutationType
  <2>3. WellFormed(leg, {})
    BY <2>2 DEF WellFormed
  <2>4. QED
    BY <2>1, <2>2, <2>3
<1>2. CASE ApplyBetAndWin(t)
  <2>1. PICK bet \in Event, win \in Event, stake \in Amounts, payout \in Amounts, rate \in Rates :
           /\ bet # win
           /\ Snapshot(t,
                [key |-> <<bet, 0>>, type |-> "DEDUCT", base |-> stake, rate |-> rate],
                {[key |-> <<win, 0>>, type |-> "RESTORE", base |-> payout, rate |-> rate]})
    BY <1>2 DEF ApplyBetAndWin
  <2> DEFINE leg == [key |-> <<bet, 0>>, type |-> "DEDUCT", base |-> stake, rate |-> rate]
             second == [key |-> <<win, 0>>, type |-> "RESTORE", base |-> payout, rate |-> rate]
  <2>2. leg \in Leg /\ second \in Leg /\ leg.base >= 0 /\ second.base >= 0
    BY ReserveAssumption DEF ReserveAssumption, Leg, Key, MutationType
  <2>3. WellFormed(leg, {second})
    BY <2>1, <2>2 DEF WellFormed
  <2>4. QED
    BY <2>1, <2>2, <2>3
<1>3. CASE PostEvent(t)
  <2>1. PICK e \in Event, type \in MutationType, base \in Amounts, rate \in Rates, sign \in {1, -1} :
           /\ sign = 1 \/ type = "ADJUST"
           /\ Snapshot(t, [key |-> <<e, 0>>, type |-> type,
                           base |-> sign * base, rate |-> rate], {})
    BY <1>3 DEF PostEvent
  <2> DEFINE leg == [key |-> <<e, 0>>, type |-> type, base |-> sign * base, rate |-> rate]
  <2>2. sign * base \in Int /\ (sign = 1 => sign * base >= 0)
    BY ReserveAssumption DEF ReserveAssumption
  <2>3. leg \in Leg
    BY <2>2, ReserveAssumption DEF ReserveAssumption, Leg, Key, MutationType
  <2>4. WellFormed(leg, {})
    BY <2>1, <2>2 DEF WellFormed
  <2>5. QED
    BY <2>1, <2>3, <2>4
<1>4. CASE RollbackByEventKey(t)
  <2>1. PICK row \in log :
           /\ row.key[2] < MaxRollback
           /\ row.base >= 0
           /\ Snapshot(t, [key |-> <<row.key[1], row.key[2] + 1>>,
                           type |-> IF row.type = "DEDUCT" THEN "RESTORE" ELSE "DEDUCT",
                           base |-> row.base, rate |-> row.rate], {})
    BY <1>4 DEF RollbackByEventKey
  <2> DEFINE leg == [key |-> <<row.key[1], row.key[2] + 1>>,
                     type |-> IF row.type = "DEDUCT" THEN "RESTORE" ELSE "DEDUCT",
                     base |-> row.base, rate |-> row.rate]
  <2>2. row \in Row
    BY DEF TypeOK
  <2>3. <<row.key[1], row.key[2] + 1>> \in Key
    BY <2>1, <2>2, ReserveAssumption DEF Row, Key, ReserveAssumption
  <2>4. leg \in Leg
    BY <2>2, <2>3 DEF Leg, Row, MutationType
  <2>5. WellFormed(leg, {})
    BY <2>1 DEF WellFormed
  <2>6. QED
    BY <2>1, <2>4, <2>5
<1>5. QED
  BY <1>1, <1>2, <1>3, <1>4 DEF Opens

\* The initial state is well typed.
LEMMA InitTypeOK == Init => TypeOK
<1> SUFFICES ASSUME Init PROVE TypeOK
  OBVIOUS
<1>1. request \in [Request -> RequestStatus]
  BY DEF Init, RequestStatus
<1>2. tx \in [Tx -> {Idle} \cup Mutating \cup Recovering \cup Resolving]
  BY DEF Init
<1>3. reserveEnabled \in BOOLEAN /\ reserveRestoreEnabled \in BOOLEAN
  BY Zenon DEF Init
<1>4. /\ creditBalance \in Int /\ reserveInitialAmount \in Int
      /\ log \subseteq Row /\ logNet \in Int /\ granted \in Nat
  BY DEF Init
<1>5. QED
  BY <1>1, <1>2, <1>3, <1>4 DEF TypeOK

\* Every step keeps the types.
LEMMA NextTypeOK == TypeOK /\ [Next]_vars => TypeOK'
<1> SUFFICES ASSUME TypeOK, [Next]_vars PROVE TypeOK'
  OBVIOUS
<1>1. ASSUME NEW t \in Tx, Opens(t) PROVE TypeOK'
  BY <1>1, Opening, SnapshotType
<1>2. ASSUME NEW t \in Tx, SnapshotRest(t) PROVE TypeOK'
  <2>1. tx[t] \in Mutating
    BY <1>2, TxCases DEF SnapshotRest
  <2>2. PICK leg \in tx[t].rest :
           tx' = [tx EXCEPT ![t] =
                    [op |-> "mutate", done |-> tx[t].done \cup {tx[t].row}, rest |-> {},
                     row |-> RowOf(leg, creditBalance, reserveInitialAmount,
                                   reserveRestoreEnabled)]]
    BY <1>2 DEF SnapshotRest
  <2>3. RowOf(leg, creditBalance, reserveInitialAmount, reserveRestoreEnabled) \in Row
    BY <2>1, AfterType DEF TypeOK, Mutating
  <2>4. [op |-> "mutate", done |-> tx[t].done \cup {tx[t].row}, rest |-> {},
         row |-> RowOf(leg, creditBalance, reserveInitialAmount,
                       reserveRestoreEnabled)] \in Mutating
    BY <2>1, <2>3 DEF Mutating
  <2>5. tx' \in [Tx -> {Idle} \cup Mutating \cup Recovering \cup Resolving]
    BY <2>2, <2>4 DEF TypeOK
  <2>6. QED
    BY <1>2, <2>5 DEF SnapshotRest, TypeOK, platformRow, switches, requests
<1>3. ASSUME NEW t \in Tx, CommitMutation(t) PROVE TypeOK'
  <2>1. tx[t] \in Mutating
    BY <1>3, TxCases DEF CommitMutation
  <2>2. /\ tx[t].row \in Row
        /\ tx[t].done \subseteq Row
        /\ tx[t].row.after \in Int
        /\ tx[t].row.before \in Int
    BY <2>1 DEF Mutating, Row
  <2>3. QED
    BY <1>3, <2>2 DEF CommitMutation, Written, TypeOK, switches, requests
<1>4. ASSUME NEW t \in Tx, CommitBetAndWin(t) PROVE TypeOK'
  <2>1. tx[t] \in Mutating
    BY <1>4, TxCases DEF CommitBetAndWin
  <2>2. PICK leg \in tx[t].rest :
           LET win == RowOf(leg, tx[t].row.after, reserveInitialAmount, reserveRestoreEnabled)
           IN  /\ creditBalance' = win.after
               /\ log' = log \cup {tx[t].row, win}
               /\ logNet' = logNet + (win.after - tx[t].row.before)
    BY <1>4 DEF CommitBetAndWin
  <2>3. /\ tx[t].row \in Row
        /\ tx[t].row.after \in Int
        /\ tx[t].row.before \in Int
        /\ leg \in Leg
    BY <2>1, <2>2 DEF Mutating, Row
  <2>4. RowOf(leg, tx[t].row.after, reserveInitialAmount, reserveRestoreEnabled) \in Row
    BY <2>3, AfterType DEF TypeOK
  <2>5. RowOf(leg, tx[t].row.after, reserveInitialAmount, reserveRestoreEnabled).after \in Int
    BY <2>4 DEF Row
  <2>6. QED
    BY <1>4, <2>2, <2>3, <2>4, <2>5 DEF CommitBetAndWin, TypeOK, switches, requests
<1>5. ASSUME NEW t \in Tx, ReadRecover(t) PROVE TypeOK'
  BY <1>5, ReserveAssumption
  DEF ReadRecover, TypeOK, Recovering, ReserveAssumption, platformRow, switches, requests
<1>6. ASSUME NEW t \in Tx, CommitRecover(t) PROVE TypeOK'
  <2>1. tx[t] \in Recovering
    BY <1>6, TxCases DEF CommitRecover
  <2>2. QED
    BY <1>6, <2>1 DEF CommitRecover, TypeOK, Recovering, switches, requests
<1>7. ASSUME NEW t \in Tx, ReadCreditRequest(t) PROVE TypeOK'
  BY <1>7, ReserveAssumption
  DEF ReadCreditRequest, TypeOK, Resolving, ReserveAssumption, platformRow, switches, requests
<1>8. ASSUME NEW t \in Tx, CommitCreditRequest(t) PROVE TypeOK'
  <2>1. tx[t] \in Resolving
    BY <1>8, TxCases DEF CommitCreditRequest
  <2>2. (IF Grants(tx[t]) THEN tx[t].amount ELSE 0) \in Nat
    BY <2>1 DEF Resolving
  <2>3. QED
    BY <1>8, <2>1, <2>2
    DEF CommitCreditRequest, TypeOK, Resolving, RequestStatus, switches
<1>9. ASSUME NEW t \in Tx, Abort(t) PROVE TypeOK'
  BY <1>9 DEF Abort, TypeOK, platformRow, switches, requests
<1>10. ASSUME NEW r \in Request, CreateCreditRequest(r) PROVE TypeOK'
  BY <1>10 DEF CreateCreditRequest, TypeOK, RequestStatus, platformRow, switches
<1>11. ASSUME NEW enabled \in BOOLEAN, SetEnabled(enabled) \/ SetRestoreEnabled(enabled)
       PROVE TypeOK'
  BY <1>11 DEF SetEnabled, SetRestoreEnabled, TypeOK, platformRow, requests
<1>12. CASE UNCHANGED vars
  BY <1>12 DEF vars, TypeOK
<1>13. QED
  BY <1>1, <1>2, <1>3, <1>4, <1>5, <1>6, <1>7, <1>8, <1>9, <1>10, <1>11, <1>12
  DEF Next, Mutate, Opens

\* The state keeps its type (TypeOK).
THEOREM TypeCorrect == Spec => []TypeOK
BY InitTypeOK, NextTypeOK, PTL DEF Spec

-----------------------------------------------------------------------------
(* The lower bound, whatever overlaps *)

\* Callers pass a rate between 0 and 1; a negative rate turns a RESTORE into
\* a deduction without a floor.
NonNegativeRates == Rates \subseteq Nat

\* What an open transaction will write is not negative either.
SafeTx(x) ==
    /\ x.op = "mutate" => /\ x.row.after >= 0
                          /\ \A leg \in x.rest : leg.type = "RESTORE" /\ leg.base >= 0
    /\ x.op = "recover" => x.balance >= 0 /\ x.initial >= 0

NonNegativeInv ==
    /\ TypeOK
    /\ creditBalance >= 0
    /\ reserveInitialAmount >= 0
    /\ \A t \in Tx : SafeTx(tx[t])

\* One mutation of a balance that is not negative leaves it so, and of one
\* within the limit leaves it within the limit.
LEMMA AfterBounds ==
    ASSUME NonNegativeRates,
           NEW leg \in Leg, leg.type # "ADJUST" => leg.base >= 0,
           NEW balance \in Int, balance >= 0,
           NEW initial \in Int, initial >= 0,
           NEW restoreOn \in BOOLEAN
    PROVE  LET after == RowOf(leg, balance, initial, restoreOn).after
           IN  /\ after \in Int
               /\ after >= 0
               /\ balance <= initial => after <= initial
<1>1. leg.base \in Int /\ leg.rate \in Nat /\ leg.type \in MutationType
  BY DEF Leg, NonNegativeRates
<1>2. leg.base * leg.rate \in Int
  BY <1>1
<1>3. leg.base >= 0 => leg.base * leg.rate >= 0
  BY <1>1
<1>4. RowOf(leg, balance, initial, restoreOn).after = After(leg, balance, initial, restoreOn)
  BY DEF RowOf
<1>5. CASE leg.type = "DEDUCT"
  <2>1. After(leg, balance, initial, restoreOn) = Deducted(balance, leg.base * leg.rate)
    BY <1>5 DEF After
  <2>2. QED
    BY <1>2, <1>3, <1>4, <1>5, <2>1 DEF Deducted
<1>6. CASE leg.type = "RESTORE"
  <2>1. After(leg, balance, initial, restoreOn)
           = Restored(balance, leg.base * leg.rate, initial, restoreOn)
    BY <1>6 DEF After
  <2>2. QED
    BY <1>2, <1>3, <1>4, <1>6, <2>1 DEF Restored
<1>7. CASE leg.type = "ADJUST"
  <2>1. After(leg, balance, initial, restoreOn) = Adjusted(balance, leg.base, initial)
    BY <1>7 DEF After
  <2>2. QED
    BY <1>1, <1>4, <1>7, <2>1 DEF Adjusted
<1>8. QED
  BY <1>1, <1>5, <1>6, <1>7 DEF MutationType

\* The part of a step that every invariant over tx needs: only slot t changes.
LEMMA OneSlot ==
    ASSUME TypeOK, NEW t \in Tx, NEW v, tx' = [tx EXCEPT ![t] = v]
    PROVE  /\ tx'[t] = v
           /\ \A s \in Tx \ {t} : tx'[s] = tx[s]
BY DEF TypeOK

\* No step makes a committed or pending value negative.
LEMMA NonNegativeStep ==
    ASSUME NonNegativeRates, NonNegativeInv, [Next]_vars
    PROVE  /\ creditBalance' >= 0
           /\ reserveInitialAmount' >= 0
           /\ \A s \in Tx : SafeTx(tx'[s])
<1> DEFINE Goal == /\ creditBalance' >= 0
                   /\ reserveInitialAmount' >= 0
                   /\ \A s \in Tx : SafeTx(tx'[s])
<1>0. TypeOK /\ creditBalance \in Int /\ reserveInitialAmount \in Int
      /\ reserveRestoreEnabled \in BOOLEAN /\ SafeTx(Idle)
  BY DEF NonNegativeInv, TypeOK, SafeTx, Idle
<1>1. ASSUME NEW t \in Tx, Opens(t) PROVE Goal
  <2>1. PICK leg \in Leg, rest \in SUBSET Leg : Snapshot(t, leg, rest) /\ WellFormed(leg, rest)
    BY <1>0, <1>1, Opening
  <2> DEFINE row == RowOf(leg, creditBalance, reserveInitialAmount, reserveRestoreEnabled)
             v == [op |-> "mutate", done |-> {}, rest |-> rest, row |-> row]
  <2>2. row.after >= 0
    BY <1>0, <2>1, AfterBounds DEF NonNegativeInv, WellFormed
  <2>3. SafeTx(v)
    BY <2>1, <2>2 DEF SafeTx, WellFormed
  <2>4. tx' = [tx EXCEPT ![t] = v] /\ UNCHANGED platformRow
    BY <2>1 DEF Snapshot
  <2>5. QED
    BY <1>0, <2>3, <2>4, OneSlot DEF NonNegativeInv, platformRow
<1>2. ASSUME NEW t \in Tx, SnapshotRest(t) PROVE Goal
  <2>1. tx[t] \in Mutating
    BY <1>0, <1>2, TxCases DEF SnapshotRest
  <2>2. PICK leg \in tx[t].rest :
           tx' = [tx EXCEPT ![t] =
                    [op |-> "mutate", done |-> tx[t].done \cup {tx[t].row}, rest |-> {},
                     row |-> RowOf(leg, creditBalance, reserveInitialAmount,
                                   reserveRestoreEnabled)]]
    BY <1>2 DEF SnapshotRest
  <2> DEFINE row == RowOf(leg, creditBalance, reserveInitialAmount, reserveRestoreEnabled)
             v == [op |-> "mutate", done |-> tx[t].done \cup {tx[t].row}, rest |-> {}, row |-> row]
  <2>3. leg \in Leg /\ leg.base >= 0
    BY <1>2, <2>1, <2>2 DEF Mutating, NonNegativeInv, SafeTx
  <2>4. row.after >= 0
    BY <1>0, <2>3, AfterBounds DEF NonNegativeInv
  <2>5. SafeTx(v)
    BY <2>4 DEF SafeTx
  <2>6. QED
    BY <1>0, <1>2, <2>2, <2>5, OneSlot DEF NonNegativeInv, SnapshotRest, platformRow
<1>3. ASSUME NEW t \in Tx, CommitMutation(t) PROVE Goal
  BY <1>0, <1>3, OneSlot DEF CommitMutation, Written, NonNegativeInv, SafeTx
<1>4. ASSUME NEW t \in Tx, CommitBetAndWin(t) PROVE Goal
  <2>1. tx[t] \in Mutating
    BY <1>0, <1>4, TxCases DEF CommitBetAndWin
  <2>2. PICK leg \in tx[t].rest :
           creditBalance' = RowOf(leg, tx[t].row.after, reserveInitialAmount,
                                  reserveRestoreEnabled).after
    BY <1>4 DEF CommitBetAndWin
  <2>3. /\ leg \in Leg /\ leg.base >= 0
        /\ tx[t].row.after \in Int /\ tx[t].row.after >= 0
    BY <1>4, <2>1, <2>2 DEF Mutating, Row, NonNegativeInv, SafeTx, CommitBetAndWin
  <2>4. creditBalance' >= 0
    BY <1>0, <2>2, <2>3, AfterBounds DEF NonNegativeInv
  <2>5. QED
    BY <1>0, <1>4, <2>4, OneSlot DEF CommitBetAndWin, NonNegativeInv
<1>5. ASSUME NEW t \in Tx, ReadRecover(t) PROVE Goal
  <2>1. PICK amount \in RecoverAmounts :
           LET take == IF amount > creditBalance THEN creditBalance ELSE amount
               balance == creditBalance - take
               initial == reserveInitialAmount - take
           IN  tx' = [tx EXCEPT ![t] =
                        [op |-> "recover", before |-> creditBalance, balance |-> balance,
                         initial |-> IF initial < balance THEN balance ELSE initial]]
    BY <1>5 DEF ReadRecover
  <2> DEFINE take == IF amount > creditBalance THEN creditBalance ELSE amount
             balance == creditBalance - take
             initial == reserveInitialAmount - take
             v == [op |-> "recover", before |-> creditBalance, balance |-> balance,
                   initial |-> IF initial < balance THEN balance ELSE initial]
  <2>2. amount \in Nat
    BY ReserveAssumption DEF ReserveAssumption
  <2>3. balance >= 0 /\ (IF initial < balance THEN balance ELSE initial) >= 0
    BY <1>0, <2>2 DEF NonNegativeInv
  <2>4. SafeTx(v)
    BY <2>3 DEF SafeTx
  <2>5. QED
    BY <1>0, <1>5, <2>1, <2>4, OneSlot DEF NonNegativeInv, ReadRecover, platformRow
<1>6. ASSUME NEW t \in Tx, CommitRecover(t) PROVE Goal
  BY <1>0, <1>6, OneSlot DEF CommitRecover, NonNegativeInv, SafeTx
<1>7. ASSUME NEW t \in Tx, ReadCreditRequest(t) PROVE Goal
  <2>1. PICK r \in Request, status \in {"APPROVED", "REJECTED"}, amount \in GrantAmounts \cup {0} :
           tx' = [tx EXCEPT ![t] = [op |-> "resolve", request |-> r, seen |-> request[r],
                                    status |-> status, amount |-> amount]]
    BY <1>7 DEF ReadCreditRequest
  <2>2. SafeTx([op |-> "resolve", request |-> r, seen |-> request[r],
                status |-> status, amount |-> amount])
    BY DEF SafeTx
  <2>3. QED
    BY <1>0, <1>7, <2>1, <2>2, OneSlot DEF ReadCreditRequest, NonNegativeInv, platformRow
<1>8. ASSUME NEW t \in Tx, CommitCreditRequest(t) PROVE Goal
  <2>1. tx[t] \in Resolving
    BY <1>0, <1>8, TxCases DEF CommitCreditRequest
  <2>2. (IF Grants(tx[t]) THEN tx[t].amount ELSE 0) \in Nat
    BY <2>1 DEF Resolving
  <2>3. creditBalance' >= 0 /\ reserveInitialAmount' >= 0
    BY <1>0, <1>8, <2>2 DEF CommitCreditRequest, NonNegativeInv
  <2>4. QED
    BY <1>0, <1>8, <2>3, OneSlot DEF CommitCreditRequest, NonNegativeInv
<1>9. ASSUME NEW t \in Tx, Abort(t) PROVE Goal
  BY <1>0, <1>9, OneSlot DEF Abort, NonNegativeInv, platformRow
<1>10. ASSUME UNCHANGED <<platformRow, tx>> PROVE Goal
  BY <1>10 DEF NonNegativeInv, platformRow
<1>11. QED
  BY <1>1, <1>2, <1>3, <1>4, <1>5, <1>6, <1>7, <1>8, <1>9, <1>10
  DEF Next, Mutate, Opens, CreateCreditRequest, SetEnabled, SetRestoreEnabled, vars, platformRow

\* creditBalance never falls below zero, however many transactions overlap.
THEOREM NeverNegative ==
    ASSUME NonNegativeRates
    PROVE  Spec => []NonNegative
<1>1. Init => NonNegativeInv
  <2>1. Init => TypeOK
    BY InitTypeOK
  <2>2. QED
    BY <2>1 DEF Init, NonNegativeInv, SafeTx, Idle
<1>2. NonNegativeInv /\ [Next]_vars => NonNegativeInv'
  <2>1. NonNegativeInv => TypeOK
    BY DEF NonNegativeInv
  <2>2. QED
    BY <2>1, NonNegativeStep, NextTypeOK DEF NonNegativeInv
<1>3. NonNegativeInv => NonNegative
  BY DEF NonNegativeInv, NonNegative
<1>4. QED
  BY <1>1, <1>2, <1>3, PTL DEF Spec

-----------------------------------------------------------------------------
(* The upper bound, as long as no recovery overlaps *)

\* What an open transaction will write stays within the limit.  The limit only
\* grows when nothing is taken back, so a limit read earlier is no larger.
WithinTx(x, initial) ==
    /\ x.op # "recover"
    /\ x.op = "mutate" => x.row.after <= initial

WithinInv ==
    /\ NonNegativeInv
    /\ creditBalance <= reserveInitialAmount
    /\ \A t \in Tx : WithinTx(tx[t], reserveInitialAmount)

\* The steps of a system in which the head office takes no credit back.
NextWithoutRecovery ==
    \/ \E t \in Tx : Mutate(t) \/ ReadCreditRequest(t) \/ CommitCreditRequest(t) \/ Abort(t)
    \/ \E r \in Request : CreateCreditRequest(r)
    \/ \E enabled \in BOOLEAN : SetEnabled(enabled) \/ SetRestoreEnabled(enabled)

\* No such step lifts a committed or pending balance above the limit.
LEMMA WithinStep ==
    ASSUME NonNegativeRates, WithinInv, [NextWithoutRecovery]_vars
    PROVE  /\ creditBalance' <= reserveInitialAmount'
           /\ \A s \in Tx : WithinTx(tx'[s], reserveInitialAmount')
<1> DEFINE Goal == /\ creditBalance' <= reserveInitialAmount'
                   /\ \A s \in Tx : WithinTx(tx'[s], reserveInitialAmount')
<1>0. /\ TypeOK /\ NonNegativeInv
      /\ creditBalance \in Int /\ creditBalance >= 0
      /\ reserveInitialAmount \in Int /\ reserveInitialAmount >= 0
      /\ reserveRestoreEnabled \in BOOLEAN
      /\ WithinTx(Idle, reserveInitialAmount)
  BY DEF WithinInv, NonNegativeInv, TypeOK, WithinTx, Idle
<1>1. ASSUME NEW t \in Tx, Opens(t) PROVE Goal
  <2>1. PICK leg \in Leg, rest \in SUBSET Leg : Snapshot(t, leg, rest) /\ WellFormed(leg, rest)
    BY <1>0, <1>1, Opening
  <2> DEFINE row == RowOf(leg, creditBalance, reserveInitialAmount, reserveRestoreEnabled)
             v == [op |-> "mutate", done |-> {}, rest |-> rest, row |-> row]
  <2>2. row.after <= reserveInitialAmount
    BY <1>0, <2>1, AfterBounds DEF WithinInv, WellFormed
  <2>3. WithinTx(v, reserveInitialAmount)
    BY <2>2 DEF WithinTx
  <2>4. tx' = [tx EXCEPT ![t] = v] /\ UNCHANGED platformRow
    BY <2>1 DEF Snapshot
  <2> HIDE DEF row, v
  <2>5. QED
    BY <1>0, <2>3, <2>4, OneSlot DEF WithinInv, platformRow
<1>2. ASSUME NEW t \in Tx, SnapshotRest(t) PROVE Goal
  <2>1. tx[t] \in Mutating
    BY <1>0, <1>2, TxCases DEF SnapshotRest
  <2>2. PICK leg \in tx[t].rest :
           tx' = [tx EXCEPT ![t] =
                    [op |-> "mutate", done |-> tx[t].done \cup {tx[t].row}, rest |-> {},
                     row |-> RowOf(leg, creditBalance, reserveInitialAmount,
                                   reserveRestoreEnabled)]]
    BY <1>2 DEF SnapshotRest
  <2> DEFINE row == RowOf(leg, creditBalance, reserveInitialAmount, reserveRestoreEnabled)
             v == [op |-> "mutate", done |-> tx[t].done \cup {tx[t].row}, rest |-> {}, row |-> row]
  <2>3. leg \in Leg /\ leg.base >= 0
    BY <1>0, <1>2, <2>1, <2>2 DEF Mutating, NonNegativeInv, SafeTx, SnapshotRest
  <2>4. row.after <= reserveInitialAmount
    BY <1>0, <2>3, AfterBounds DEF WithinInv
  <2>5. WithinTx(v, reserveInitialAmount)
    BY <2>4 DEF WithinTx
  <2>6. tx' = [tx EXCEPT ![t] = v] /\ UNCHANGED platformRow
    BY <1>2, <2>2 DEF SnapshotRest
  <2> HIDE DEF row, v
  <2>7. QED
    BY <1>0, <2>5, <2>6, OneSlot DEF WithinInv, platformRow
<1>3. ASSUME NEW t \in Tx, CommitMutation(t) PROVE Goal
  BY <1>0, <1>3, OneSlot DEF CommitMutation, Written, WithinInv, WithinTx
<1>4. ASSUME NEW t \in Tx, CommitBetAndWin(t) PROVE Goal
  <2>1. tx[t] \in Mutating
    BY <1>0, <1>4, TxCases DEF CommitBetAndWin
  <2>2. PICK leg \in tx[t].rest :
           creditBalance' = RowOf(leg, tx[t].row.after, reserveInitialAmount,
                                  reserveRestoreEnabled).after
    BY <1>4 DEF CommitBetAndWin
  <2>3. /\ leg \in Leg /\ leg.base >= 0
        /\ tx[t].row.after \in Int /\ tx[t].row.after >= 0
        /\ tx[t].row.after <= reserveInitialAmount
    BY <1>0, <1>4, <2>1, <2>2
    DEF Mutating, Row, NonNegativeInv, SafeTx, WithinInv, WithinTx, CommitBetAndWin
  <2>4. creditBalance' <= reserveInitialAmount
    BY <1>0, <2>2, <2>3, AfterBounds
  <2>5. QED
    BY <1>0, <1>4, <2>4, OneSlot DEF CommitBetAndWin, WithinInv
<1>5. ASSUME NEW t \in Tx, ReadCreditRequest(t) PROVE Goal
  <2>1. PICK r \in Request, status \in {"APPROVED", "REJECTED"}, amount \in GrantAmounts \cup {0} :
           tx' = [tx EXCEPT ![t] = [op |-> "resolve", request |-> r, seen |-> request[r],
                                    status |-> status, amount |-> amount]]
    BY <1>5 DEF ReadCreditRequest
  <2>2. WithinTx([op |-> "resolve", request |-> r, seen |-> request[r],
                  status |-> status, amount |-> amount], reserveInitialAmount)
    BY DEF WithinTx
  <2>3. QED
    BY <1>0, <1>5, <2>1, <2>2, OneSlot DEF ReadCreditRequest, WithinInv, platformRow
<1>6. ASSUME NEW t \in Tx, CommitCreditRequest(t) PROVE Goal
  <2>1. tx[t] \in Resolving
    BY <1>0, <1>6, TxCases DEF CommitCreditRequest
  <2> DEFINE delta == IF Grants(tx[t]) THEN tx[t].amount ELSE 0
  <2>2. delta \in Nat
    BY <2>1 DEF Resolving
  <2>3. /\ creditBalance' = creditBalance + delta
        /\ reserveInitialAmount' = reserveInitialAmount + delta
        /\ tx' = [tx EXCEPT ![t] = Idle]
    BY <1>6 DEF CommitCreditRequest
  <2>4. ASSUME NEW s \in Tx PROVE WithinTx(tx'[s], reserveInitialAmount')
    <3>1. CASE s = t
      <4>1. tx'[s] = Idle
        BY <1>0, <2>3, <3>1, OneSlot
      <4>2. QED
        BY <4>1 DEF WithinTx, Idle
    <3>2. CASE s # t
      <4>1. tx'[s] = tx[s] /\ WithinTx(tx[s], reserveInitialAmount)
        BY <1>0, <2>3, <3>2, OneSlot DEF WithinInv
      <4>2. tx[s].op = "mutate" => tx[s].row.after \in Int
        BY <1>0, TxCases DEF Mutating, Row
      <4>3. tx[s].op = "mutate" => tx[s].row.after <= reserveInitialAmount + delta
        BY <1>0, <2>2, <4>1, <4>2 DEF WithinTx
      <4>4. QED
        BY <2>3, <4>1, <4>3 DEF WithinTx
    <3>3. QED
      BY <3>1, <3>2
  <2>5. QED
    BY <1>0, <2>2, <2>3, <2>4 DEF WithinInv
<1>7. ASSUME NEW t \in Tx, Abort(t) PROVE Goal
  BY <1>0, <1>7, OneSlot DEF Abort, WithinInv, platformRow
<1>8. ASSUME UNCHANGED <<platformRow, tx>> PROVE Goal
  BY <1>8 DEF WithinInv, platformRow
<1>9. QED
  BY <1>1, <1>2, <1>3, <1>4, <1>5, <1>6, <1>7, <1>8
  DEF NextWithoutRecovery, Mutate, Opens, CreateCreditRequest, SetEnabled, SetRestoreEnabled, vars, platformRow

\* Initially nothing is logged or open, and both amounts are zero.
LEMMA WithinInit == Init => WithinInv
<1> SUFFICES ASSUME Init PROVE WithinInv
  OBVIOUS
<1>1. NonNegativeInv
  BY InitTypeOK DEF Init, NonNegativeInv, SafeTx, Idle
<1>2. QED
  BY <1>1 DEF Init, WithinInv, WithinTx, Idle

\* The bounds and what is pending are inductive under such steps.
LEMMA WithinNext ==
    ASSUME NonNegativeRates, WithinInv, [NextWithoutRecovery]_vars
    PROVE  WithinInv'
<1>1. [Next]_vars
  BY DEF Next, NextWithoutRecovery
<1>2. NonNegativeInv /\ TypeOK
  BY DEF WithinInv, NonNegativeInv
<1>3. NonNegativeInv'
  BY <1>1, <1>2, NonNegativeStep, NextTypeOK DEF NonNegativeInv
<1>4. QED
  BY <1>3, WithinStep DEF WithinInv

\* Where there is nothing to take back the bounds and what is pending are inductive.
LEMMA WithinInductive ==
    ASSUME NonNegativeRates, RecoverAmounts = {}
    PROVE  WithinInv /\ [Next]_vars => WithinInv'
<1>1. WithinInv /\ [Next]_vars => [NextWithoutRecovery]_vars
  BY DEF Next, NextWithoutRecovery, ReadRecover, CommitRecover, WithinInv, WithinTx
<1>2. QED
  BY <1>1, WithinNext

\* While the head office takes no credit back, the balance never exceeds the
\* initial amount, however many transactions overlap.  (With recoveries it
\* can: a recovery writes back both columns as it read them.)
THEOREM BoundsWithoutRecovery ==
    ASSUME NonNegativeRates, RecoverAmounts = {}
    PROVE  Spec => []Bounds
<1>1. WithinInv => Bounds
  BY DEF WithinInv, NonNegativeInv, Bounds, NonNegative, WithinInitial
<1>2. QED
  BY <1>1, WithinInit, WithinInductive, PTL DEF Spec

-----------------------------------------------------------------------------
(* Each event is logged at most once, whatever overlaps *)

\* The rows a transaction is about to insert have keys of their own, and the
\* leg that may follow has another one.
KeysTx(x) ==
    x.op = "mutate" =>
        /\ \A r1, r2 \in x.done \cup {x.row} : r1.key = r2.key => r1 = r2
        /\ \A leg \in x.rest : \A r \in x.done \cup {x.row} : leg.key # r.key

KeysInv ==
    /\ TypeOK
    /\ UniqueKeys
    /\ \A t \in Tx : KeysTx(tx[t])

\* The key of a row is the key of its leg.
LEMMA RowKey ==
    ASSUME NEW leg, NEW balance, NEW initial, NEW restoreOn
    PROVE  RowOf(leg, balance, initial, restoreOn).key = leg.key
BY DEF RowOf

\* No step logs a key twice.
LEMMA KeysStep ==
    ASSUME KeysInv, [Next]_vars
    PROVE  UniqueKeys' /\ \A s \in Tx : KeysTx(tx'[s])
<1> DEFINE Goal == UniqueKeys' /\ \A s \in Tx : KeysTx(tx'[s])
<1>0. TypeOK /\ UniqueKeys /\ KeysTx(Idle)
  BY DEF KeysInv, KeysTx, Idle
<1>1. ASSUME NEW t \in Tx, Opens(t) PROVE Goal
  <2>1. PICK leg \in Leg, rest \in SUBSET Leg : Snapshot(t, leg, rest) /\ WellFormed(leg, rest)
    BY <1>0, <1>1, Opening
  <2> DEFINE row == RowOf(leg, creditBalance, reserveInitialAmount, reserveRestoreEnabled)
             v == [op |-> "mutate", done |-> {}, rest |-> rest, row |-> row]
  <2>2. row.key = leg.key
    BY RowKey
  <2>3. KeysTx(v)
    BY <2>1, <2>2 DEF KeysTx, WellFormed
  <2>4. tx' = [tx EXCEPT ![t] = v] /\ log' = log
    BY <2>1 DEF Snapshot
  <2>5. QED
    BY <1>0, <2>3, <2>4, OneSlot DEF KeysInv, UniqueKeys
<1>2. ASSUME NEW t \in Tx, SnapshotRest(t) PROVE Goal
  <2>1. PICK leg \in tx[t].rest :
           tx' = [tx EXCEPT ![t] =
                    [op |-> "mutate", done |-> tx[t].done \cup {tx[t].row}, rest |-> {},
                     row |-> RowOf(leg, creditBalance, reserveInitialAmount,
                                   reserveRestoreEnabled)]]
    BY <1>2 DEF SnapshotRest
  <2> DEFINE row == RowOf(leg, creditBalance, reserveInitialAmount, reserveRestoreEnabled)
             v == [op |-> "mutate", done |-> tx[t].done \cup {tx[t].row}, rest |-> {}, row |-> row]
  <2>2. row.key = leg.key
    BY RowKey
  <2>3. /\ \A r1, r2 \in tx[t].done \cup {tx[t].row} : r1.key = r2.key => r1 = r2
        /\ \A r \in tx[t].done \cup {tx[t].row} : row.key # r.key
    BY <1>2, <2>1, <2>2 DEF KeysInv, KeysTx, SnapshotRest
  <2>4. \A r1, r2 \in (tx[t].done \cup {tx[t].row}) \cup {row} : r1.key = r2.key => r1 = r2
    BY <2>3
  <2>5. KeysTx(v)
    BY <2>4 DEF KeysTx
  <2>6. tx' = [tx EXCEPT ![t] = v] /\ log' = log
    BY <1>2, <2>1 DEF SnapshotRest
  <2>7. QED
    BY <1>0, <2>5, <2>6, OneSlot DEF KeysInv, UniqueKeys
<1>3. ASSUME NEW t \in Tx, CommitMutation(t) PROVE Goal
  <2> DEFINE new == tx[t].done \cup {tx[t].row}
  <2>1. /\ log' = log \cup new
        /\ \A r \in new : ~Logged(r.key)
        /\ \A r1, r2 \in new : r1.key = r2.key => r1 = r2
        /\ tx' = [tx EXCEPT ![t] = Idle]
    BY <1>3 DEF CommitMutation, KeysInv, KeysTx
  <2>2. \A r1, r2 \in log \cup new : r1.key = r2.key => r1 = r2
    BY <1>0, <2>1 DEF UniqueKeys, Logged
  <2>3. QED
    BY <1>0, <2>1, <2>2, OneSlot DEF KeysInv, UniqueKeys
<1>4. ASSUME NEW t \in Tx, CommitBetAndWin(t) PROVE Goal
  <2>1. PICK leg \in tx[t].rest :
           /\ ~Logged(leg.key)
           /\ log' = log \cup {tx[t].row, RowOf(leg, tx[t].row.after, reserveInitialAmount,
                                                reserveRestoreEnabled)}
    BY <1>4 DEF CommitBetAndWin
  <2> DEFINE row == tx[t].row
             win == RowOf(leg, tx[t].row.after, reserveInitialAmount, reserveRestoreEnabled)
  <2>2. /\ win.key = leg.key
        /\ leg.key # row.key
        /\ ~Logged(row.key)
        /\ tx' = [tx EXCEPT ![t] = Idle]
    BY <1>4, <2>1, RowKey DEF CommitBetAndWin, KeysInv, KeysTx
  <2>3. log' = log \cup {row, win}
    BY <2>1
  <2>4. \A r1, r2 \in log \cup {row, win} : r1.key = r2.key => r1 = r2
    BY <1>0, <2>1, <2>2 DEF UniqueKeys, Logged
  <2>5. QED
    BY <1>0, <2>2, <2>3, <2>4, OneSlot DEF KeysInv, UniqueKeys
<1>5. ASSUME NEW t \in Tx, ReadRecover(t) PROVE Goal
  <2>1. PICK amount \in RecoverAmounts :
           LET take == IF amount > creditBalance THEN creditBalance ELSE amount
               balance == creditBalance - take
               initial == reserveInitialAmount - take
           IN  tx' = [tx EXCEPT ![t] =
                        [op |-> "recover", before |-> creditBalance, balance |-> balance,
                         initial |-> IF initial < balance THEN balance ELSE initial]]
    BY <1>5 DEF ReadRecover
  <2>2. \A before, balance, initial :
           KeysTx([op |-> "recover", before |-> before, balance |-> balance, initial |-> initial])
    BY DEF KeysTx
  <2>3. QED
    BY <1>0, <1>5, <2>1, <2>2, OneSlot DEF ReadRecover, KeysInv, UniqueKeys
<1>6. ASSUME NEW t \in Tx, ReadCreditRequest(t) PROVE Goal
  <2>1. PICK r \in Request, status \in {"APPROVED", "REJECTED"}, amount \in GrantAmounts \cup {0} :
           tx' = [tx EXCEPT ![t] = [op |-> "resolve", request |-> r, seen |-> request[r],
                                    status |-> status, amount |-> amount]]
    BY <1>6 DEF ReadCreditRequest
  <2>2. KeysTx([op |-> "resolve", request |-> r, seen |-> request[r],
                status |-> status, amount |-> amount])
    BY DEF KeysTx
  <2>3. QED
    BY <1>0, <1>6, <2>1, <2>2, OneSlot DEF ReadCreditRequest, KeysInv, UniqueKeys
<1>7. ASSUME NEW t \in Tx, CommitRecover(t) \/ CommitCreditRequest(t) \/ Abort(t) PROVE Goal
  <2>1. tx' = [tx EXCEPT ![t] = Idle] /\ log' = log
    BY <1>7 DEF CommitRecover, CommitCreditRequest, Abort
  <2>2. QED
    BY <1>0, <2>1, OneSlot DEF KeysInv, UniqueKeys
<1>8. ASSUME UNCHANGED <<log, tx>> PROVE Goal
  BY <1>8 DEF KeysInv, UniqueKeys
<1>9. QED
  BY <1>1, <1>2, <1>3, <1>4, <1>5, <1>6, <1>7, <1>8
  DEF Next, Mutate, Opens, CreateCreditRequest, SetEnabled, SetRestoreEnabled, vars

\* An event key is logged at most once, however its deliveries interleave.
THEOREM AtMostOnce == Spec => []UniqueKeys
<1>1. Init => KeysInv
  BY InitTypeOK DEF Init, KeysInv, UniqueKeys, KeysTx, Idle
<1>2. KeysInv /\ [Next]_vars => KeysInv'
  BY KeysStep, NextTypeOK DEF KeysInv
<1>3. KeysInv => UniqueKeys
  BY DEF KeysInv
<1>4. QED
  BY <1>1, <1>2, <1>3, PTL DEF Spec

-----------------------------------------------------------------------------
(* Overlapping transactions implement the account *)

\* The rows that transaction t commits name new keys and leave a balance within the
\* limit: a step of the account.
LEMMA ApplyStep ==
    ASSUME NEW new \in SUBSET Row, new # {},
           \A r \in new : ~Logged(r.key),
           log' = log \cup new,
           creditBalance' \in 0..reserveInitialAmount,
           reserveInitialAmount' = reserveInitialAmount
    PROVE  Account!Next
<1> DEFINE keys == {r.key : r \in log}
           newKeys == {r.key : r \in new}
<1>1. newKeys \in SUBSET Key
  BY DEF Row
<1>2. /\ newKeys # {} /\ newKeys \cap keys = {}
      /\ {r.key : r \in log'} = keys \cup newKeys
  BY DEF Logged
<1> HIDE DEF newKeys
<1>3. QED
  BY <1>1, <1>2 DEF Account!Next, Account!Apply

\* Where no recovery is open every step is a step of the account, also one that overwrites
\* a balance committed meanwhile.
LEMMA OverlapStep ==
    ASSUME NonNegativeRates, WithinInv, [Next]_vars
    PROVE  [Account!Next]_Account!vars
<1> DEFINE Goal == [Account!Next]_Account!vars
<1>0. /\ TypeOK /\ NonNegativeInv
      /\ creditBalance \in Int /\ creditBalance >= 0
      /\ reserveInitialAmount \in Int /\ reserveInitialAmount >= 0
      /\ creditBalance <= reserveInitialAmount
      /\ reserveRestoreEnabled \in BOOLEAN
  BY DEF WithinInv, NonNegativeInv, TypeOK
<1>s. ASSUME UNCHANGED <<platformRow, log>> PROVE Goal
  BY <1>s DEF Account!vars, platformRow
<1>1. ASSUME NEW t \in Tx, CommitMutation(t) PROVE Goal
  <2>1. tx[t] \in Mutating
    BY <1>0, <1>1, TxCases DEF CommitMutation
  <2> DEFINE new == tx[t].done \cup {tx[t].row}
  <2>2. /\ tx[t].row.after \in Int
        /\ tx[t].row.after >= 0 /\ tx[t].row.after <= reserveInitialAmount
        /\ new \in SUBSET Row /\ new # {}
    BY <1>0, <1>1, <2>1 DEF Mutating, Row, NonNegativeInv, SafeTx, WithinInv, WithinTx, CommitMutation
  <2>3. /\ creditBalance' = Written(tx[t].row)
        /\ reserveInitialAmount' = reserveInitialAmount
        /\ log' = log \cup new
        /\ \A r \in new : ~Logged(r.key)
    BY <1>1 DEF CommitMutation
  <2>4. creditBalance' \in 0..reserveInitialAmount
    BY <1>0, <2>2, <2>3 DEF Written
  <2> HIDE DEF new
  <2>5. QED
    BY <2>2, <2>3, <2>4, ApplyStep
<1>2. ASSUME NEW t \in Tx, CommitBetAndWin(t) PROVE Goal
  <2>1. tx[t] \in Mutating
    BY <1>0, <1>2, TxCases DEF CommitBetAndWin
  <2>2. PICK leg \in tx[t].rest :
           LET win == RowOf(leg, tx[t].row.after, reserveInitialAmount, reserveRestoreEnabled)
           IN  /\ ~Logged(leg.key)
               /\ creditBalance' = win.after
               /\ log' = log \cup {tx[t].row, win}
    BY <1>2 DEF CommitBetAndWin
  <2> DEFINE win == RowOf(leg, tx[t].row.after, reserveInitialAmount, reserveRestoreEnabled)
             new == {tx[t].row, win}
  <2>3. /\ tx[t].row \in Row /\ tx[t].row.after \in Int
        /\ tx[t].row.after >= 0 /\ tx[t].row.after <= reserveInitialAmount
        /\ leg \in Leg /\ leg.base >= 0
    BY <1>0, <1>2, <2>1, <2>2
    DEF Mutating, Row, NonNegativeInv, SafeTx, WithinInv, WithinTx, CommitBetAndWin
  <2>4. win.after \in Int /\ win.after >= 0 /\ win.after <= reserveInitialAmount
    BY <1>0, <2>3, AfterBounds
  <2>5. win \in Row /\ win.key = leg.key
    BY <1>0, <2>3, AfterType, RowKey
  <2>6. /\ reserveInitialAmount' = reserveInitialAmount
        /\ creditBalance' \in 0..reserveInitialAmount
        /\ log' = log \cup new
    BY <1>0, <1>2, <2>2, <2>4 DEF CommitBetAndWin
  <2>7. new \in SUBSET Row /\ new # {} /\ \A r \in new : ~Logged(r.key)
    BY <1>2, <2>2, <2>3, <2>5 DEF CommitBetAndWin
  <2> HIDE DEF new
  <2>8. QED
    BY <2>6, <2>7, ApplyStep
<1>3. ASSUME NEW t \in Tx, CommitRecover(t) PROVE Goal
  BY <1>3 DEF CommitRecover, WithinInv, WithinTx
<1>4. ASSUME NEW t \in Tx, CommitCreditRequest(t) PROVE Goal
  <2>1. tx[t] \in Resolving
    BY <1>0, <1>4, TxCases DEF CommitCreditRequest
  <2> DEFINE delta == IF Grants(tx[t]) THEN tx[t].amount ELSE 0
  <2>2. delta \in Nat
    BY <2>1 DEF Resolving
  <2>3. /\ creditBalance' = creditBalance + delta
        /\ reserveInitialAmount' = reserveInitialAmount + delta
        /\ log' = log
    BY <1>4 DEF CommitCreditRequest
  <2>4. Account!MoveLimit
    BY <1>0, <2>2, <2>3 DEF Account!MoveLimit
  <2>5. QED
    BY <2>4 DEF Account!Next
<1>5. ASSUME NEW t \in Tx,
             \/ Opens(t) \/ SnapshotRest(t)
             \/ ReadRecover(t) \/ ReadCreditRequest(t) \/ Abort(t)
      PROVE Goal
  <2>1. UNCHANGED <<platformRow, log>>
    <3>1. CASE Opens(t)
      BY <1>0, <3>1, Opening DEF Snapshot
    <3>2. CASE \/ SnapshotRest(t) \/ ReadRecover(t) \/ ReadCreditRequest(t) \/ Abort(t)
      BY <3>2 DEF SnapshotRest, ReadRecover, ReadCreditRequest, Abort
    <3>3. QED
      BY <1>5, <3>1, <3>2
  <2>2. QED
    BY <1>s, <2>1
<1>6. ASSUME \/ \E r \in Request : CreateCreditRequest(r)
             \/ \E enabled \in BOOLEAN : SetEnabled(enabled) \/ SetRestoreEnabled(enabled)
             \/ UNCHANGED vars
      PROVE Goal
  BY <1>s, <1>6 DEF CreateCreditRequest, SetEnabled, SetRestoreEnabled, vars, platformRow
<1> HIDE DEF Goal
<1>7. Goal
  BY <1>1, <1>2, <1>3, <1>4, <1>5, <1>6 DEF Next, Mutate, Opens
<1>8. QED
  BY <1>7 DEF Goal

\* While the head office takes no credit back, the service implements an account
\* with a limit however many transactions overlap: a lost update of runMutation
\* still looks like one step of the account, and no event takes effect twice.
THEOREM OverlapRefinement ==
    ASSUME NonNegativeRates, RecoverAmounts = {}
    PROVE  Spec => ImplementsAccount
<1>1. Init => Account!Init
  BY DEF Init, Account!Init
<1>2. WithinInv /\ [Next]_vars => [Account!Next]_Account!vars
  BY OverlapStep
<1>3. QED
  BY <1>1, <1>2, WithinInit, WithinInductive, PTL DEF Spec, ImplementsAccount, Account!Spec

-----------------------------------------------------------------------------
(* One transaction at a time *)

\* What the single open transaction read is still what is committed.
SerialTx(x) ==
    /\ x.op = "mutate" => /\ x.row.before = creditBalance
                          /\ x.row.after <= reserveInitialAmount
    /\ x.op = "recover" => /\ x.before = creditBalance
                           /\ x.initial - x.balance = reserveInitialAmount - creditBalance

SerialInv ==
    /\ NonNegativeInv
    /\ creditBalance <= reserveInitialAmount
    /\ ReconcilesWithLog
    /\ \A t \in Tx : SerialTx(tx[t])

\* No transaction but t is open.
Alone(t) == \A u \in Tx \ {t} : tx[u] = Idle

\* The steps of the transaction of one connection.
StepOf(t) ==
    \/ Mutate(t) \/ ReadRecover(t) \/ CommitRecover(t)
    \/ ReadCreditRequest(t) \/ CommitCreditRequest(t) \/ Abort(t)

\* A step that opens, carries on or ends the only open transaction keeps the
\* parts of the invariant and is a step of the account.
LEMMA SerialStep ==
    ASSUME NonNegativeRates, NEW t \in Tx, Alone(t), SerialInv, StepOf(t)
    PROVE  /\ creditBalance' <= reserveInitialAmount'
           /\ ReconcilesWithLog'
           /\ \A s \in Tx : SerialTx(tx[s])'
           /\ [Account!Next]_Account!vars
<1> DEFINE Goal == /\ creditBalance' <= reserveInitialAmount'
                   /\ ReconcilesWithLog'
                   /\ SerialTx(tx[t])'
                   /\ [Account!Next]_Account!vars
           keys == {r.key : r \in log}
<1>0. /\ TypeOK /\ NonNegativeInv /\ t \in Tx
      /\ creditBalance \in Int /\ creditBalance >= 0
      /\ reserveInitialAmount \in Int /\ reserveInitialAmount >= 0
      /\ creditBalance <= reserveInitialAmount
      /\ reserveRestoreEnabled \in BOOLEAN
      /\ logNet \in Int /\ granted \in Nat
      /\ creditBalance = granted + logNet
  BY DEF SerialInv, NonNegativeInv, TypeOK, ReconcilesWithLog
<1>i. ASSUME tx'[t] = Idle PROVE SerialTx(tx[t])'
  BY <1>i DEF SerialTx, Idle
<1>s. ASSUME UNCHANGED <<platformRow, log>> PROVE UNCHANGED Account!vars
  BY <1>s DEF Account!vars, platformRow
<1>1. ASSUME Opens(t) PROVE Goal
  <2>1. PICK leg \in Leg, rest \in SUBSET Leg : Snapshot(t, leg, rest) /\ WellFormed(leg, rest)
    BY <1>0, <1>1, Opening
  <2> DEFINE row == RowOf(leg, creditBalance, reserveInitialAmount, reserveRestoreEnabled)
             v == [op |-> "mutate", done |-> {}, rest |-> rest, row |-> row]
  <2>2. row.after <= reserveInitialAmount /\ row.before = creditBalance
    <3>1. row.after <= reserveInitialAmount
      BY <1>0, <2>1, AfterBounds DEF WellFormed
    <3>2. row.before = creditBalance
      BY DEF RowOf
    <3>3. QED
      BY <3>1, <3>2
  <2>3. tx' = [tx EXCEPT ![t] = v] /\ UNCHANGED <<platformRow, log, logNet, requests>>
    BY <2>1 DEF Snapshot
  <2>4. tx'[t] = v
    BY <1>0, <2>3, OneSlot
  <2>5. SerialTx(tx[t])'
    BY <2>2, <2>3, <2>4 DEF SerialTx, platformRow
  <2>6. QED
    BY <1>0, <1>s, <2>3, <2>5 DEF ReconcilesWithLog, platformRow, requests
<1>2. ASSUME SnapshotRest(t) PROVE Goal
  <2>1. tx[t] \in Mutating
    BY <1>0, <1>2, TxCases DEF SnapshotRest
  <2>2. PICK leg \in tx[t].rest :
           tx' = [tx EXCEPT ![t] =
                    [op |-> "mutate", done |-> tx[t].done \cup {tx[t].row}, rest |-> {},
                     row |-> RowOf(leg, creditBalance, reserveInitialAmount,
                                   reserveRestoreEnabled)]]
    BY <1>2 DEF SnapshotRest
  <2> DEFINE row == RowOf(leg, creditBalance, reserveInitialAmount, reserveRestoreEnabled)
             v == [op |-> "mutate", done |-> tx[t].done \cup {tx[t].row}, rest |-> {}, row |-> row]
  <2>3. leg \in Leg /\ leg.base >= 0
    BY <1>0, <1>2, <2>1, <2>2 DEF Mutating, NonNegativeInv, SafeTx, SnapshotRest
  <2>4. row.after <= reserveInitialAmount /\ row.before = creditBalance
    <3>1. row.after <= reserveInitialAmount
      BY <1>0, <2>3, AfterBounds
    <3>2. row.before = creditBalance
      BY DEF RowOf
    <3>3. QED
      BY <3>1, <3>2
  <2>5. UNCHANGED <<platformRow, log, logNet, requests>>
    BY <1>2 DEF SnapshotRest
  <2>6. tx'[t] = v
    BY <1>0, <2>2, OneSlot
  <2>7. SerialTx(tx[t])'
    BY <2>4, <2>5, <2>6 DEF SerialTx, platformRow
  <2>8. QED
    BY <1>0, <1>s, <2>5, <2>7 DEF ReconcilesWithLog, platformRow, requests
<1>3. ASSUME CommitMutation(t) PROVE Goal
  <2>1. tx[t] \in Mutating
    BY <1>0, <1>3, TxCases DEF CommitMutation
  <2> DEFINE row == tx[t].row
             new == tx[t].done \cup {row}
             newKeys == {r.key : r \in new}
  <2>2. /\ row.after \in Int /\ row.before \in Int
        /\ row.after >= 0 /\ row.after <= reserveInitialAmount
        /\ row.before = creditBalance
        /\ new \subseteq Row
    BY <1>0, <1>3, <2>1 DEF Mutating, Row, NonNegativeInv, SafeTx, SerialInv, SerialTx, CommitMutation
  <2>3. /\ creditBalance' = row.after
        /\ reserveInitialAmount' = reserveInitialAmount
        /\ logNet' = logNet + (row.after - row.before)
        /\ granted' = granted
        /\ log' = log \cup new
        /\ \A r \in new : ~Logged(r.key)
    BY <1>3, <2>2 DEF CommitMutation, Written, Moves, requests
  <2>4. tx'[t] = Idle
    BY <1>0, <1>3, OneSlot DEF CommitMutation
  <2>5. newKeys \in SUBSET Key
    BY <2>2 DEF Row
  <2>6. /\ newKeys # {} /\ newKeys \cap keys = {}
        /\ {r.key : r \in log'} = keys \cup newKeys
        /\ creditBalance' \in 0..reserveInitialAmount
    BY <1>0, <2>2, <2>3 DEF Logged
  <2>7. Account!Next
    <3> HIDE DEF newKeys
    <3>1. QED
      BY <2>3, <2>5, <2>6 DEF Account!Next, Account!Apply
  <2>8. QED
    BY <1>0, <1>i, <2>2, <2>3, <2>4, <2>7 DEF ReconcilesWithLog
<1>4. ASSUME CommitBetAndWin(t) PROVE Goal
  <2>1. tx[t] \in Mutating
    BY <1>0, <1>4, TxCases DEF CommitBetAndWin
  <2>2. PICK leg \in tx[t].rest :
           LET win == RowOf(leg, tx[t].row.after, reserveInitialAmount, reserveRestoreEnabled)
           IN  /\ ~Logged(leg.key)
               /\ creditBalance' = win.after
               /\ log' = log \cup {tx[t].row, win}
               /\ logNet' = logNet + (win.after - tx[t].row.before)
    BY <1>4 DEF CommitBetAndWin
  <2> DEFINE row == tx[t].row
             win == RowOf(leg, tx[t].row.after, reserveInitialAmount, reserveRestoreEnabled)
             newKeys == {row.key, win.key}
  <2>3. /\ row.after \in Int /\ row.before \in Int
        /\ row.after >= 0 /\ row.after <= reserveInitialAmount
        /\ row.before = creditBalance
        /\ row.key \in Key
        /\ leg \in Leg /\ leg.base >= 0
    BY <1>0, <1>4, <2>1, <2>2
    DEF Mutating, Row, NonNegativeInv, SafeTx, SerialInv, SerialTx, CommitBetAndWin
  <2>4. win.after \in Int /\ win.after >= 0 /\ win.after <= reserveInitialAmount
    BY <1>0, <2>3, AfterBounds
  <2>5. win.key = leg.key /\ win.key \in Key
    BY <2>3, RowKey DEF Leg
  <2>6. /\ creditBalance' = win.after
        /\ reserveInitialAmount' = reserveInitialAmount
        /\ logNet' = logNet + (win.after - row.before)
        /\ granted' = granted
        /\ log' = log \cup {row, win}
        /\ ~Logged(row.key) /\ ~Logged(win.key)
    BY <1>4, <2>2, <2>5 DEF CommitBetAndWin, requests
  <2>7. tx'[t] = Idle
    BY <1>0, <1>4, OneSlot DEF CommitBetAndWin
  <2>8. /\ newKeys \in SUBSET Key
        /\ newKeys # {} /\ newKeys \cap keys = {}
        /\ {r.key : r \in log'} = keys \cup newKeys
        /\ creditBalance' \in 0..reserveInitialAmount
    BY <1>0, <2>3, <2>4, <2>5, <2>6 DEF Logged
  <2>9. Account!Next
    <3> HIDE DEF newKeys
    <3>1. QED
      BY <2>6, <2>8 DEF Account!Next, Account!Apply
  <2>10. QED
    BY <1>0, <1>i, <2>3, <2>4, <2>6, <2>7, <2>9 DEF ReconcilesWithLog
<1>5. ASSUME ReadRecover(t) PROVE Goal
  <2>1. PICK amount \in RecoverAmounts :
           LET take == IF amount > creditBalance THEN creditBalance ELSE amount
               balance == creditBalance - take
               initial == reserveInitialAmount - take
           IN  tx' = [tx EXCEPT ![t] =
                        [op |-> "recover", before |-> creditBalance, balance |-> balance,
                         initial |-> IF initial < balance THEN balance ELSE initial]]
    BY <1>5 DEF ReadRecover
  <2> DEFINE take == IF amount > creditBalance THEN creditBalance ELSE amount
             balance == creditBalance - take
             initial == reserveInitialAmount - take
             v == [op |-> "recover", before |-> creditBalance, balance |-> balance,
                   initial |-> IF initial < balance THEN balance ELSE initial]
  <2>2. amount \in Nat
    BY ReserveAssumption DEF ReserveAssumption
  <2>3. v.before = creditBalance /\ v.initial - v.balance = reserveInitialAmount - creditBalance
    BY <1>0, <2>2
  <2>4. UNCHANGED <<platformRow, log, logNet, requests>>
    BY <1>5 DEF ReadRecover
  <2>5. tx'[t] = v
    <3>1. tx' = [tx EXCEPT ![t] = v]
      BY <2>1
    <3> HIDE DEF v
    <3>2. QED
      BY <1>0, <3>1, OneSlot
  <2>6. SerialTx(tx[t])'
    BY <2>3, <2>4, <2>5 DEF SerialTx, platformRow
  <2>7. QED
    BY <1>0, <1>s, <2>4, <2>6 DEF ReconcilesWithLog, platformRow, requests
<1>6. ASSUME CommitRecover(t) PROVE Goal
  <2>1. tx[t] \in Recovering
    BY <1>0, <1>6, TxCases DEF CommitRecover
  <2>2. /\ tx[t].balance \in Int /\ tx[t].initial \in Int /\ tx[t].before \in Int
        /\ tx[t].balance >= 0
        /\ tx[t].before = creditBalance
        /\ tx[t].initial - tx[t].balance = reserveInitialAmount - creditBalance
    BY <1>0, <1>6, <2>1 DEF Recovering, NonNegativeInv, SafeTx, SerialInv, SerialTx, CommitRecover
  <2>3. /\ creditBalance' = tx[t].balance
        /\ reserveInitialAmount' = tx[t].initial
        /\ logNet' = logNet + (tx[t].balance - tx[t].before)
        /\ granted' = granted
        /\ log' = log
    BY <1>6 DEF CommitRecover, requests
  <2>4. tx'[t] = Idle
    BY <1>0, <1>6, OneSlot DEF CommitRecover
  <2>5. Account!MoveLimit
    BY <1>0, <2>2, <2>3 DEF Account!MoveLimit
  <2>6. QED
    BY <1>0, <1>i, <2>2, <2>3, <2>4, <2>5 DEF ReconcilesWithLog, Account!Next
<1>7. ASSUME ReadCreditRequest(t) PROVE Goal
  <2>1. PICK r \in Request, status \in {"APPROVED", "REJECTED"}, amount \in GrantAmounts \cup {0} :
           tx' = [tx EXCEPT ![t] = [op |-> "resolve", request |-> r, seen |-> request[r],
                                    status |-> status, amount |-> amount]]
    BY <1>7 DEF ReadCreditRequest
  <2>2. tx'[t] = [op |-> "resolve", request |-> r, seen |-> request[r],
                  status |-> status, amount |-> amount]
    BY <1>0, <2>1, OneSlot
  <2>3. SerialTx(tx[t])'
    BY <2>2 DEF SerialTx
  <2>4. UNCHANGED <<platformRow, log, logNet, requests>>
    BY <1>7 DEF ReadCreditRequest
  <2>5. QED
    BY <1>0, <1>s, <2>3, <2>4 DEF ReconcilesWithLog, platformRow, requests
<1>8. ASSUME CommitCreditRequest(t) PROVE Goal
  <2>1. tx[t] \in Resolving
    BY <1>0, <1>8, TxCases DEF CommitCreditRequest
  <2> DEFINE delta == IF Grants(tx[t]) THEN tx[t].amount ELSE 0
  <2>2. delta \in Nat
    BY <2>1 DEF Resolving
  <2>3. /\ creditBalance' = creditBalance + delta
        /\ reserveInitialAmount' = reserveInitialAmount + delta
        /\ granted' = granted + delta
        /\ logNet' = logNet
        /\ log' = log
    BY <1>8 DEF CommitCreditRequest
  <2>4. tx'[t] = Idle
    BY <1>0, <1>8, OneSlot DEF CommitCreditRequest
  <2>5. Account!MoveLimit
    BY <1>0, <2>2, <2>3 DEF Account!MoveLimit
  <2>6. QED
    BY <1>0, <1>i, <2>2, <2>3, <2>4, <2>5 DEF ReconcilesWithLog, Account!Next
<1>9. ASSUME Abort(t) PROVE Goal
  <2>1. tx'[t] = Idle
    BY <1>0, <1>9, OneSlot DEF Abort
  <2>2. UNCHANGED <<platformRow, log, logNet, requests>>
    BY <1>9 DEF Abort
  <2>3. QED
    BY <1>0, <1>i, <1>s, <2>1, <2>2 DEF ReconcilesWithLog, platformRow, requests
<1>10. Goal
  <2> HIDE DEF Goal
  <2>1. QED
    BY <1>1, <1>2, <1>3, <1>4, <1>5, <1>6, <1>7, <1>8, <1>9 DEF StepOf, Mutate, Opens
<1>11. ASSUME NEW s \in Tx \ {t} PROVE SerialTx(tx[s])'
  <2>1. tx'[s] = Idle
    <3>1. \E v : tx' = [tx EXCEPT ![t] = v]
      <4>1. CASE Opens(t)
        BY <1>0, <4>1, Opening DEF Snapshot
      <4>2. CASE SnapshotRest(t)
        BY <4>2 DEF SnapshotRest
      <4>3. CASE ReadRecover(t)
        BY <4>3 DEF ReadRecover
      <4>4. CASE ReadCreditRequest(t)
        BY <4>4 DEF ReadCreditRequest
      <4>5. CASE \/ CommitMutation(t) \/ CommitBetAndWin(t) \/ CommitRecover(t)
                 \/ CommitCreditRequest(t) \/ Abort(t)
        BY <4>5 DEF CommitMutation, CommitBetAndWin, CommitRecover, CommitCreditRequest, Abort
      <4>6. QED
        BY <4>1, <4>2, <4>3, <4>4, <4>5 DEF StepOf, Mutate, Opens
    <3>2. QED
      BY <1>0, <3>1, OneSlot DEF Alone
  <2>2. QED
    BY <2>1 DEF SerialTx, Idle
<1>12. QED
  BY <1>10, <1>11

\* So does a step that neither touches the balance nor a transaction.
LEMMA SerialQuietStep ==
    ASSUME SerialInv, UNCHANGED <<platformRow, log, logNet, granted, tx>>
    PROVE  /\ creditBalance' <= reserveInitialAmount'
           /\ ReconcilesWithLog'
           /\ \A s \in Tx : SerialTx(tx[s])'
           /\ [Account!Next]_Account!vars
<1>1. \A s \in Tx : SerialTx(tx[s])'
  BY DEF SerialInv, SerialTx, platformRow
<1>2. UNCHANGED Account!vars
  BY DEF Account!vars, platformRow
<1>3. QED
  BY <1>1, <1>2 DEF SerialInv, ReconcilesWithLog, platformRow

\* The steps of a system whose transactions run one after the other.
OneAtATime == \E t \in Tx : Alone(t) /\ StepOf(t)

Quiet == UNCHANGED <<platformRow, log, logNet, granted, tx>>

LEMMA SerialNext ==
    ASSUME NonNegativeRates, SerialInv, [Next]_vars, OneAtATime \/ Quiet
    PROVE  SerialInv' /\ [Account!Next]_Account!vars
<1>1. NonNegativeInv /\ TypeOK
  BY DEF SerialInv, NonNegativeInv
<1>2. NonNegativeInv'
  BY <1>1, NonNegativeStep, NextTypeOK DEF NonNegativeInv
<1>3. /\ creditBalance' <= reserveInitialAmount'
      /\ ReconcilesWithLog'
      /\ \A s \in Tx : SerialTx(tx[s])'
      /\ [Account!Next]_Account!vars
  BY SerialStep, SerialQuietStep DEF OneAtATime, Quiet
<1>4. QED
  BY <1>2, <1>3 DEF SerialInv

\* Initially nothing is granted, logged or open.
LEMMA SerialInit == Init => SerialInv
<1> SUFFICES ASSUME Init PROVE SerialInv
  OBVIOUS
<1>1. NonNegativeInv
  BY InitTypeOK DEF Init, NonNegativeInv, SafeTx, Idle
<1>2. QED
  BY <1>1 DEF Init, SerialInv, SerialTx, ReconcilesWithLog, Idle

\* With a single connection transactions run one after the other.
LEMMA OneConnection ==
    ASSUME NEW t, Tx = {t}, [Next]_vars
    PROVE  OneAtATime \/ Quiet
<1>1. CASE \E s \in Tx : StepOf(s)
  BY <1>1 DEF OneAtATime, Alone
<1>2. CASE UNCHANGED vars
  BY <1>2 DEF Quiet, vars, platformRow
<1>3. CASE \E r \in Request : CreateCreditRequest(r)
  BY <1>3 DEF CreateCreditRequest, Quiet
<1>4. CASE \E enabled \in BOOLEAN : SetEnabled(enabled) \/ SetRestoreEnabled(enabled)
  BY <1>4 DEF SetEnabled, SetRestoreEnabled, Quiet, requests
<1>5. QED
  BY <1>1, <1>2, <1>3, <1>4 DEF Next, StepOf

\* The serial invariant is inductive.
LEMMA SerialInductive ==
    ASSUME NonNegativeRates, NEW t, Tx = {t}
    PROVE  SerialInv /\ [Next]_vars => SerialInv'
BY SerialNext, OneConnection

\* Run one at a time, the handlers keep 0 <= current <= initial.
THEOREM SerialBounds ==
    ASSUME NonNegativeRates, NEW t, Tx = {t}
    PROVE  Spec => []Bounds
<1>1. SerialInv => Bounds
  BY DEF SerialInv, NonNegativeInv, Bounds, NonNegative, WithinInitial
<1>2. QED
  BY <1>1, SerialInit, SerialInductive, PTL DEF Spec

\* Run one at a time, the balance is what was granted plus what was logged.
THEOREM SerialLogReconciles ==
    ASSUME NonNegativeRates, NEW t, Tx = {t}
    PROVE  Spec => []ReconcilesWithLog
<1>1. SerialInv => ReconcilesWithLog
  BY DEF SerialInv
<1>2. QED
  BY <1>1, SerialInit, SerialInductive, PTL DEF Spec

\* Run one at a time, the service implements an account with a limit.
THEOREM SerialRefinement ==
    ASSUME NonNegativeRates, NEW t, Tx = {t}
    PROVE  Spec => ImplementsAccount
<1>1. Init => Account!Init
  BY DEF Init, Account!Init
<1>2. SerialInv /\ [Next]_vars => [Account!Next]_Account!vars
  BY SerialNext, OneConnection
<1>3. QED
  BY <1>1, <1>2, SerialInit, SerialInductive, PTL DEF Spec, ImplementsAccount, Account!Spec

-----------------------------------------------------------------------------
(* Transactions one after the other, or overlapping without a recovery *)

\* What holds of each of the two situations MCReserveBalance tells apart: serial
\* never changes, and only a serial system opens recoveries.
MCInv ==
    /\ serial => SerialInv
    /\ ~serial => WithinInv

\* A serial step is one of the only open transaction, an overlapping one is none
\* of a recovery.
LEMMA MCStep ==
    ASSUME [MCNext]_mcvars
    PROVE  /\ [Next]_vars
           /\ serial' = serial
           /\ serial => OneAtATime \/ Quiet
           /\ ~serial => [NextWithoutRecovery]_vars
<1>1. CASE UNCHANGED mcvars
  BY <1>1 DEF mcvars, vars, Quiet, platformRow
<1>2. CASE MCNext
  <2>1. serial' = serial
    BY <1>2 DEF MCNext
  <2>2. CASE \E t \in Tx : /\ MayStep(t)
                          /\ \/ Mutate(t) \/ ReadCreditRequest(t) \/ CommitCreditRequest(t)
                             \/ Abort(t)
                             \/ serial /\ (ReadRecover(t) \/ CommitRecover(t))
    BY <2>1, <2>2 DEF Next, NextWithoutRecovery, OneAtATime, Alone, StepOf, MayStep
  <2>3. CASE \E r \in Request : CreateCreditRequest(r)
    BY <2>1, <2>3 DEF Next, NextWithoutRecovery, CreateCreditRequest, Quiet
  <2>4. CASE \E enabled \in BOOLEAN : SetEnabled(enabled) \/ SetRestoreEnabled(enabled)
    BY <2>1, <2>4
    DEF Next, NextWithoutRecovery, SetEnabled, SetRestoreEnabled, Quiet, requests
  <2>5. QED
    BY <1>2, <2>2, <2>3, <2>4 DEF MCNext
<1>3. QED
  BY <1>1, <1>2

\* Both situations keep what holds of them, and only take steps of the account.
LEMMA MCInductive ==
    ASSUME NonNegativeRates, MCInv, [MCNext]_mcvars
    PROVE  MCInv' /\ [Account!Next]_Account!vars
<1>1. /\ [Next]_vars
      /\ serial' = serial
      /\ serial => OneAtATime \/ Quiet
      /\ ~serial => [NextWithoutRecovery]_vars
  BY MCStep
<1>2. CASE serial
  <2>1. SerialInv' /\ [Account!Next]_Account!vars
    BY <1>1, <1>2, SerialNext DEF MCInv
  <2>2. QED
    BY <1>1, <1>2, <2>1 DEF MCInv
<1>3. CASE ~serial
  <2>1. WithinInv' /\ [Account!Next]_Account!vars
    BY <1>1, <1>3, WithinNext, OverlapStep DEF MCInv
  <2>2. QED
    BY <1>1, <1>3, <2>1 DEF MCInv
<1>4. QED
  BY <1>2, <1>3

\* What holds of each situation always does.
LEMMA MCAlways ==
    ASSUME NonNegativeRates
    PROVE  MCSpec => []MCInv
<1>1. MCInit => MCInv
  BY SerialInit, WithinInit DEF MCInit, MCInv
<1>2. MCInv /\ [MCNext]_mcvars => MCInv'
  BY MCInductive
<1>3. QED
  BY <1>1, <1>2, PTL DEF MCSpec

\* One after the other or overlapping without a recovery, the handlers keep
\* 0 <= current <= initial.
THEOREM BothKeepBounds ==
    ASSUME NonNegativeRates
    PROVE  MCSpec => []Bounds
<1>1. MCInv => Bounds
  BY DEF MCInv, SerialInv, WithinInv, NonNegativeInv, Bounds, NonNegative, WithinInitial
<1>2. QED
  BY <1>1, MCAlways, PTL

\* One after the other, on any number of connections, the balance is what was
\* granted plus what PlatformReserveLog says was moved.
THEOREM LogRecomputesBalance ==
    ASSUME NonNegativeRates
    PROVE  MCSpec => []SerialReconciles
<1>1. MCInv => SerialReconciles
  BY DEF MCInv, SerialInv, SerialReconciles
<1>2. QED
  BY <1>1, MCAlways, PTL

\* In both situations the service implements an account with a limit: no event
\* takes effect twice, and balance and limit only move as the account allows.
THEOREM BothImplementAccount ==
    ASSUME NonNegativeRates
    PROVE  MCSpec => ImplementsAccount
<1>1. MCInit => Account!Init
  BY DEF MCInit, Init, Account!Init
<1>2. MCInv /\ [MCNext]_mcvars => [Account!Next]_Account!vars
  BY MCInductive
<1>3. QED
  BY <1>1, <1>2, MCAlways, PTL DEF MCSpec, ImplementsAccount, Account!Spec

=============================================================================
