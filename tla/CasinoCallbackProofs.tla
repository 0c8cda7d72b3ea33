-------------------------- MODULE CasinoCallbackProofs --------------------------
(***************************************************************************)
(* What holds of the callbacks however many overlap, for every set of      *)
(* transaction ids and amounts.  One invariant carries all of it: what a   *)
(* callback has read keeps the promises the stored state keeps.  The last  *)
(* part is about callbacks that are handled one after the other: what one  *)
(* has read is then still so.                                              *)
(***************************************************************************)
EXTENDS MCCasinoCallback, FiniteSetTheorems, TLAPS

-----------------------------------------------------------------------------
(* What the operators of WalletBuckets promise, for every wallet and amount *)

\* A deduction the wallet covers takes exactly the amount, in the order of the
\* buckets, and overdraws none (wallet-buckets.service.ts, deductStake).
THEOREM DeductStakeSpends ==
    ASSUME NEW w \in Wallet, NEW stake \in Nat, Covers(w, stake)
    PROVE  SpendsInOrder(w, stake, deductStake(w, stake)) /\ deductStake(w, stake) \in Wallet
<1> DEFINE fromPoint == Smaller(w.pointFree, stake)
           fromComp == Smaller(w.compFree, stake - fromPoint)
           fromDeposit == Smaller(w.lockedDeposit, stake - fromPoint - fromComp)
           fromWin == Smaller(w.lockedWin, stake - fromPoint - fromComp - fromDeposit)
           r == [w EXCEPT !.pointFree = @ - fromPoint, !.compFree = @ - fromComp,
                          !.lockedDeposit = @ - fromDeposit, !.lockedWin = @ - fromWin]
<1>1. /\ w.pointFree \in Nat /\ w.compFree \in Nat
      /\ w.lockedDeposit \in Nat /\ w.lockedWin \in Nat
  BY DEF Wallet, Bucket
<1>2. /\ fromPoint \in Nat /\ fromPoint <= w.pointFree /\ fromPoint <= stake
      /\ fromPoint < stake => fromPoint = w.pointFree
  BY <1>1 DEF Smaller
<1>3. /\ fromComp \in Nat /\ fromComp <= w.compFree /\ fromComp <= stake - fromPoint
      /\ fromComp < stake - fromPoint => fromComp = w.compFree
  <2> HIDE DEF fromPoint
  <2>1. QED
    BY <1>1, <1>2 DEF Smaller
<1>4. /\ fromDeposit \in Nat /\ fromDeposit <= w.lockedDeposit
      /\ fromDeposit <= stake - fromPoint - fromComp
      /\ fromDeposit < stake - fromPoint - fromComp => fromDeposit = w.lockedDeposit
  <2> HIDE DEF fromPoint, fromComp
  <2>1. QED
    BY <1>1, <1>2, <1>3 DEF Smaller
<1>5. stake <= w.lockedDeposit + w.lockedWin + w.compFree + w.pointFree
  BY DEF Covers, totalFromBuckets
<1>6. fromWin = stake - fromPoint - fromComp - fromDeposit /\ fromWin \in Nat /\ fromWin <= w.lockedWin
  <2> HIDE DEF fromPoint, fromComp, fromDeposit
  <2>1. QED
    BY <1>1, <1>2, <1>3, <1>4, <1>5 DEF Smaller
<1>7. CASE stake = 0
  BY <1>1, <1>7 DEF deductStake, SpendsInOrder, SpendOrder, totalFromBuckets, Wallet
<1>8. CASE stake > 0
  <2>1. deductStake(w, stake) = r
    BY <1>8 DEF deductStake
  <2> HIDE DEF fromPoint, fromComp, fromDeposit, fromWin
  <2>2. /\ r.pointFree = w.pointFree - fromPoint /\ r.compFree = w.compFree - fromComp
        /\ r.lockedDeposit = w.lockedDeposit - fromDeposit
        /\ r.lockedWin = w.lockedWin - fromWin
    BY DEF Wallet, Bucket
  <2>3. r \in Wallet
    <3>1. \A b \in Bucket : r[b] \in Nat
      <4> HIDE DEF r
      <4>1. QED
        BY <1>1, <1>2, <1>3, <1>4, <1>6, <2>2 DEF Bucket
    <3>2. QED
      BY <3>1 DEF Wallet
  <2> HIDE DEF r
  <2>4. totalFromBuckets(r) = totalFromBuckets(w) - stake
    BY <1>1, <1>2, <1>3, <1>4, <1>6, <2>2 DEF totalFromBuckets
  <2>5. \A b \in Bucket : 0 <= r[b] /\ r[b] <= w[b]
    BY <1>1, <1>2, <1>3, <1>4, <1>6, <2>2 DEF Bucket
  <2>6. /\ r.compFree < w.compFree => r.pointFree = 0
        /\ r.lockedDeposit < w.lockedDeposit => r.pointFree = 0 /\ r.compFree = 0
        /\ r.lockedWin < w.lockedWin => r.pointFree = 0 /\ r.compFree = 0 /\ r.lockedDeposit = 0
    BY <1>1, <1>2, <1>3, <1>4, <1>6, <2>2
  <2>7. ASSUME NEW i \in 1..4, NEW j \in 1..4, i < j, r[SpendOrder[j]] < w[SpendOrder[j]]
        PROVE  r[SpendOrder[i]] = 0
    <3>1. \/ j = 2 /\ i = 1
          \/ j = 3 /\ (i = 1 \/ i = 2)
          \/ j = 4 /\ (i = 1 \/ i = 2 \/ i = 3)
      BY <2>7
    <3>2. /\ SpendOrder[1] = "pointFree" /\ SpendOrder[2] = "compFree"
          /\ SpendOrder[3] = "lockedDeposit" /\ SpendOrder[4] = "lockedWin"
      BY DEF SpendOrder
    <3>3. QED
      BY <2>6, <2>7, <3>1, <3>2
  <2>8. SpendsInOrder(w, stake, r)
    BY <2>4, <2>5, <2>7 DEF SpendsInOrder
  <2>9. QED
    BY <2>1, <2>3, <2>8
<1>9. QED
  BY <1>7, <1>8

\* A credit adds its amount to the deposit.
LEMMA CreditLockedDeposit ==
    ASSUME NEW w \in Wallet, NEW amt \in Nat
    PROVE  /\ creditLockedDeposit(w, amt) \in Wallet
           /\ totalFromBuckets(creditLockedDeposit(w, amt)) = totalFromBuckets(w) + amt
<1>1. /\ w.pointFree \in Nat /\ w.compFree \in Nat
      /\ w.lockedDeposit \in Nat /\ w.lockedWin \in Nat
  BY DEF Wallet, Bucket
<1>2. CASE amt = 0
  BY <1>1, <1>2 DEF creditLockedDeposit, totalFromBuckets
<1>3. CASE amt > 0
  <2> DEFINE r == [w EXCEPT !.lockedDeposit = @ + amt]
  <2>1. creditLockedDeposit(w, amt) = r
    BY <1>3 DEF creditLockedDeposit
  <2>2. r \in Wallet /\ r.lockedDeposit = w.lockedDeposit + amt
    BY <1>1 DEF Wallet, Bucket
  <2>3. r.pointFree = w.pointFree /\ r.compFree = w.compFree /\ r.lockedWin = w.lockedWin
    BY DEF Wallet, Bucket
  <2> HIDE DEF r
  <2>4. QED
    BY <1>1, <2>1, <2>2, <2>3 DEF totalFromBuckets
<1>4. QED
  BY <1>2, <1>3

\* A win adds its amount, to one bucket or the other.
LEMMA CreditWin ==
    ASSUME NEW w \in Wallet, NEW win \in Nat, NEW open \in BOOLEAN
    PROVE  /\ creditWin(w, win, open) \in Wallet
           /\ totalFromBuckets(creditWin(w, win, open)) = totalFromBuckets(w) + win
<1>1. CASE win > 0 /\ open
  <2> DEFINE r == [w EXCEPT !.lockedWin = @ + win]
  <2>1. creditWin(w, win, open) = r
    BY <1>1 DEF creditWin
  <2>2. /\ w.pointFree \in Nat /\ w.compFree \in Nat
        /\ w.lockedDeposit \in Nat /\ w.lockedWin \in Nat
    BY DEF Wallet, Bucket
  <2>3. r \in Wallet /\ r.lockedWin = w.lockedWin + win
    BY <2>2 DEF Wallet, Bucket
  <2>4. r.pointFree = w.pointFree /\ r.compFree = w.compFree /\ r.lockedDeposit = w.lockedDeposit
    BY DEF Wallet, Bucket
  <2> HIDE DEF r
  <2>5. QED
    BY <2>1, <2>2, <2>3, <2>4 DEF totalFromBuckets
<1>2. CASE ~(win > 0 /\ open)
  BY <1>2, CreditLockedDeposit DEF creditWin
<1>3. QED
  BY <1>1, <1>2

-----------------------------------------------------------------------------
(* The invariant *)

\* A row that is about to be inserted, and what its callback will write.
PostSafe(x) ==
    /\ x.next \in Wallet
    /\ x.row.kind # "NONE" /\ ~x.row.cancelled /\ ~x.row.refunded

\* What is undone exists, and once it is undone the credit no longer has it; a
\* refund gives back no negative amount.
FindSafe(x) == Exists(x.tid) /\ (IsCancel(x) \/ x.amount \in Nat)

ReturnSafe(x) ==
    /\ x.next \in Wallet
    /\ IsCancel(x) \/ x.amount \in Nat
    /\ Exists(x.tid)
    /\ x.undone => reserve[x.tid] # "applied"

ConnSafe(x) ==
    /\ x \in Posting => PostSafe(x)
    /\ x \in Finding => FindSafe(x)
    /\ x \in Returning => ReturnSafe(x)

IInv ==
    /\ TypeOK
    /\ WalletSound
    /\ CreditUndoneFirst
    /\ OncePerTid
    /\ \A t \in Tid : ~Exists(t) => applied[t] = 0 /\ ~casinoTx[t].cancelled /\ ~casinoTx[t].refunded
    /\ \A c \in Conn : ConnSafe(conn[c])

-----------------------------------------------------------------------------
(* Small facts *)

\* What a pending callback is, is told by its op.
LEMMA ConnCases ==
    ASSUME TypeOK, NEW c \in Conn
    PROVE  /\ conn[c].op = "post" => conn[c] \in Posting
           /\ conn[c].op = "find" => conn[c] \in Finding
           /\ conn[c].op = "return" => conn[c] \in Returning
BY DEF TypeOK, Idle, Posting, Finding, Returning

\* The four kinds of pending callback exclude each other.
LEMMA KindsDiffer ==
    ASSUME NEW x
    PROVE  /\ x = Idle => x \notin Posting /\ x \notin Finding /\ x \notin Returning
           /\ x \in Posting => x \notin Finding /\ x \notin Returning
           /\ x \in Finding => x \notin Posting /\ x \notin Returning
           /\ x \in Returning => x \notin Posting /\ x \notin Finding
BY DEF Idle, Posting, Finding, Returning

\* One callback changes what it has read; the others keep theirs.
LEMMA OneConn ==
    ASSUME TypeOK, NEW c \in Conn, NEW v, conn' = [conn EXCEPT ![c] = v]
    PROVE  conn'[c] = v /\ \A d \in Conn \ {c} : conn'[d] = conn[d]
BY DEF TypeOK

\* The order of a row is a number.
LEMMA OrderType == NextOrder \in Nat
<1>1. IsFiniteSet({t \in Tid : Exists(t)})
  BY FS_Subset, CallbackAssumption DEF CallbackAssumption
<1>2. QED
  BY <1>1, FS_CardinalityType DEF NextOrder

\* The total of a wallet that is not overdrawn is a number.
LEMMA TotalType == ASSUME NEW w \in Wallet PROVE totalFromBuckets(w) \in Nat
BY DEF Wallet, Bucket, totalFromBuckets

\* A wallet row that is not overdrawn is well typed.
LEMMA WalletType == Wallet \subseteq WalletState
BY DEF Wallet, WalletState

\* Initially nothing is stored, read or undone.
LEMMA InitIInv == Init => IInv
<1> SUFFICES ASSUME Init PROVE IInv
  OBVIOUS
<1>1. wallet \in Wallet /\ balance = totalFromBuckets(wallet)
  <2>1. Empty \in Wallet /\ Deposit \in Nat /\ Comp \in Nat
    BY CallbackAssumption DEF CallbackAssumption, Empty, Wallet
  <2>2. wallet \in Wallet
    BY <2>1 DEF Init, Wallet, Bucket
  <2>3. /\ wallet.lockedDeposit = Deposit /\ wallet.compFree = Comp
        /\ wallet.lockedWin = 0 /\ wallet.pointFree = 0
    BY DEF Init, Empty, Bucket
  <2>4. QED
    BY <2>1, <2>2, <2>3 DEF Init, totalFromBuckets
<1>2. TypeOK
  <2>1. NoRow \in TxRow
    BY DEF NoRow, TxRow, Kind
  <2>2. balance \in Int /\ rolling \in Nat
    BY CallbackAssumption DEF CallbackAssumption, Init
  <2>3. QED
    BY <1>1, <2>1, <2>2, WalletType DEF Init, TypeOK
<1>3. \A c \in Conn : ConnSafe(conn[c])
  BY KindsDiffer DEF Init, ConnSafe
<1>4. QED
  BY <1>1, <1>2, <1>3
  DEF Init, IInv, WalletSound, CreditUndoneFirst, OncePerTid, Exists, NoRow

-----------------------------------------------------------------------------
(* Steps that only read *)

\* A step that stores nothing keeps the invariant when what it has read is safe.
LEMMA ReadStep ==
    ASSUME IInv, NEW c \in Conn, NEW v \in {Idle} \cup Posting \cup Finding \cup Returning,
           ConnSafe(v), conn' = [conn EXCEPT ![c] = v], UNCHANGED stored
    PROVE  IInv'
<1>1. TypeOK
  BY DEF IInv
<1>2. conn'[c] = v /\ \A d \in Conn \ {c} : conn'[d] = conn[d]
  BY <1>1, OneConn
<1>3. TypeOK'
  BY <1>1 DEF TypeOK, stored
<1>4. ASSUME NEW d \in Conn PROVE ConnSafe(conn[d])'
  <2>1. CASE d = c
    BY <1>2, <2>1 DEF ConnSafe, PostSafe, FindSafe, ReturnSafe, IsCancel, Exists, stored
  <2>2. CASE d # c
    BY <1>2, <2>2 DEF IInv, ConnSafe, PostSafe, FindSafe, ReturnSafe, IsCancel, Exists, stored
  <2>3. QED
    BY <2>1, <2>2
<1>5. QED
  BY <1>3, <1>4 DEF IInv, WalletSound, CreditUndoneFirst, OncePerTid, Exists, stored

\* A bet, win or bonus reads what it will write.
LEMMA PostRead ==
    ASSUME IInv, NEW c \in Conn, NEW tid \in Tid, NEW command, NEW row \in TxRow,
           NEW next \in Wallet, NEW amount \in Int, Read(c, command, tid, row, next, amount),
           row.kind # "NONE", ~row.cancelled, ~row.refunded
    PROVE  IInv'
<1> DEFINE x == [op |-> "post", tid |-> tid, row |-> row, next |-> next, amount |-> amount]
<1>1. x \in Posting
  BY WalletType DEF Posting
<1>2. ConnSafe(x)
  BY <1>1, KindsDiffer DEF ConnSafe, PostSafe
<1>3. conn' = [conn EXCEPT ![c] = x] /\ UNCHANGED stored
  BY DEF Read
<1> HIDE DEF x
<1>4. QED
  BY <1>1, <1>2, <1>3, ReadStep

LEMMA BetStep == ASSUME IInv, NEW c \in Conn, NEW tid \in Tid, Bet(c, tid) PROVE IInv'
<1>1. PICK stake \in Stakes :
        /\ Covers(wallet, stake)
        /\ Read(c, "bet", tid, [NoRow EXCEPT !.kind = "BET", !.stake = stake],
                deductStake(wallet, stake), -stake)
  BY DEF Bet
<1>2. stake \in Nat /\ wallet \in Wallet
  BY CallbackAssumption DEF CallbackAssumption, IInv, WalletSound
<1>3. deductStake(wallet, stake) \in Wallet
  BY <1>1, <1>2, DeductStakeSpends
<1> DEFINE row == [NoRow EXCEPT !.kind = "BET", !.stake = stake]
<1>4. row \in TxRow /\ row.kind # "NONE" /\ ~row.cancelled /\ ~row.refunded
  BY <1>2 DEF NoRow, TxRow, Kind
<1>5. Read(c, "bet", tid, row, deductStake(wallet, stake), -stake) /\ -stake \in Int
  BY <1>1, <1>2
<1> HIDE DEF row
<1>6. QED
  BY <1>3, <1>4, <1>5, PostRead

LEMMA BetWinStep == ASSUME IInv, NEW c \in Conn, NEW tid \in Tid, BetWin(c, tid) PROVE IInv'
<1>1. PICK bet \in Stakes, win \in Payouts :
        /\ Covers(wallet, bet)
        /\ Read(c, "bet-win", tid,
                [NoRow EXCEPT !.kind = "BET_WIN", !.stake = bet, !.payout = win],
                applyBetAndWin(wallet, bet, win, openRolling), win - bet)
  BY DEF BetWin
<1>2. bet \in Nat /\ win \in Nat /\ wallet \in Wallet /\ openRolling \in BOOLEAN
  BY CallbackAssumption DEF CallbackAssumption, IInv, WalletSound, openRolling
<1>3. deductStake(wallet, bet) \in Wallet
  BY <1>1, <1>2, DeductStakeSpends
<1>4. applyBetAndWin(wallet, bet, win, openRolling) \in Wallet
  BY <1>2, <1>3, CreditWin DEF applyBetAndWin
<1> DEFINE row == [NoRow EXCEPT !.kind = "BET_WIN", !.stake = bet, !.payout = win]
<1>5. row \in TxRow /\ row.kind # "NONE" /\ ~row.cancelled /\ ~row.refunded
  BY <1>2 DEF NoRow, TxRow, Kind
<1>6. /\ Read(c, "bet-win", tid, row, applyBetAndWin(wallet, bet, win, openRolling), win - bet)
      /\ win - bet \in Int
  BY <1>1, <1>2
<1> HIDE DEF row
<1>7. QED
  BY <1>4, <1>5, <1>6, PostRead

LEMMA CreditStep ==
    ASSUME IInv, NEW c \in Conn, NEW tid \in Tid, Win(c, tid) \/ Bonus(c, tid)
    PROVE  IInv'
<1>1. PICK amount \in Payouts, kind \in {"WIN", "BONUS"}, command \in {"win", "bonus"} :
        Read(c, command, tid, [NoRow EXCEPT !.kind = kind, !.payout = amount],
             creditWin(wallet, amount, openRolling), amount)
  BY DEF Win, Bonus
<1>2. amount \in Nat /\ wallet \in Wallet /\ openRolling \in BOOLEAN
  BY CallbackAssumption DEF CallbackAssumption, IInv, WalletSound, openRolling
<1>3. creditWin(wallet, amount, openRolling) \in Wallet
  BY <1>2, CreditWin
<1> DEFINE row == [NoRow EXCEPT !.kind = kind, !.payout = amount]
<1>4. row \in TxRow /\ row.kind # "NONE" /\ ~row.cancelled /\ ~row.refunded
  BY <1>2 DEF NoRow, TxRow, Kind
<1>5. Read(c, command, tid, row, creditWin(wallet, amount, openRolling), amount)
  BY <1>1
<1> HIDE DEF row
<1>6. QED
  BY <1>2, <1>3, <1>4, <1>5, PostRead

LEMMA FindStep ==
    ASSUME IInv, NEW c \in Conn, NEW tid \in Tid, FindCancelled(c, tid) \/ FindRefunded(c, tid)
    PROVE  IInv'
<1>1. CASE FindCancelled(c, tid)
  <2> DEFINE x == [op |-> "find", tid |-> tid, refundTid |-> tid, amount |-> 0]
  <2>1. x \in Finding /\ x.tid = tid /\ IsCancel(x)
    BY DEF Finding, IsCancel
  <2>2. conn' = [conn EXCEPT ![c] = x] /\ UNCHANGED stored /\ Exists(tid)
    BY <1>1 DEF FindCancelled
  <2> HIDE DEF x
  <2>3. ConnSafe(x)
    BY <2>1, <2>2, KindsDiffer DEF ConnSafe, FindSafe
  <2>4. QED
    BY <2>1, <2>2, <2>3, ReadStep
<1>2. CASE FindRefunded(c, tid)
  <2>1. PICK bet \in OpenBets, amount \in Stakes :
          /\ UNCHANGED stored
          /\ conn' = [conn EXCEPT ![c] = [op |-> "find", tid |-> bet, refundTid |-> tid,
                                          amount |-> Smaller(casinoTx[bet].stake, amount)]]
    BY <1>2 DEF FindRefunded
  <2>2. bet \in Tid /\ Exists(bet) /\ casinoTx[bet] \in TxRow /\ amount \in Nat
    BY CallbackAssumption DEF CallbackAssumption, OpenBets, Exists, IInv, TypeOK
  <2>3. Smaller(casinoTx[bet].stake, amount) \in Nat
    BY <2>2 DEF Smaller, TxRow
  <2> DEFINE x == [op |-> "find", tid |-> bet, refundTid |-> tid,
                   amount |-> Smaller(casinoTx[bet].stake, amount)]
  <2>4. x \in Finding /\ x.tid = bet /\ x.amount \in Nat
    BY <2>2, <2>3 DEF Finding
  <2>5. conn' = [conn EXCEPT ![c] = x]
    BY <2>1
  <2> HIDE DEF x
  <2>6. ConnSafe(x)
    BY <2>2, <2>4, KindsDiffer DEF ConnSafe, FindSafe
  <2>7. QED
    BY <2>1, <2>4, <2>5, <2>6, ReadStep
<1>3. QED
  BY <1>1, <1>2

LEMMA ReadReturnStep == ASSUME IInv, NEW c \in Conn, ReadReturn(c) PROVE IInv'
<1>1. /\ conn[c] \in Finding /\ Exists(conn[c].tid)
      /\ IsCancel(conn[c]) \/ conn[c].amount \in Nat
  BY ConnCases DEF ReadReturn, IInv, ConnSafe, FindSafe
<1>2. PICK delta :
        /\ delta = IF IsCancel(conn[c]) THEN CancelDelta(casinoTx[conn[c].tid]) ELSE conn[c].amount
        /\ Covers(wallet, Debit(delta))
        /\ conn' = [conn EXCEPT ![c] =
                      [op |-> "return", tid |-> conn[c].tid, refundTid |-> conn[c].refundTid,
                       amount |-> delta, next |-> applyCancelOrRefundDelta(wallet, delta),
                       undone |-> FALSE]]
        /\ UNCHANGED stored
  BY DEF ReadReturn
<1>3. casinoTx[conn[c].tid] \in TxRow /\ conn[c].amount \in Int
  BY <1>1 DEF Finding, IInv, TypeOK
<1>4. CancelDelta(casinoTx[conn[c].tid]) \in Int
  BY <1>3 DEF CancelDelta, TxRow
<1>5. delta \in Int
  BY <1>2, <1>3, <1>4
<1>6. wallet \in Wallet /\ Debit(delta) \in Nat
  BY <1>5 DEF IInv, WalletSound, Debit
<1>7. applyCancelOrRefundDelta(wallet, delta) \in Wallet
  BY <1>2, <1>5, <1>6, DeductStakeSpends, CreditLockedDeposit
  DEF applyCancelOrRefundDelta, refundToLockedDeposit
<1> DEFINE x == [op |-> "return", tid |-> conn[c].tid, refundTid |-> conn[c].refundTid,
                 amount |-> delta, next |-> applyCancelOrRefundDelta(wallet, delta),
                 undone |-> FALSE]
<1>8. /\ x \in Returning /\ x.next \in Wallet /\ x.tid = conn[c].tid /\ ~x.undone
      /\ IsCancel(x) \/ x.amount \in Nat
  BY <1>1, <1>2, <1>5, <1>7, WalletType DEF Finding, Returning, IsCancel
<1>9. conn' = [conn EXCEPT ![c] = x]
  BY <1>2
<1> HIDE DEF x
<1>10. ConnSafe(x)
  BY <1>1, <1>8, KindsDiffer DEF ConnSafe, ReturnSafe
<1>11. QED
  BY <1>2, <1>8, <1>9, <1>10, ReadStep

LEMMA AbortStep == ASSUME IInv, NEW c \in Conn, Abort(c) PROVE IInv'
<1>1. ConnSafe(Idle)
  BY KindsDiffer DEF ConnSafe
<1>2. QED
  BY <1>1, ReadStep DEF Abort

-----------------------------------------------------------------------------
(* Steps that store *)

\* What the other callbacks have read stays safe, as long as no row vanishes
\* and no credit of a stored row is taken again.
LEMMA OthersSafe ==
    ASSUME IInv, NEW c \in Conn, NEW v, conn' = [conn EXCEPT ![c] = v],
           \A t \in Tid : Exists(t) => Exists(t)' /\ (reserve[t] # "applied" => reserve'[t] # "applied")
    PROVE  \A d \in Conn \ {c} : ConnSafe(conn[d])'
<1> TAKE d \in Conn \ {c}
<1>1. conn'[d] = conn[d] /\ ConnSafe(conn[d])
  BY OneConn DEF IInv
<1>2. conn[d] \in Finding \/ conn[d] \in Returning => conn[d].tid \in Tid
  BY DEF Finding, Returning
<1>3. QED
  BY <1>1, <1>2 DEF ConnSafe, PostSafe, FindSafe, ReturnSafe, IsCancel, Exists

\* What a step leaves in the wallet row is sound when what was read is.
LEMMA PersistSafe ==
    ASSUME NEW next \in Wallet, Persist(next)
    PROVE  WalletSound' /\ wallet' \in WalletState /\ balance' \in Int
BY TotalType, WalletType DEF Persist, WalletSound, totalFromBuckets

LEMMA ConfirmStep == ASSUME IInv, NEW tid \in Tid, Confirm(tid) PROVE IInv'
<1> DEFINE row == [NoRow EXCEPT !.kind = "CONFIRM", !.order = NextOrder]
<1>1. /\ row \in TxRow /\ row.kind # "NONE" /\ ~row.cancelled /\ ~row.refunded
  BY OrderType DEF NoRow, TxRow, Kind
<1>2. casinoTx' = [casinoTx EXCEPT ![tid] = row]
  BY DEF Confirm
<1> HIDE DEF row
<1>3. /\ casinoTx' \in [Tid -> TxRow] /\ casinoTx'[tid] = row
      /\ \A t \in Tid \ {tid} : casinoTx'[t] = casinoTx[t]
  BY <1>1, <1>2 DEF IInv, TypeOK
<1>4. /\ applied' \in [Tid -> Nat] /\ applied'[tid] = 1
      /\ \A t \in Tid \ {tid} : applied'[t] = applied[t]
  BY DEF Confirm, IInv, TypeOK
<1>5. TypeOK'
  BY <1>3, <1>4 DEF Confirm, IInv, TypeOK
<1>6. WalletSound' /\ CreditUndoneFirst' /\ OncePerTid'
  <2>1. WalletSound'
    BY DEF Confirm, IInv, WalletSound
  <2>2. reserve' = reserve /\ CreditUndoneFirst /\ OncePerTid
    BY DEF Confirm, IInv
  <2>3. QED
    BY <1>1, <1>3, <1>4, <2>1, <2>2 DEF CreditUndoneFirst, OncePerTid
<1>7. \A t \in Tid :
        (~Exists(t) => applied[t] = 0 /\ ~casinoTx[t].cancelled /\ ~casinoTx[t].refunded)'
  BY <1>1, <1>3, <1>4 DEF IInv, Exists
<1>8. \A t \in Tid : Exists(t) => Exists(t)'
  BY <1>1, <1>3 DEF Exists
<1>9. ASSUME NEW d \in Conn PROVE ConnSafe(conn[d])'
  <2>1. conn[d] \in Finding \/ conn[d] \in Returning => conn[d].tid \in Tid
    BY DEF Finding, Returning
  <2>2. ConnSafe(conn[d]) /\ conn' = conn /\ reserve' = reserve
    BY DEF IInv, Confirm
  <2>3. QED
    BY <1>8, <2>1, <2>2 DEF ConnSafe, PostSafe, FindSafe, ReturnSafe, IsCancel, Exists
<1>10. QED
  BY <1>5, <1>6, <1>7, <1>9 DEF IInv

LEMMA CommitPostStep == ASSUME IInv, NEW c \in Conn, CommitPost(c) PROVE IInv'
<1> DEFINE tid == conn[c].tid
           row == [conn[c].row EXCEPT !.order = NextOrder]
<1>1. /\ conn[c] \in Posting /\ PostSafe(conn[c]) /\ tid \in Tid /\ ~Exists(tid)
      /\ Carry(c, tid, conn[c].row)
  BY ConnCases DEF CommitPost, IInv, ConnSafe, Posting
<1>2. conn[c].row \in TxRow /\ conn[c].amount \in Int /\ conn[c].next \in Wallet
  BY <1>1 DEF Posting, PostSafe
<1>3. row \in TxRow /\ row.kind # "NONE" /\ ~row.cancelled /\ ~row.refunded
  BY <1>1, <1>2, OrderType DEF TxRow, PostSafe
<1>4. casinoTx' = [casinoTx EXCEPT ![tid] = row]
  BY <1>1 DEF Carry
<1> HIDE DEF tid, row
<1>5. /\ casinoTx' \in [Tid -> TxRow] /\ casinoTx'[tid] = row
      /\ \A t \in Tid \ {tid} : casinoTx'[t] = casinoTx[t]
  BY <1>1, <1>3, <1>4 DEF IInv, TypeOK
<1>6. /\ applied' \in [Tid -> Nat] /\ applied'[tid] = 1
      /\ \A t \in Tid \ {tid} : applied'[t] = applied[t]
  BY <1>1 DEF Carry, IInv, TypeOK
<1>7. /\ reserve' \in [Tid -> {"none", "applied", "rolledBack"}]
      /\ \A t \in Tid \ {tid} : reserve'[t] = reserve[t]
  BY <1>1 DEF Carry, ReserveEffect, IInv, TypeOK
<1>8. rolling' \in Nat
  BY <1>1, <1>2 DEF Carry, Turned, Smaller, TxRow, IInv, TypeOK
<1>9. ledger' \in Int /\ effect' \in [Tid -> Int]
  BY <1>1, <1>2 DEF Carry, Enter, IInv, TypeOK
<1>10. WalletSound' /\ wallet' \in WalletState /\ balance' \in Int
  BY <1>1, <1>2, PersistSafe DEF Carry
<1>11. conn' = [conn EXCEPT ![c] = Idle]
  BY <1>1 DEF Carry
<1>12. TypeOK'
  BY <1>5, <1>6, <1>7, <1>8, <1>9, <1>10, <1>11 DEF IInv, TypeOK
<1>13. CreditUndoneFirst' /\ OncePerTid'
  BY <1>3, <1>5, <1>6, <1>7 DEF IInv, CreditUndoneFirst, OncePerTid
<1>14. \A t \in Tid :
         (~Exists(t) => applied[t] = 0 /\ ~casinoTx[t].cancelled /\ ~casinoTx[t].refunded)'
  BY <1>3, <1>5, <1>6 DEF IInv, Exists
<1>15. \A t \in Tid : Exists(t) => Exists(t)' /\ (reserve[t] # "applied" => reserve'[t] # "applied")
  BY <1>1, <1>5, <1>7 DEF Exists
<1>16. \A d \in Conn : ConnSafe(conn[d])'
  <2>1. conn'[c] = Idle
    BY <1>11, OneConn DEF IInv
  <2>2. ConnSafe(conn[c])'
    BY <2>1, KindsDiffer DEF ConnSafe
  <2>3. QED
    BY <1>11, <1>15, <2>2, OthersSafe
<1>17. QED
  BY <1>10, <1>12, <1>13, <1>14, <1>16 DEF IInv

LEMMA UndoReserveStep == ASSUME IInv, NEW c \in Conn, UndoReserve(c) PROVE IInv'
<1> DEFINE tid == conn[c].tid
           x == [conn[c] EXCEPT !.undone = TRUE]
<1>1. /\ conn[c] \in Returning /\ ReturnSafe(conn[c]) /\ tid \in Tid
      /\ reserve' = [reserve EXCEPT ![tid] = IF @ = "applied" THEN "rolledBack" ELSE @]
      /\ conn' = [conn EXCEPT ![c] = x]
  BY ConnCases DEF UndoReserve, IInv, ConnSafe, Returning, TypeOK
<1>2. /\ x \in Returning /\ x.next \in Wallet /\ x.tid = tid /\ Exists(tid)
      /\ IsCancel(x) \/ x.amount \in Nat
  BY <1>1 DEF Returning, ReturnSafe, IsCancel
<1> HIDE DEF tid, x
<1>3. /\ reserve' \in [Tid -> {"none", "applied", "rolledBack"}] /\ reserve'[tid] # "applied"
      /\ \A t \in Tid : reserve[t] # "applied" => reserve'[t] # "applied"
  BY <1>1 DEF IInv, TypeOK
<1>4. UNCHANGED <<wallet, balance, casinoTx, rolling, ledger, effect, applied>>
  BY DEF UndoReserve
<1>5. TypeOK'
  BY <1>1, <1>2, <1>3, <1>4 DEF IInv, TypeOK
<1>6. WalletSound' /\ CreditUndoneFirst' /\ OncePerTid'
  BY <1>3, <1>4 DEF IInv, WalletSound, CreditUndoneFirst, OncePerTid
<1>7. \A t \in Tid :
        (~Exists(t) => applied[t] = 0 /\ ~casinoTx[t].cancelled /\ ~casinoTx[t].refunded)'
  BY <1>4 DEF IInv, Exists
<1>8. \A d \in Conn : ConnSafe(conn[d])'
  <2>1. conn'[c] = x
    BY <1>1, OneConn DEF IInv
  <2>2. ConnSafe(conn[c])'
    BY <1>2, <1>3, <1>4, <2>1, KindsDiffer DEF ConnSafe, ReturnSafe, IsCancel, Exists
  <2>3. \A t \in Tid : Exists(t) => Exists(t)' /\ (reserve[t] # "applied" => reserve'[t] # "applied")
    BY <1>3, <1>4 DEF Exists
  <2>4. QED
    BY <1>1, <2>2, <2>3, OthersSafe
<1>9. QED
  BY <1>5, <1>6, <1>7, <1>8 DEF IInv

LEMMA CommitCancelStep == ASSUME IInv, NEW c \in Conn, CommitCancel(c) PROVE IInv'
<1> DEFINE tid == conn[c].tid
<1>1. /\ conn[c] \in Returning /\ ReturnSafe(conn[c]) /\ tid \in Tid /\ conn[c].undone
      /\ casinoTx' = [casinoTx EXCEPT ![tid].cancelled = TRUE]
      /\ Persist(conn[c].next) /\ Enter(tid, conn[c].amount)
      /\ conn' = [conn EXCEPT ![c] = Idle]
      /\ UNCHANGED <<rolling, reserve, applied>>
  BY ConnCases DEF CommitCancel, IInv, ConnSafe, Returning
<1>2. conn[c].amount \in Int /\ conn[c].next \in Wallet /\ Exists(tid) /\ reserve[tid] # "applied"
  BY <1>1 DEF Returning, ReturnSafe
<1> HIDE DEF tid
<1>3. /\ casinoTx' \in [Tid -> TxRow] /\ casinoTx'[tid].kind = casinoTx[tid].kind
      /\ \A t \in Tid \ {tid} : casinoTx'[t] = casinoTx[t]
  BY <1>1 DEF IInv, TypeOK, TxRow
<1>4. ledger' \in Int /\ effect' \in [Tid -> Int]
  BY <1>1, <1>2 DEF Enter, IInv, TypeOK
<1>5. WalletSound' /\ wallet' \in WalletState /\ balance' \in Int
  BY <1>1, <1>2, PersistSafe
<1>6. TypeOK'
  BY <1>1, <1>3, <1>4, <1>5 DEF IInv, TypeOK
<1>7. CreditUndoneFirst' /\ OncePerTid'
  BY <1>1, <1>2, <1>3 DEF IInv, CreditUndoneFirst, OncePerTid
<1>8. \A t \in Tid :
        (~Exists(t) => applied[t] = 0 /\ ~casinoTx[t].cancelled /\ ~casinoTx[t].refunded)'
  BY <1>1, <1>2, <1>3 DEF IInv, Exists
<1>9. \A t \in Tid : Exists(t) => Exists(t)' /\ (reserve[t] # "applied" => reserve'[t] # "applied")
  BY <1>1, <1>3 DEF Exists
<1>10. \A d \in Conn : ConnSafe(conn[d])'
  <2>1. conn'[c] = Idle
    BY <1>1, OneConn DEF IInv
  <2>2. ConnSafe(conn[c])'
    BY <2>1, KindsDiffer DEF ConnSafe
  <2>3. QED
    BY <1>1, <1>9, <2>2, OthersSafe
<1>11. QED
  BY <1>5, <1>6, <1>7, <1>8, <1>10 DEF IInv

LEMMA CommitRefundStep == ASSUME IInv, NEW c \in Conn, CommitRefund(c) PROVE IInv'
<1> DEFINE tid == conn[c].tid
           new == conn[c].refundTid
           row == [NoRow EXCEPT !.kind = "REFUND", !.stake = conn[c].amount, !.order = NextOrder]
<1>1. /\ conn[c] \in Returning /\ ReturnSafe(conn[c]) /\ tid \in Tid /\ new \in Tid /\ tid # new
      /\ conn[c].undone /\ ~Exists(new)
      /\ casinoTx' = [casinoTx EXCEPT ![tid].refunded = TRUE, ![new] = row]
      /\ Persist(conn[c].next) /\ Enter(tid, conn[c].amount)
      /\ applied' = [applied EXCEPT ![new] = @ + 1]
      /\ conn' = [conn EXCEPT ![c] = Idle]
      /\ UNCHANGED <<rolling, reserve>>
  BY ConnCases DEF CommitRefund, IInv, ConnSafe, Returning, IsCancel
<1>2. conn[c].amount \in Nat /\ conn[c].next \in Wallet /\ Exists(tid) /\ reserve[tid] # "applied"
  BY <1>1 DEF ReturnSafe, IsCancel
<1>3. row \in TxRow /\ row.kind # "NONE" /\ ~row.cancelled /\ ~row.refunded
  BY <1>2, OrderType DEF NoRow, TxRow, Kind
<1> HIDE DEF tid, new, row
<1>4. /\ casinoTx' \in [Tid -> TxRow] /\ casinoTx'[new] = row
      /\ casinoTx'[tid].kind = casinoTx[tid].kind
      /\ \A t \in Tid \ {tid, new} : casinoTx'[t] = casinoTx[t]
  BY <1>1, <1>3 DEF IInv, TypeOK, TxRow
<1>5. /\ applied' \in [Tid -> Nat] /\ applied'[new] = 1
      /\ \A t \in Tid \ {new} : applied'[t] = applied[t]
  BY <1>1 DEF IInv, TypeOK
<1>6. ledger' \in Int /\ effect' \in [Tid -> Int]
  BY <1>1, <1>2 DEF Enter, IInv, TypeOK
<1>7. WalletSound' /\ wallet' \in WalletState /\ balance' \in Int
  BY <1>1, <1>2, PersistSafe
<1>8. TypeOK'
  BY <1>1, <1>4, <1>5, <1>6, <1>7 DEF IInv, TypeOK
<1>9. CreditUndoneFirst' /\ OncePerTid'
  BY <1>1, <1>2, <1>3, <1>4, <1>5 DEF IInv, CreditUndoneFirst, OncePerTid
<1>10. \A t \in Tid :
         (~Exists(t) => applied[t] = 0 /\ ~casinoTx[t].cancelled /\ ~casinoTx[t].refunded)'
  BY <1>1, <1>2, <1>3, <1>4, <1>5 DEF IInv, Exists
<1>11. \A t \in Tid : Exists(t) => Exists(t)' /\ (reserve[t] # "applied" => reserve'[t] # "applied")
  BY <1>1, <1>3, <1>4 DEF Exists
<1>12. \A d \in Conn : ConnSafe(conn[d])'
  <2>1. conn'[c] = Idle
    BY <1>1, OneConn DEF IInv
  <2>2. ConnSafe(conn[c])'
    BY <2>1, KindsDiffer DEF ConnSafe
  <2>3. QED
    BY <1>1, <1>11, <2>2, OthersSafe
<1>13. QED
  BY <1>7, <1>8, <1>9, <1>10, <1>12 DEF IInv

-----------------------------------------------------------------------------
(* The theorems *)

LEMMA NextIInv == IInv /\ [Next]_vars => IInv'
<1> SUFFICES ASSUME IInv, [Next]_vars PROVE IInv'
  OBVIOUS
<1>1. ASSUME NEW c \in Conn, Post(c) PROVE IInv'
  BY <1>1, BetStep, BetWinStep, CreditStep, CommitPostStep DEF Post
<1>2. ASSUME NEW c \in Conn, Undo(c) PROVE IInv'
  BY <1>2, FindStep, ReadReturnStep, UndoReserveStep, CommitCancelStep, CommitRefundStep DEF Undo
<1>3. CASE UNCHANGED vars
  BY <1>3 DEF vars, IInv, TypeOK, WalletSound, CreditUndoneFirst, OncePerTid, Exists,
              ConnSafe, PostSafe, FindSafe, ReturnSafe
<1>4. QED
  BY <1>1, <1>2, <1>3, AbortStep, ConfirmStep DEF Next

LEMMA AlwaysIInv == Spec => []IInv
BY InitIInv, NextIInv, PTL DEF Spec

\* Every reachable state is well typed; in particular the turnover owed never
\* goes below zero (rolling-obligation.service.ts, applyBetStake).
THEOREM CasinoTypeCorrect == Spec => []TypeOK
<1>1. IInv => TypeOK
  BY DEF IInv
<1>2. QED
  BY <1>1, AlwaysIInv, PTL

\* However callbacks overlap, the balance is the sum of the buckets and none of
\* them is overdrawn (vinus.service.ts, handleCallback; wallet-buckets.service.ts).
THEOREM WalletAlwaysSound == Spec => []WalletSound
<1>1. IInv => WalletSound
  BY DEF IInv
<1>2. QED
  BY <1>1, AlwaysIInv, PTL

\* No delivery of a callback is carried out a second time (CasinoVinusTx).
THEOREM CarriedOutOnce == Spec => []OncePerTid
<1>1. IInv => OncePerTid
  BY DEF IInv
<1>2. QED
  BY <1>1, AlwaysIInv, PTL

\* A cancellation or refund that is stored has undone the effect on the
\* platform's credit before (vinus.service.ts, rollbackLedgerEvent).
THEOREM CreditAlwaysUndoneFirst == Spec => []CreditUndoneFirst
<1>1. IInv => CreditUndoneFirst
  BY DEF IInv
<1>2. QED
  BY <1>1, AlwaysIInv, PTL

-----------------------------------------------------------------------------
(* One callback after the other *)

\* One callback is open at most.
OneOpen == \A c, d \in Conn : conn[c] # Idle /\ conn[d] # Idle => c = d

\* What a callback will write is the present wallet moved by its amount, for a
\* bet by spending its stake.
Current(c) ==
    /\ conn[c].op \in {"post", "return"} => totalFromBuckets(conn[c].next) = balance + conn[c].amount
    /\ conn[c].op = "post" /\ conn[c].row.kind = "BET" =>
          /\ conn[c].row.stake \in Nat
          /\ Covers(wallet, conn[c].row.stake)
          /\ conn[c].next = deductStake(wallet, conn[c].row.stake)

Ordered == LedgerReconciles /\ OneOpen /\ \A c \in Conn : Current(c)

LEMMA IdleOp == Idle.op = "idle"
BY DEF Idle

\* A callback reads, and what it has read is current.
LEMMA ReadOrdered ==
    ASSUME TypeOK, Ordered, NEW c \in Conn, NEW v, conn' = [conn EXCEPT ![c] = v],
           UNCHANGED <<wallet, balance, ledger>>,
           \A d \in Conn \ {c} : conn[d] = Idle, Current(c)'
    PROVE  Ordered'
<1>1. \A d \in Conn \ {c} : conn'[d] = Idle
  BY OneConn
<1>2. OneOpen' /\ LedgerReconciles'
  BY <1>1 DEF OneOpen, Ordered, LedgerReconciles
<1>3. \A d \in Conn \ {c} : Current(d)'
  BY <1>1, IdleOp DEF Current
<1>4. QED
  BY <1>2, <1>3 DEF Ordered

\* A callback has written the wallet it prepared, and is done.
LEMMA WriteOrdered ==
    ASSUME IInv, Ordered, NEW c \in Conn, conn[c].op \in {"post", "return"}, NEW tid,
           Persist(conn[c].next), Enter(tid, conn[c].amount), conn' = [conn EXCEPT ![c] = Idle]
    PROVE  Ordered'
<1>1. conn[c] # Idle /\ conn[c].amount \in Int /\ balance \in Int /\ ledger \in Int
  BY ConnCases, IdleOp DEF IInv, TypeOK, Posting, Returning
<1>2. balance' = balance + conn[c].amount /\ ledger' = ledger + conn[c].amount
  BY DEF Ordered, Current, Persist, Enter
<1>3. LedgerReconciles'
  BY <1>1, <1>2, CallbackAssumption DEF CallbackAssumption, Ordered, LedgerReconciles
<1>4. \A d \in Conn : conn'[d] = Idle
  BY <1>1, OneConn DEF IInv, Ordered, OneOpen
<1>5. OneOpen' /\ \A d \in Conn : Current(d)'
  BY <1>4, IdleOp DEF OneOpen, Current
<1>6. QED
  BY <1>3, <1>5 DEF Ordered

\* A callback that has read the wallet for a row.
LEMMA PostOrdered ==
    ASSUME TypeOK, Ordered, NEW c \in Conn, \A d \in Conn \ {c} : conn[d] = Idle,
           NEW command, NEW tid, NEW row, NEW next, NEW amount,
           Read(c, command, tid, row, next, amount),
           totalFromBuckets(next) = balance + amount,
           row.kind = "BET" => /\ row.stake \in Nat
                               /\ Covers(wallet, row.stake)
                               /\ next = deductStake(wallet, row.stake)
    PROVE  Ordered'
<1> DEFINE x == [op |-> "post", tid |-> tid, row |-> row, next |-> next, amount |-> amount]
<1>1. conn' = [conn EXCEPT ![c] = x] /\ conn'[c] = x /\ UNCHANGED <<wallet, balance, ledger>>
  BY DEF Read, stored, TypeOK
<1>2. x.op = "post" /\ x.row = row /\ x.next = next /\ x.amount = amount
  OBVIOUS
<1> HIDE DEF x
<1>3. Current(c)'
  BY <1>1, <1>2 DEF Current, totalFromBuckets, Covers
<1>4. QED
  BY <1>1, <1>3, ReadOrdered

LEMMA ReadWalletOrdered ==
    ASSUME IInv, Ordered, NEW c \in Conn, \A d \in Conn \ {c} : conn[d] = Idle, NEW tid \in Tid,
           Bet(c, tid) \/ BetWin(c, tid) \/ Win(c, tid) \/ Bonus(c, tid)
    PROVE  Ordered'
<1>0. /\ TypeOK /\ wallet \in Wallet /\ openRolling \in BOOLEAN /\ balance \in Int
      /\ totalFromBuckets(wallet) = balance
  BY DEF IInv, WalletSound, TypeOK, openRolling
<1>1. CASE Bet(c, tid)
  <2> DEFINE row(stake) == [NoRow EXCEPT !.kind = "BET", !.stake = stake]
  <2>1. PICK stake \in Stakes :
          /\ Covers(wallet, stake)
          /\ Read(c, "bet", tid, row(stake), deductStake(wallet, stake), -stake)
    BY <1>1 DEF Bet
  <2>2. stake \in Nat /\ row(stake).stake = stake
    BY CallbackAssumption DEF CallbackAssumption, NoRow
  <2>3. totalFromBuckets(deductStake(wallet, stake)) = balance + (-stake)
    BY <1>0, <2>1, <2>2, DeductStakeSpends DEF SpendsInOrder
  <2> HIDE DEF row
  <2>4. QED
    BY <1>0, <2>1, <2>2, <2>3, PostOrdered
<1>2. CASE BetWin(c, tid)
  <2> DEFINE row(bet, win) == [NoRow EXCEPT !.kind = "BET_WIN", !.stake = bet, !.payout = win]
  <2>1. PICK bet \in Stakes, win \in Payouts :
          /\ Covers(wallet, bet)
          /\ Read(c, "bet-win", tid, row(bet, win),
                  applyBetAndWin(wallet, bet, win, openRolling), win - bet)
    BY <1>2 DEF BetWin
  <2>2. bet \in Nat /\ win \in Nat /\ row(bet, win).kind # "BET"
    BY CallbackAssumption DEF CallbackAssumption, NoRow
  <2>3. /\ deductStake(wallet, bet) \in Wallet
        /\ totalFromBuckets(deductStake(wallet, bet)) = balance - bet
    BY <1>0, <2>1, <2>2, DeductStakeSpends DEF SpendsInOrder
  <2>4. totalFromBuckets(applyBetAndWin(wallet, bet, win, openRolling)) = (balance - bet) + win
    BY <1>0, <2>2, <2>3, CreditWin DEF applyBetAndWin
  <2>5. totalFromBuckets(applyBetAndWin(wallet, bet, win, openRolling)) = balance + (win - bet)
    BY <1>0, <2>2, <2>4
  <2> HIDE DEF row
  <2>6. QED
    BY <1>0, <2>1, <2>2, <2>5, PostOrdered
<1>3. CASE Win(c, tid) \/ Bonus(c, tid)
  <2> DEFINE row(kind, amount) == [NoRow EXCEPT !.kind = kind, !.payout = amount]
  <2>1. PICK amount \in Payouts, kind \in {"WIN", "BONUS"}, command \in {"win", "bonus"} :
          Read(c, command, tid, row(kind, amount), creditWin(wallet, amount, openRolling), amount)
    BY <1>3 DEF Win, Bonus
  <2>2. amount \in Nat /\ row(kind, amount).kind # "BET"
    BY CallbackAssumption DEF CallbackAssumption, NoRow
  <2>3. totalFromBuckets(creditWin(wallet, amount, openRolling)) = balance + amount
    BY <1>0, <2>2, CreditWin
  <2> HIDE DEF row
  <2>4. QED
    BY <1>0, <2>1, <2>2, <2>3, PostOrdered
<1>4. QED
  BY <1>1, <1>2, <1>3

LEMMA ReadReturnOrdered ==
    ASSUME IInv, Ordered, NEW c \in Conn, \A d \in Conn \ {c} : conn[d] = Idle, ReadReturn(c)
    PROVE  Ordered'
<1>0. /\ TypeOK /\ wallet \in Wallet /\ balance \in Int /\ totalFromBuckets(wallet) = balance
  BY DEF IInv, WalletSound, TypeOK
<1>1. PICK delta :
        /\ delta = IF IsCancel(conn[c]) THEN CancelDelta(casinoTx[conn[c].tid]) ELSE conn[c].amount
        /\ Covers(wallet, Debit(delta))
        /\ conn' = [conn EXCEPT ![c] =
                      [op |-> "return", tid |-> conn[c].tid, refundTid |-> conn[c].refundTid,
                       amount |-> delta, next |-> applyCancelOrRefundDelta(wallet, delta),
                       undone |-> FALSE]]
        /\ UNCHANGED stored
  BY DEF ReadReturn
<1>2. conn[c].amount \in Int /\ casinoTx[conn[c].tid] \in TxRow
  BY <1>0, ConnCases DEF ReadReturn, Finding, TypeOK
<1>3. delta \in Int
  <2>1. CancelDelta(casinoTx[conn[c].tid]) \in Int
    BY <1>2 DEF CancelDelta, TxRow
  <2>2. QED
    BY <1>1, <1>2, <2>1
<1>4. totalFromBuckets(applyCancelOrRefundDelta(wallet, delta)) = balance + delta
  <2>1. CASE delta > 0
    BY <1>0, <1>3, <2>1, CreditLockedDeposit DEF applyCancelOrRefundDelta, refundToLockedDeposit
  <2>2. CASE ~(delta > 0)
    <3>1. Debit(delta) = -delta /\ Debit(delta) \in Nat
      BY <1>3, <2>2 DEF Debit
    <3>2. totalFromBuckets(deductStake(wallet, Debit(delta))) = balance - Debit(delta)
      BY <1>0, <1>1, <3>1, DeductStakeSpends DEF SpendsInOrder
    <3>3. QED
      BY <1>0, <1>3, <2>2, <3>1, <3>2 DEF applyCancelOrRefundDelta
  <2>3. QED
    BY <2>1, <2>2
<1> DEFINE x == [op |-> "return", tid |-> conn[c].tid, refundTid |-> conn[c].refundTid,
                 amount |-> delta, next |-> applyCancelOrRefundDelta(wallet, delta),
                 undone |-> FALSE]
<1>5. conn' = [conn EXCEPT ![c] = x] /\ conn'[c] = x /\ UNCHANGED <<wallet, balance, ledger>>
  BY <1>0, <1>1 DEF stored, TypeOK
<1>6. /\ x.op = "return" /\ x.amount = delta
      /\ x.next = applyCancelOrRefundDelta(wallet, delta)
  OBVIOUS
<1> HIDE DEF x
<1>7. Current(c)'
  BY <1>4, <1>5, <1>6 DEF Current, totalFromBuckets
<1>8. QED
  BY <1>0, <1>5, <1>7, ReadOrdered

\* Whatever else a callback does leaves the wallet alone.
LEMMA QuietOrdered ==
    ASSUME IInv, Ordered, NEW c \in Conn, \A d \in Conn \ {c} : conn[d] = Idle,
           \/ \E tid \in Tid : FindCancelled(c, tid) \/ FindRefunded(c, tid)
           \/ UndoReserve(c) \/ Abort(c)
    PROVE  Ordered'
<1>1. ASSUME NEW v, conn' = [conn EXCEPT ![c] = v], v.op \in {"idle", "find"},
             UNCHANGED <<wallet, balance, ledger>>
      PROVE  Ordered'
  <2>1. conn'[c] = v
    BY <1>1, OneConn DEF IInv
  <2>2. Current(c)'
    BY <1>1, <2>1 DEF Current
  <2>3. QED
    BY <1>1, <2>2, ReadOrdered DEF IInv
<1>2. CASE \E tid \in Tid : FindCancelled(c, tid) \/ FindRefunded(c, tid)
  BY <1>1, <1>2 DEF FindCancelled, FindRefunded, stored
<1>3. CASE Abort(c)
  BY <1>1, <1>3, IdleOp DEF Abort, stored
<1>4. CASE UndoReserve(c)
  <2>1. /\ conn[c] \in Returning
        /\ conn' = [conn EXCEPT ![c] = [conn[c] EXCEPT !.undone = TRUE]]
        /\ UNCHANGED <<wallet, balance, ledger>>
    BY <1>4, ConnCases DEF UndoReserve, IInv, TypeOK
  <2> DEFINE x == [conn[c] EXCEPT !.undone = TRUE]
  <2>2. x.op = conn[c].op /\ x.next = conn[c].next /\ x.amount = conn[c].amount /\ x.op = "return"
    BY <2>1 DEF Returning
  <2>3. conn'[c] = x
    BY <2>1, OneConn DEF IInv
  <2> HIDE DEF x
  <2>4. Current(c)'
    BY <2>1, <2>2, <2>3 DEF Ordered, Current, totalFromBuckets
  <2>5. QED
    BY <2>1, <2>4, ReadOrdered DEF IInv
<1>5. QED
  BY <1>2, <1>3, <1>4

SerialInv == IInv /\ (serial => Ordered)

LEMMA SerialInductive == SerialInv /\ [MCNext]_mcvars => SerialInv'
<1> SUFFICES ASSUME SerialInv, [MCNext]_mcvars PROVE SerialInv'
  OBVIOUS
<1>1. [Next]_vars
  BY DEF MCNext, mcvars, Next
<1>2. IInv'
  BY <1>1, NextIInv DEF SerialInv
<1>3. ASSUME serial PROVE Ordered'
  <2>0. IInv /\ Ordered
    BY <1>3 DEF SerialInv
  <2>1. ASSUME UNCHANGED <<wallet, balance, ledger, conn>> PROVE Ordered'
    BY <2>0, <2>1 DEF Ordered, LedgerReconciles, OneOpen, Current, totalFromBuckets, Covers
  <2>2. CASE UNCHANGED mcvars
    BY <2>1, <2>2 DEF mcvars, vars
  <2>3. ASSUME NEW tid \in Tid, Confirm(tid) PROVE Ordered'
    BY <2>1, <2>3 DEF Confirm
  <2>4. ASSUME NEW c \in Conn, MayStep(c), Post(c) \/ Undo(c) \/ Abort(c) PROVE Ordered'
    <3>1. \A d \in Conn \ {c} : conn[d] = Idle
      BY <1>3, <2>4 DEF MayStep
    <3>2. CASE CommitPost(c) \/ CommitCancel(c) \/ CommitRefund(c)
      BY <2>0, <3>2, WriteOrdered DEF CommitPost, Carry, CommitCancel, CommitRefund
    <3>3. QED
      BY <2>0, <2>4, <3>1, <3>2, ReadWalletOrdered, ReadReturnOrdered, QuietOrdered DEF Post, Undo
  <2>5. QED
    BY <2>2, <2>3, <2>4 DEF MCNext
<1>4. serial' = serial
  BY DEF MCNext, mcvars
<1>5. QED
  BY <1>2, <1>3, <1>4 DEF SerialInv

LEMMA SerialInit == MCInit => SerialInv
<1> SUFFICES ASSUME MCInit PROVE SerialInv
  OBVIOUS
<1>1. IInv
  BY InitIInv DEF MCInit
<1>2. LedgerReconciles
  BY CallbackAssumption DEF CallbackAssumption, MCInit, Init, LedgerReconciles
<1>3. OneOpen /\ \A c \in Conn : Current(c)
  BY IdleOp DEF MCInit, Init, OneOpen, Current
<1>4. QED
  BY <1>1, <1>2, <1>3 DEF SerialInv, Ordered

\* One callback after the other, the member has the money there was plus what the
\* ledger says (handleCallback; LedgerEntry in schema.prisma).
THEOREM CasinoReconciles == MCSpec => []SerialReconciles
<1>1. SerialInv => SerialReconciles
  BY DEF SerialInv, Ordered, SerialReconciles
<1>2. QED
  BY <1>1, SerialInit, SerialInductive, PTL DEF MCSpec

\* One callback after the other, a bet takes exactly its stake from the member's
\* wallet as it is, the free amounts before the locked ones (deductStake).
THEOREM SpendsFreeAmountsFirst == MCSpec => SerialSpendingOrder
<1>1. SerialInv /\ [MCNext]_mcvars => [serial => SpendingOrderStep]_vars
  <2> SUFFICES ASSUME SerialInv, serial PROVE SpendingOrderStep
    OBVIOUS
  <2>1. ASSUME NEW c \in Conn, CommitPost(c), conn[c].row.kind = "BET"
        PROVE  SpendsInOrder(wallet, conn[c].row.stake, wallet')
    <3>1. wallet' = conn[c].next /\ conn[c].op = "post" /\ wallet \in Wallet
      BY <2>1 DEF CommitPost, Carry, Persist, SerialInv, IInv, WalletSound
    <3>2. /\ conn[c].row.stake \in Nat /\ Covers(wallet, conn[c].row.stake)
          /\ conn[c].next = deductStake(wallet, conn[c].row.stake)
      BY <2>1, <3>1 DEF SerialInv, Ordered, Current
    <3>3. QED
      BY <3>1, <3>2, DeductStakeSpends
  <2>2. QED
    BY <2>1 DEF SpendingOrderStep
<1>2. QED
  BY <1>1, SerialInit, SerialInductive, PTL DEF MCSpec, SerialSpendingOrder

=============================================================================
