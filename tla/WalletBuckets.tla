----------------------------- MODULE WalletBuckets -----------------------------
(***************************************************************************)
(* The arithmetic of wallet-buckets.service.ts: a wallet is four amounts,  *)
(* and every payment, win, refund and withdrawal moves them by one of the  *)
(* operators below.  An amount that is zero or less changes nothing; a     *)
(* deduction the wallet cannot cover throws, so that whoever uses it has   *)
(* Covers as a guard.                                                      *)
(***************************************************************************)
EXTENDS Integers

Bucket == {"lockedDeposit", "lockedWin", "compFree", "pointFree"}

\* A wallet whose buckets are not overdrawn.
Wallet == [Bucket -> Nat]

Empty == [b \in Bucket |-> 0]

totalFromBuckets(w) == w.lockedDeposit + w.lockedWin + w.compFree + w.pointFree

\* What a member with an unfinished rolling obligation is shown as withdrawable.
withdrawableDisplay(w, rollingBlocked) ==
    IF rollingBlocked THEN w.compFree + w.pointFree ELSE totalFromBuckets(w)

Covers(w, need) == need <= totalFromBuckets(w)

Smaller(a, b) == IF a <= b THEN a ELSE b

\* Mutant: the deposit is spent before the free amounts.
deductStakeLockedFirst(w, stake) ==
    LET fromDeposit == Smaller(w.lockedDeposit, stake)
        fromWin == Smaller(w.lockedWin, stake - fromDeposit)
        fromPoint == Smaller(w.pointFree, stake - fromDeposit - fromWin)
        fromComp == Smaller(w.compFree, stake - fromDeposit - fromWin - fromPoint)
    IN  [w EXCEPT !.pointFree = @ - fromPoint, !.compFree = @ - fromComp,
                  !.lockedDeposit = @ - fromDeposit, !.lockedWin = @ - fromWin]

\* A stake or a withdrawal is taken from the points, then the comps, then the
\* deposit, then the wins.
deductStake(w, stake) ==
    LET fromPoint == Smaller(w.pointFree, stake)
        fromComp == Smaller(w.compFree, stake - fromPoint)
        fromDeposit == Smaller(w.lockedDeposit, stake - fromPoint - fromComp)
        fromWin == Smaller(w.lockedWin, stake - fromPoint - fromComp - fromDeposit)
    IN  IF stake <= 0 THEN w
        ELSE [w EXCEPT !.pointFree = @ - fromPoint, !.compFree = @ - fromComp,
                       !.lockedDeposit = @ - fromDeposit, !.lockedWin = @ - fromWin]

\* Deposits and bonuses go to the deposit, and so does what is paid back.
creditLockedDeposit(w, amt) ==
    IF amt <= 0 THEN w ELSE [w EXCEPT !.lockedDeposit = @ + amt]

refundToLockedDeposit(w, amt) == creditLockedDeposit(w, amt)

\* A win stays locked while a rolling obligation is open.
creditWin(b, win, openRolling) ==
    IF win > 0 /\ openRolling THEN [b EXCEPT !.lockedWin = @ + win]
    ELSE creditLockedDeposit(b, win)

\* What the wallet must cover for an amount that may be negative.
Debit(delta) == IF delta < 0 THEN -delta ELSE 0

applyBetAndWin(w, bet, win, openRolling) == creditWin(deductStake(w, bet), win, openRolling)

\* Mutant: a negative delta pays out instead of charging.
applyCancelOrRefundDeltaUnsigned(w, delta) ==
    refundToLockedDeposit(w, IF delta < 0 THEN -delta ELSE delta)

applyCancelOrRefundDelta(w, delta) ==
    IF delta > 0 THEN refundToLockedDeposit(w, delta) ELSE deductStake(w, Debit(delta))

applySportsBetChangeDelta(w, delta) ==
    IF delta > 0 THEN deductStake(w, delta) ELSE refundToLockedDeposit(w, Debit(delta))

applySignedPayout(w, payout, openRolling) ==
    IF payout > 0 THEN creditWin(w, payout, openRolling) ELSE deductStake(w, Debit(payout))

-----------------------------------------------------------------------------
(* What a deduction promises *)

SpendOrder == <<"pointFree", "compFree", "lockedDeposit", "lockedWin">>

\* r is w after spending: it lacks exactly the amount, no bucket grew or went
\* below zero, and a bucket was touched only when those before it are empty.
\* There is one such r.
SpendsInOrder(w, amount, r) ==
    /\ totalFromBuckets(r) = totalFromBuckets(w) - amount
    /\ \A b \in Bucket : 0 <= r[b] /\ r[b] <= w[b]
    /\ \A i, j \in 1..4 : i < j /\ r[SpendOrder[j]] < w[SpendOrder[j]] => r[SpendOrder[i]] = 0

=============================================================================
