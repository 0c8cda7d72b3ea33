---------------------------- MODULE CasinoCallback ----------------------------
(***************************************************************************)
(* The casino callbacks of vinus.service.ts (handleCallback): the vendor   *)
(* reports bets, wins, cancellations and refunds of one member, each with  *)
(* a transaction id, and each moves the member's wallet.                   *)
(*                                                                         *)
(* A callback reads the wallet row, computes the new buckets from what it  *)
(* read and writes them back as absolute values, in one transaction at     *)
(* READ COMMITTED.  It is a read step and a commit step here.  Cancel and  *)
(* refund read the transaction they undo first, and in between undo its    *)
(* effect on the platform's credit (ReserveBalance) through a connection   *)
(* of their own, which commits on its own.                                 *)
(*                                                                         *)
(* The sports commands without a reservation behave as their casino        *)
(* counterparts, but leave the platform's credit alone.  All commands of   *)
(* sports, and the refund of a bet of sports, are in SportsReservation.    *)
(***************************************************************************)
EXTENDS WalletBuckets, FiniteSets

CONSTANTS
    Conn,      \* callbacks that may be handled at once
    Tid,       \* transaction ids the vendor uses
    Stakes,    \* amounts of a bet
    Payouts,   \* amounts of a win; 0 is a lost round
    Commands,  \* the commands the vendor sends
    Deposit,   \* lockedDeposit at the start
    Comp,      \* compFree at the start
    Turnover   \* what is left of a rolling obligation at the start

ASSUME CallbackAssumption ==
    /\ IsFiniteSet(Tid)
    /\ Stakes \subseteq Nat \ {0}
    /\ Payouts \subseteq Nat
    /\ Commands \subseteq {"bet", "bet-win", "win", "bonus", "confirm", "cancel", "refund"}
    /\ Deposit \in Nat /\ Comp \in Nat /\ Turnover \in Nat

VARIABLES
    wallet,     \* the four buckets of the member
    balance,    \* Wallet.balance
    casinoTx,   \* the row CasinoVinusTx of each transaction id
    rolling,    \* turnover the member still owes
    reserve,    \* what each transaction has done to the platform's credit
    ledger,     \* sum of the LedgerEntry amounts
    effect,     \* the same sum for each transaction and what undid it
    applied,    \* how often a callback with each id has been carried out
    conn        \* what each callback being handled has read

vars == <<wallet, balance, casinoTx, rolling, reserve, ledger, effect, applied, conn>>
stored == <<wallet, balance, casinoTx, rolling, reserve, ledger, effect, applied>>

-----------------------------------------------------------------------------

Kind == {"NONE", "BET", "BET_WIN", "WIN", "BONUS", "CONFIRM", "REFUND"}

\* A row of CasinoVinusTx; order stands for createdAt.
TxRow == [kind: Kind, stake: Nat, payout: Nat, order: Nat,
          cancelled: BOOLEAN, refunded: BOOLEAN]

NoRow == [kind |-> "NONE", stake |-> 0, payout |-> 0, order |-> 0,
          cancelled |-> FALSE, refunded |-> FALSE]

Exists(tid) == casinoTx[tid].kind # "NONE"

WalletState == [Bucket -> Int]

Idle == [op |-> "idle"]

\* A bet, win, bonus or confirmation that has read the wallet.
Posting == [op: {"post"}, tid: Tid, row: TxRow, next: WalletState, amount: Int]

\* A cancellation (refundTid = tid) or refund that has read what it undoes,
\* then the wallet; undone once the platform's credit has been rolled back.
Finding == [op: {"find"}, tid: Tid, refundTid: Tid, amount: Int]
Returning == [op: {"return"}, tid: Tid, refundTid: Tid, amount: Int, next: WalletState,
              undone: BOOLEAN]

TypeOK ==
    /\ wallet \in WalletState
    /\ balance \in Int
    /\ casinoTx \in [Tid -> TxRow]
    /\ rolling \in Nat
    /\ reserve \in [Tid -> {"none", "applied", "rolledBack"}]
    /\ ledger \in Int
    /\ effect \in [Tid -> Int]
    /\ applied \in [Tid -> Nat]
    /\ conn \in [Conn -> {Idle} \cup Posting \cup Finding \cup Returning]

Init ==
    /\ wallet = [Empty EXCEPT !.lockedDeposit = Deposit, !.compFree = Comp]
    /\ balance = Deposit + Comp
    /\ casinoTx = [t \in Tid |-> NoRow]
    /\ rolling = Turnover
    /\ reserve = [t \in Tid |-> "none"]
    /\ ledger = 0
    /\ effect = [t \in Tid |-> 0]
    /\ applied = [t \in Tid |-> 0]
    /\ conn = [c \in Conn |-> Idle]

-----------------------------------------------------------------------------
(* bet, bet-win, win, bonus, confirm *)

openRolling == rolling > 0

\* The insertion order of the rows.
NextOrder == 1 + Cardinality({t \in Tid : Exists(t)})

\* An id that has a row is answered with the balance (or refused, when the row
\* is cancelled) and changes nothing; else the wallet is read.
Read(c, command, tid, row, next, amount) ==
    /\ command \in Commands
    /\ conn[c] = Idle
    /\ ~Exists(tid)
    /\ conn' = [conn EXCEPT ![c] = [op |-> "post", tid |-> tid, row |-> row, next |-> next,
                                    amount |-> amount]]
    /\ UNCHANGED stored

Bet(c, tid) ==
    \E stake \in Stakes :
        /\ stake <= balance /\ Covers(wallet, stake)
        /\ Read(c, "bet", tid, [NoRow EXCEPT !.kind = "BET", !.stake = stake],
                deductStake(wallet, stake), -stake)

BetWin(c, tid) ==
    \E bet \in Stakes, win \in Payouts :
        /\ bet <= balance /\ Covers(wallet, bet)
        /\ Read(c, "bet-win", tid,
                [NoRow EXCEPT !.kind = "BET_WIN", !.stake = bet, !.payout = win],
                applyBetAndWin(wallet, bet, win, openRolling), win - bet)

Win(c, tid) ==
    \E amount \in Payouts :
        Read(c, "win", tid, [NoRow EXCEPT !.kind = "WIN", !.payout = amount],
             creditWin(wallet, amount, openRolling), amount)

Bonus(c, tid) ==
    \E amount \in Payouts \ {0} :
        Read(c, "bonus", tid, [NoRow EXCEPT !.kind = "BONUS", !.payout = amount],
             creditWin(wallet, amount, openRolling), amount)

\* A confirmation moves nothing and is a single insert; an id a refund has
\* inserted and not yet committed makes it wait.
Confirm(tid) ==
    /\ "confirm" \in Commands
    /\ ~Exists(tid)
    /\ \A d \in Conn : conn[d].op = "return" /\ conn[d].undone => conn[d].refundTid # tid
    /\ casinoTx' = [casinoTx EXCEPT ![tid] = [NoRow EXCEPT !.kind = "CONFIRM", !.order = NextOrder]]
    /\ applied' = [applied EXCEPT ![tid] = @ + 1]
    /\ UNCHANGED <<wallet, balance, rolling, reserve, ledger, effect, conn>>

\* A callback that has rolled the credit back has written the wallet row, and
\* holds it until it commits.
WalletIsFree(c) == \A d \in Conn \ {c} : conn[d].op = "return" => ~conn[d].undone

\* Mutant: one column is left out of the update.
PersistForgetsWins(next) ==
    /\ wallet' = [next EXCEPT !.lockedWin = wallet.lockedWin]
    /\ balance' = totalFromBuckets(next)

Persist(next) == wallet' = next /\ balance' = totalFromBuckets(next)

Enter(tid, amount) ==
    /\ ledger' = ledger + amount
    /\ effect' = [effect EXCEPT ![tid] = @ + amount]

\* What a row does to the platform's credit; nothing when the hooks are off.
ReserveEffect(row) ==
    {"none"} \cup IF row.kind \in {"BET", "BET_WIN"} \/ (row.kind = "WIN" /\ row.payout > 0)
                  THEN {"applied"} ELSE {}

\* Mutant: the turnover owed is not bounded below.
TurnedPastZero(row) == IF row.kind = "BET" THEN rolling - row.stake ELSE rolling

\* Only the stake of a plain bet counts towards the turnover owed.
Turned(row) == IF row.kind = "BET" THEN rolling - Smaller(rolling, row.stake) ELSE rolling

\* What a callback that has read the wallet does when its id is new.
Carry(c, tid, row) ==
    /\ Persist(conn[c].next)
    /\ casinoTx' = [casinoTx EXCEPT ![tid] = [row EXCEPT !.order = NextOrder]]
    /\ Enter(tid, conn[c].amount)
    /\ applied' = [applied EXCEPT ![tid] = @ + 1]
    /\ rolling' = Turned(row)
    /\ \E done \in ReserveEffect(row) : reserve' = [reserve EXCEPT ![tid] = done]
    /\ conn' = [conn EXCEPT ![c] = Idle]

\* Mutant: the id of a transaction is not unique.
CommitPostAgain(c) ==
    /\ conn[c].op = "post"
    /\ WalletIsFree(c)
    /\ Carry(c, conn[c].tid, conn[c].row)

\* externalId is unique: a row inserted meanwhile aborts (Abort).
CommitPost(c) ==
    /\ conn[c].op = "post"
    /\ WalletIsFree(c)
    /\ ~Exists(conn[c].tid)
    /\ Carry(c, conn[c].tid, conn[c].row)

-----------------------------------------------------------------------------
(* cancel and refund *)

\* A cancelled row is answered with the balance and changes nothing.
FindCancelled(c, tid) ==
    /\ "cancel" \in Commands
    /\ conn[c] = Idle
    /\ Exists(tid) /\ ~casinoTx[tid].cancelled
    /\ conn' = [conn EXCEPT ![c] = [op |-> "find", tid |-> tid, refundTid |-> tid, amount |-> 0]]
    /\ UNCHANGED stored

\* A refund looks for the last bet of the round that is still open.
OpenBets == {t \in Tid : /\ casinoTx[t].kind \in {"BET", "BET_WIN"}
                         /\ ~casinoTx[t].refunded /\ ~casinoTx[t].cancelled}

FindRefunded(c, refundTid) ==
    /\ "refund" \in Commands
    /\ conn[c] = Idle
    /\ ~Exists(refundTid)
    /\ \E tid \in OpenBets, amount \in Stakes :
          /\ \A t \in OpenBets : casinoTx[t].order <= casinoTx[tid].order
          /\ conn' = [conn EXCEPT ![c] = [op |-> "find", tid |-> tid, refundTid |-> refundTid,
                                          amount |-> Smaller(casinoTx[tid].stake, amount)]]
    /\ UNCHANGED stored

IsCancel(pending) == pending.refundTid = pending.tid

\* What cancelling a row gives back; negative when it takes a win back.
CancelDelta(row) ==
    CASE row.kind = "BET" -> row.stake
      [] row.kind = "WIN" -> -row.payout
      [] row.kind = "BET_WIN" -> row.stake - row.payout
      [] OTHER -> 0

\* The wallet is read; taking back more than it holds fails (Abort).
ReadReturn(c) ==
    /\ conn[c].op = "find"
    /\ LET delta == IF IsCancel(conn[c]) THEN CancelDelta(casinoTx[conn[c].tid])
                    ELSE conn[c].amount
       IN  /\ Covers(wallet, Debit(delta))
           /\ conn' = [conn EXCEPT ![c] =
                          [op |-> "return", tid |-> conn[c].tid, refundTid |-> conn[c].refundTid,
                           amount |-> delta, next |-> applyCancelOrRefundDelta(wallet, delta),
                           undone |-> FALSE]]
    /\ UNCHANGED stored

\* The wallet row and, by a refund, its own row are written, not yet committed;
\* the effect on the platform's credit is rolled back and that is committed.
UndoReserve(c) ==
    /\ conn[c].op = "return"
    /\ ~conn[c].undone
    /\ WalletIsFree(c)
    /\ IsCancel(conn[c]) \/ ~Exists(conn[c].refundTid)
    /\ reserve' = [reserve EXCEPT ![conn[c].tid] = IF @ = "applied" THEN "rolledBack" ELSE @]
    /\ conn' = [conn EXCEPT ![c].undone = TRUE]
    /\ UNCHANGED <<wallet, balance, casinoTx, rolling, ledger, effect, applied>>

\* Mutant: the credit is rolled back some time after the commit.
CommitCancelFirst(c) ==
    /\ conn[c].op = "return"
    /\ WalletIsFree(c)
    /\ IsCancel(conn[c])
    /\ Persist(conn[c].next)
    /\ casinoTx' = [casinoTx EXCEPT ![conn[c].tid].cancelled = TRUE]
    /\ Enter(conn[c].tid, conn[c].amount)
    /\ conn' = [conn EXCEPT ![c] = Idle]
    /\ UNCHANGED <<rolling, reserve, applied>>

\* A cancellation marks its row, whatever it has become since it was read.
CommitCancel(c) ==
    /\ conn[c].op = "return"
    /\ conn[c].undone
    /\ IsCancel(conn[c])
    /\ Persist(conn[c].next)
    /\ casinoTx' = [casinoTx EXCEPT ![conn[c].tid].cancelled = TRUE]
    /\ Enter(conn[c].tid, conn[c].amount)
    /\ conn' = [conn EXCEPT ![c] = Idle]
    /\ UNCHANGED <<rolling, reserve, applied>>

\* A refund marks the bet and inserts its own row.
CommitRefund(c) ==
    /\ conn[c].op = "return"
    /\ conn[c].undone
    /\ ~IsCancel(conn[c])
    /\ ~Exists(conn[c].refundTid)
    /\ Persist(conn[c].next)
    /\ casinoTx' = [casinoTx EXCEPT
                      ![conn[c].tid].refunded = TRUE,
                      ![conn[c].refundTid] =
                          [NoRow EXCEPT !.kind = "REFUND", !.stake = conn[c].amount,
                                        !.order = NextOrder]]
    /\ Enter(conn[c].tid, conn[c].amount)
    /\ applied' = [applied EXCEPT ![conn[c].refundTid] = @ + 1]
    /\ conn' = [conn EXCEPT ![c] = Idle]
    /\ UNCHANGED <<rolling, reserve>>

\* The transaction rolls back: an id that exists, an amount the wallet cannot
\* cover, a lost connection.  A credit that was rolled back stays so.
Abort(c) ==
    /\ conn[c] # Idle
    /\ conn' = [conn EXCEPT ![c] = Idle]
    /\ UNCHANGED stored

-----------------------------------------------------------------------------

Post(c) ==
    \/ \E tid \in Tid : Bet(c, tid) \/ BetWin(c, tid) \/ Win(c, tid) \/ Bonus(c, tid)
    \/ CommitPost(c)

Undo(c) ==
    \/ \E tid \in Tid : FindCancelled(c, tid) \/ FindRefunded(c, tid)
    \/ ReadReturn(c) \/ UndoReserve(c) \/ CommitCancel(c) \/ CommitRefund(c)

Next ==
    \/ \E c \in Conn : Post(c) \/ Undo(c) \/ Abort(c)
    \/ \E tid \in Tid : Confirm(tid)

Spec == Init /\ [][Next]_vars

-----------------------------------------------------------------------------
(* Properties *)

\* Balance and buckets agree, and no bucket is overdrawn, however callbacks
\* overlap (Wallet in schema.prisma; deductStake refuses what is not there).
WalletSound ==
    /\ balance = totalFromBuckets(wallet)
    /\ wallet \in Wallet

\* A callback that is delivered again, even at the same time, is not carried
\* out again (schema.prisma, CasinoVinusTx).
OncePerTid == \A t \in Tid : applied[t] <= 1

\* By the time a transaction is cancelled or refunded, its effect on the
\* platform's credit has been undone.
CreditUndoneFirst ==
    \A t \in Tid : casinoTx[t].cancelled \/ casinoTx[t].refunded => reserve[t] # "applied"

\* The money there is, is the money there was plus what the ledger says.
LedgerReconciles == balance = Deposit + Comp + ledger

\* A cancelled bet, win or bet-win has no effect in the end.
CancelIsNeutral ==
    \A t \in Tid : casinoTx[t].cancelled /\ casinoTx[t].kind \in {"BET", "WIN", "BET_WIN"}
                     => effect[t] = 0

\* A bet spends the free amounts before the locked ones.
SpendingOrderStep ==
    \A c \in Conn : CommitPost(c) /\ conn[c].row.kind = "BET"
        => SpendsInOrder(wallet, conn[c].row.stake, wallet')

=============================================================================
