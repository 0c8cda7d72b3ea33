--------------------------- MODULE SportsReservation ---------------------------
(***************************************************************************)
(* The sports commands of vinus.service.ts for one member: reserve, order  *)
(* and confirm a reservation, bet on it or without one, change and cancel  *)
(* a bet, pay a result; and the refund of a bet, which the casino's        *)
(* command refund does for bets of sports as well.                         *)
(*                                                                         *)
(* A callback reads row after row, some before its transaction begins, and *)
(* writes what it computed from them as absolute values: each read that    *)
(* decides something is a step, and the writes with the commit are one.    *)
(* Of the wallet only the sum is kept; how WalletBuckets distributes an    *)
(* amount over the buckets never changes the sum.  The commands of the     *)
(* casino, and their bets, are in CasinoCallback.                          *)
(***************************************************************************)
EXTENDS Integers, FiniteSets

CONSTANTS
    Conn,      \* callbacks that may be handled at once
    Rid,       \* reserve ids
    ReqId,     \* request ids, which tell the bets on a reservation apart
    Tid,       \* transaction ids
    Names,     \* how a change names its bet: by "transaction" or by "request"
    Reserves,  \* amounts of a reservation
    Amounts,   \* amounts of a bet or of a changed bet
    Payouts,   \* amounts of a result; a deduction is negative
    Opening,   \* balance at the start
    Turnover   \* what is left of a rolling obligation at the start

ASSUME SportsAssumption ==
    /\ Names \subseteq {"transaction", "request"}
    /\ Reserves \subseteq Nat \ {0}
    /\ Amounts \subseteq Nat \ {0}
    /\ Payouts \subseteq Int
    /\ Opening \in Nat /\ Turnover \in Nat

VARIABLES
    balance,      \* Wallet.balance
    reservation,  \* the row SportsBetReservation of each reserve id
    actual,       \* the row SportsBetActual of each transaction id
    casinoTx,     \* the row CasinoVinusTx of each transaction id
    rolling,      \* turnover the member still owes
    ledger,       \* sum of the LedgerEntry amounts
    effect,       \* the same sum for each bet, with its changes, refund and cancellation
    conn          \* what each callback being handled has read

vars == <<balance, reservation, actual, casinoTx, rolling, ledger, effect, conn>>
stored == <<balance, reservation, actual, casinoTx, rolling, ledger, effect>>

-----------------------------------------------------------------------------
(* Rows *)

\* ordered stands for orderIdempotencyKey being set.
Reservation == [status: {"NONE", "PENDING", "ORDERED", "CONFIRMED"},
                reserved: Nat, consumed: Int, ordered: BOOLEAN]

NoReservation == [status |-> "NONE", reserved |-> 0, consumed |-> 0, ordered |-> FALSE]

\* Where a bet on a reservation is: at most one for each place.
Place == Rid \X ReqId
NoPlace == <<>>

ActualRow == [place: Place \cup {NoPlace}, amount: Nat]

NoActual == [place |-> NoPlace, amount |-> 0]

TxRow == [kind: {"NONE", "BET", "CHANGE", "RESULT", "REFUND"}, stake: Int,
          cancelled: BOOLEAN, refunded: BOOLEAN]

NoTx == [kind |-> "NONE", stake |-> 0, cancelled |-> FALSE, refunded |-> FALSE]

Reserved(rid) == reservation[rid].status # "NONE"
Exists(tid) == casinoTx[tid].kind # "NONE"
OnReservation(tid) == actual[tid].place # NoPlace
IsBet(tid) == casinoTx[tid].kind = "BET"

Idle == [op |-> "idle"]

\* An order of a reservation that had none.
Ordering == [op: {"order"}, rid: Rid]

\* A callback that moves money.  bet is the bet it is about and place where that
\* is; stake will be written to the bet and consumed to the reservation; delta is
\* what the wallet gains and next the balance it will have.
Paying == {"bet", "change", "cancel", "refund", "result"}

Callback == [op: Paying,
             stage: {"found", "missed", "ready", "paying"},
             tid: Tid, bet: Tid, place: Place \cup {NoPlace},
             stake: Int, consumed: Int, delta: Int, next: Int]

NewCallback(op, stage, tid, bet, place, stake, consumed, delta) ==
    [op |-> op, stage |-> stage, tid |-> tid, bet |-> bet, place |-> place,
     stake |-> stake, consumed |-> consumed, delta |-> delta, next |-> 0]

TypeOK ==
    /\ balance \in Int
    /\ reservation \in [Rid -> Reservation]
    /\ actual \in [Tid -> ActualRow]
    /\ casinoTx \in [Tid -> TxRow]
    /\ rolling \in Nat
    /\ ledger \in Int
    /\ effect \in [Tid -> Int]
    /\ conn \in [Conn -> {Idle} \cup Ordering \cup Callback]

Init ==
    /\ balance = Opening
    /\ reservation = [r \in Rid |-> NoReservation]
    /\ actual = [t \in Tid |-> NoActual]
    /\ casinoTx = [t \in Tid |-> NoTx]
    /\ rolling = Turnover
    /\ ledger = 0
    /\ effect = [t \in Tid |-> 0]
    /\ conn = [c \in Conn |-> Idle]

At(c, op, stage) == conn[c].op = op /\ conn[c].stage = stage

Hold(c, callback) ==
    /\ conn' = [conn EXCEPT ![c] = callback]
    /\ UNCHANGED stored

Start(c, callback) == conn[c] = Idle /\ Hold(c, callback)

-----------------------------------------------------------------------------
(* sports-reserve, sports-order, sports-confirm, sports-bet-commit *)

\* A reserve id is taken once; the order may come with it.
Reserve(rid) ==
    /\ ~Reserved(rid)
    /\ \E amount \in Reserves, ordered \in BOOLEAN :
          reservation' = [reservation EXCEPT ![rid] =
              [status |-> IF ordered THEN "ORDERED" ELSE "PENDING",
               reserved |-> amount, consumed |-> 0, ordered |-> ordered]]
    /\ UNCHANGED <<balance, actual, casinoTx, rolling, ledger, effect, conn>>

\* An order, by sports-order or by a repeated sports-reserve, looks for one
\* that was there before and at nothing else.
FindToOrder(c, rid) ==
    /\ Reserved(rid) /\ ~reservation[rid].ordered
    /\ Start(c, [op |-> "order", rid |-> rid])

Order(c) ==
    /\ conn[c].op = "order"
    /\ reservation' = [reservation EXCEPT ![conn[c].rid].status = "ORDERED",
                                          ![conn[c].rid].ordered = TRUE]
    /\ conn' = [conn EXCEPT ![c] = Idle]
    /\ UNCHANGED <<balance, actual, casinoTx, rolling, ledger, effect>>

Confirm(rid) ==
    /\ Reserved(rid)
    /\ reservation' = [reservation EXCEPT ![rid].status = "CONFIRMED"]
    /\ UNCHANGED <<balance, actual, casinoTx, rolling, ledger, effect, conn>>

-----------------------------------------------------------------------------
(* What every callback that moves money does with the wallet *)

\* Mutant: the wallet is not asked whether it covers what is taken.
ReadWalletUnchecked(c) ==
    /\ \E op \in Paying : At(c, op, "ready")
    /\ Hold(c, [conn[c] EXCEPT !.stage = "paying", !.next = balance + conn[c].delta])

\* The wallet is read; a bet finds no other bet at its place, and what is taken
\* must be there.
ReadWallet(c) ==
    /\ \E op \in Paying : At(c, op, "ready")
    /\ conn[c].op = "bet" /\ conn[c].place # NoPlace
          => \A t \in Tid : actual[t].place # conn[c].place
    /\ conn[c].delta < 0 => balance + conn[c].delta >= 0
    /\ Hold(c, [conn[c] EXCEPT !.stage = "paying", !.next = balance + conn[c].delta])

Size(amount) == IF amount < 0 THEN -amount ELSE amount

\* Mutant: a negative amount is entered as a positive one.
EnterUnsigned(c, bet) ==
    /\ balance' = conn[c].next
    /\ ledger' = ledger + Size(conn[c].delta)
    /\ effect' = [effect EXCEPT ![bet] = @ + conn[c].delta]
    /\ conn' = [conn EXCEPT ![c] = Idle]

\* The wallet is written, the ledger gets its entry, the callback is done.
Enter(c, bet) ==
    /\ balance' = conn[c].next
    /\ ledger' = ledger + conn[c].delta
    /\ effect' = [effect EXCEPT ![bet] = @ + conn[c].delta]
    /\ conn' = [conn EXCEPT ![c] = Idle]

\* The row a callback inserts for its own id.
Insert(kind, stake) == [NoTx EXCEPT !.kind = kind, !.stake = stake]

\* An error, or a constraint that a row inserted meanwhile violates.
Abort(c) == conn[c] # Idle /\ Hold(c, Idle)

-----------------------------------------------------------------------------
(* sports-bet *)

\* Mutant: the rest of the reservation is not compared with the bet.
FindReservationUnchecked(c, tid, place) ==
    /\ ~Exists(tid)
    /\ reservation[place[1]].status \in {"PENDING", "ORDERED"}
    /\ \E amount \in Amounts :
          Start(c, NewCallback("bet", "ready", tid, tid, place, amount,
                               reservation[place[1]].consumed + amount, -amount))

\* A bet on a reservation that is not confirmed, within what is left of it.
FindReservation(c, tid, place) ==
    LET r == reservation[place[1]]
    IN  /\ ~Exists(tid)
        /\ r.status \in {"PENDING", "ORDERED"}
        /\ \E amount \in Amounts :
              /\ amount <= r.reserved - r.consumed
              /\ Start(c, NewCallback("bet", "ready", tid, tid, place, amount,
                                      r.consumed + amount, -amount))

\* A bet without a reservation.
PlainBet(c, tid) ==
    /\ ~Exists(tid)
    /\ \E amount \in Amounts :
          Start(c, NewCallback("bet", "ready", tid, tid, NoPlace, amount, 0, -amount))

Smaller(a, b) == IF a <= b THEN a ELSE b

\* A stake counts towards the turnover owed.
Turned(stake) == rolling - Smaller(rolling, stake)

Consume(c) ==
    reservation' = [reservation EXCEPT ![conn[c].place[1]].consumed = conn[c].consumed]

\* Mutant: a place may hold several bets.
CommitBetAnywhere(c) ==
    /\ At(c, "bet", "paying")
    /\ ~Exists(conn[c].tid)
    /\ IF conn[c].place = NoPlace THEN UNCHANGED <<actual, reservation>>
       ELSE /\ actual' = [actual EXCEPT ![conn[c].tid] =
                             [place |-> conn[c].place, amount |-> conn[c].stake]]
            /\ Consume(c)
    /\ casinoTx' = [casinoTx EXCEPT ![conn[c].tid] = Insert("BET", conn[c].stake)]
    /\ rolling' = Turned(conn[c].stake)
    /\ Enter(c, conn[c].tid)

\* Transaction id and place are unique: a bet inserted meanwhile aborts (Abort).
CommitBet(c) ==
    /\ At(c, "bet", "paying")
    /\ ~Exists(conn[c].tid)
    /\ IF conn[c].place = NoPlace THEN UNCHANGED <<actual, reservation>>
       ELSE /\ \A t \in Tid : actual[t].place # conn[c].place
            /\ actual' = [actual EXCEPT ![conn[c].tid] =
                             [place |-> conn[c].place, amount |-> conn[c].stake]]
            /\ Consume(c)
    /\ casinoTx' = [casinoTx EXCEPT ![conn[c].tid] = Insert("BET", conn[c].stake)]
    /\ rolling' = Turned(conn[c].stake)
    /\ Enter(c, conn[c].tid)

-----------------------------------------------------------------------------
(* sports-bet-change: a bet gets another amount *)

\* The bet is looked for among those on reservations.
FindActual(c, tid, bet) ==
    /\ ~Exists(tid)
    /\ OnReservation(bet)
    /\ \E amount \in Amounts :
          Start(c, NewCallback("change", "found", tid, bet, actual[bet].place, amount,
                               0, actual[bet].amount - amount))

\* The reservation is read next; it may be confirmed.
ReadReservation(c) ==
    /\ At(c, "change", "found")
    /\ LET r == reservation[conn[c].place[1]]
           consumed == r.consumed - conn[c].delta
       IN  /\ consumed <= r.reserved
           /\ Hold(c, [conn[c] EXCEPT !.stage = "ready", !.consumed = consumed])

\* No bet on a reservation is found: there is none yet with this transaction id,
\* or the message gives the transaction id of its bet as req_id, which is looked
\* for among the bets without a reservation alone.
MissActual(c, tid, bet, name) ==
    /\ ~Exists(tid)
    /\ name = "request" \/ ~OnReservation(bet)
    /\ \E amount \in Amounts :
          Start(c, NewCallback("change", "missed", tid, bet, NoPlace, amount, 0, 0))

ReadBet(c) ==
    /\ At(c, "change", "missed")
    /\ IsBet(conn[c].bet)
    /\ Hold(c, [conn[c] EXCEPT !.stage = "ready",
                               !.delta = casinoTx[conn[c].bet].stake - conn[c].stake])

\* Mutant: the row of the bet keeps its stake.
ChangeTxKeepsStake(c) ==
    casinoTx' = [casinoTx EXCEPT ![conn[c].tid] = Insert("CHANGE", conn[c].delta)]

ChangeTx(c) ==
    casinoTx' = [casinoTx EXCEPT
        ![conn[c].bet].stake = conn[c].stake,
        ![conn[c].tid] = Insert("CHANGE", Size(conn[c].delta))]

\* Mutant: the reservation keeps what it had.
CommitChangeForgetsConsumed(c) ==
    /\ At(c, "change", "paying")
    /\ ~Exists(conn[c].tid)
    /\ IF conn[c].place = NoPlace THEN UNCHANGED actual
       ELSE actual' = [actual EXCEPT ![conn[c].bet].amount = conn[c].stake]
    /\ ChangeTx(c)
    /\ Enter(c, conn[c].bet)
    /\ UNCHANGED <<reservation, rolling>>

CommitChange(c) ==
    /\ At(c, "change", "paying")
    /\ ~Exists(conn[c].tid)
    /\ IF conn[c].place = NoPlace THEN UNCHANGED <<actual, reservation>>
       ELSE /\ actual' = [actual EXCEPT ![conn[c].bet].amount = conn[c].stake]
            /\ Consume(c)
    /\ ChangeTx(c)
    /\ Enter(c, conn[c].bet)
    /\ UNCHANGED rolling

-----------------------------------------------------------------------------
(* sports-cancel, refund, sports-win, sports-win-deduct *)

\* Whether a bet was refunded is not looked at, and what it reserved stays
\* consumed.  (The casino's cancel marks rows that are no bet as well, which
\* moves nothing.)
FindCancelled(c, bet) ==
    /\ IsBet(bet) /\ ~casinoTx[bet].cancelled
    /\ Start(c, NewCallback("cancel", "ready", bet, bet, NoPlace, 0, 0, casinoTx[bet].stake))

CommitCancel(c) ==
    /\ At(c, "cancel", "paying")
    /\ casinoTx' = [casinoTx EXCEPT ![conn[c].tid].cancelled = TRUE]
    /\ Enter(c, conn[c].tid)
    /\ UNCHANGED <<reservation, actual, rolling>>

\* A refund finds the last bet of its round that is open, which may be any: each
\* may have a round of its own.  It returns what it says, but no more than the stake
\* it has found.
FindRefunded(c, tid, bet) ==
    /\ ~Exists(tid)
    /\ IsBet(bet) /\ ~casinoTx[bet].refunded /\ ~casinoTx[bet].cancelled
    /\ \E amount \in Amounts :
          Start(c, NewCallback("refund", "ready", tid, bet, NoPlace, 0, 0,
                               Smaller(casinoTx[bet].stake, amount)))

CommitRefund(c) ==
    /\ At(c, "refund", "paying")
    /\ ~Exists(conn[c].tid)
    /\ casinoTx' = [casinoTx EXCEPT ![conn[c].bet].refunded = TRUE,
                                    ![conn[c].tid] = Insert("REFUND", conn[c].delta)]
    /\ Enter(c, conn[c].bet)
    /\ UNCHANGED <<reservation, actual, rolling>>

\* A result pays or takes any amount, nothing, or the stake of a bet that is void.
Results == {0} \cup Payouts \cup {casinoTx[t].stake : t \in {u \in Tid : IsBet(u)}}

FindResult(c, tid) ==
    /\ ~Exists(tid)
    /\ \E payout \in Results :
          Start(c, NewCallback("result", "ready", tid, tid, NoPlace, 0, 0, payout))

CommitResult(c) ==
    /\ At(c, "result", "paying")
    /\ ~Exists(conn[c].tid)
    /\ casinoTx' = [casinoTx EXCEPT ![conn[c].tid] = Insert("RESULT", 0)]
    /\ Enter(c, conn[c].tid)
    /\ UNCHANGED <<reservation, actual, rolling>>

-----------------------------------------------------------------------------

Find(c) ==
    \/ \E rid \in Rid : FindToOrder(c, rid)
    \/ \E tid \in Tid :
          \/ \E place \in Place : FindReservation(c, tid, place)
          \/ \E bet \in Tid : FindActual(c, tid, bet) \/ FindRefunded(c, tid, bet)
          \/ \E bet \in Tid, name \in Names : MissActual(c, tid, bet, name)
          \/ PlainBet(c, tid) \/ FindCancelled(c, tid) \/ FindResult(c, tid)

Read(c) == ReadReservation(c) \/ ReadBet(c) \/ ReadWallet(c)

Commit(c) ==
    \/ Order(c) \/ CommitBet(c) \/ CommitChange(c)
    \/ CommitCancel(c) \/ CommitRefund(c) \/ CommitResult(c)

Next ==
    \/ \E rid \in Rid : Reserve(rid) \/ Confirm(rid)
    \/ \E c \in Conn : Find(c) \/ Read(c) \/ Commit(c) \/ Abort(c)

Spec == Init /\ [][Next]_vars

-----------------------------------------------------------------------------
(* Properties *)

\* However bets and changes on a reservation overlap, what counts as consumed
\* never exceeds what was reserved (sportsBetWithReserveProd).
ConsumedWithinReserved == \A r \in Rid : reservation[r].consumed <= reservation[r].reserved

\* Nothing takes more than the member has (deductStake refuses it).
NeverOverdrawn == balance >= 0

\* However often and under whatever transaction ids the vendor sends a request
\* for a reservation, there is one bet for it (SportsBetActual in schema.prisma).
OneBetPerRequest ==
    \A t, u \in Tid : t # u /\ OnReservation(t) => actual[t].place # actual[u].place

\* The money there is, is the money there was plus what the ledger says.
Reconciles == balance = Opening + ledger

\* A bet that was neither refunded nor cancelled has cost the member its stake,
\* with all its changes, so that a cancellation or a void result returns what it
\* has cost; a bet on a reservation is written with one amount in both tables.
BetsCostTheirStake ==
    \A t \in Tid :
        /\ IsBet(t) /\ ~casinoTx[t].refunded /\ ~casinoTx[t].cancelled
              => effect[t] = -casinoTx[t].stake
        /\ OnReservation(t) => actual[t].amount = casinoTx[t].stake

=============================================================================
