-------------------------------- MODULE Points --------------------------------
(***************************************************************************)
(* Points of members (points.service.ts) and the payments that earn some   *)
(* (payment.service.ts): a member attends once a day, exchanges points for *)
(* money, gets points for lost bets and deposits; who referred a member    *)
(* gets points for the member's first bet; an administrator grants points  *)
(* to everyone.                                                            *)
(*                                                                         *)
(* Each of them reads amounts and writes new ones.  A bet and a payment    *)
(* write the wallet first and read the rest while they hold it, so that    *)
(* what they read of the member's own rows is current; a bet that goes on  *)
(* to the wallet of the referrer holds the member's wallet for that long   *)
(* (Held).  Any other transaction writes after all its reads, at its end.  *)
(*                                                                         *)
(* The buckets of a wallet are their sum; bonus and turnover of a deposit  *)
(* are those of WalletRequests, all other commands of the casino those of  *)
(* CasinoCallback.                                                         *)
(***************************************************************************)
EXTENDS Integers, FiniteSets

CONSTANTS
    Conn,           \* transactions that may be open at once
    Member,
    Nobody,
    Referrer,       \* who referred each member, or Nobody
    Key,            \* ids of requests for an exchange
    Deposits,       \* payment events about deposits
    Withdrawals,    \* payment events about withdrawals
    MaxDay,         \* bound on the days
    MaxBets,        \* bound on the bets of a member
    Opening,        \* money of each member at the start
    Stake,          \* of a bet
    Amount,         \* of a payment
    Daily,          \* points for an attendance; none when they are given in batches
    BatchCount,     \* after how many days in a row there are BatchPoints
    BatchPoints,
    LosePoints,     \* points for a lost bet
    ReferrerPoints, \* points for the first bet of a referred member
    FirstPoints,    \* points for the first charge
    TierPoints,     \* points for every deposit
    GrantPoints,    \* points granted to everyone
    Exchanged,      \* points of an exchange
    Rate            \* money for a point

Event == Deposits \cup Withdrawals

ASSUME PointsAssumption ==
    /\ Referrer \in [Member -> Member \cup {Nobody}]
    /\ Nobody \notin Member
    /\ \A u \in Member : Referrer[u] # u
    /\ {MaxDay, MaxBets, Opening, Amount, Daily, LosePoints, FirstPoints, TierPoints, GrantPoints}
           \subseteq Nat
    /\ {Stake, BatchCount, BatchPoints, ReferrerPoints, Exchanged, Rate} \subseteq Nat \ {0}

VARIABLES
    day,          \* today
    points,       \* Wallet.pointBalance of each member
    earned,       \* sum of each member's PointLedgerEntry amounts
    money,        \* balance of each wallet
    ledger,       \* sum of each member's LedgerEntry amounts
    attended,     \* how many ATTENDANCE rows each member has of each day
    bets,         \* how many BET rows each member has
    referred,     \* how many REFERRAL_FIRST_BET rows there are for each referred member
    charged,      \* how many first-charge rows each member has
    exchanges,    \* how many PointRedeemLog rows there are of each request
    stored,       \* payment events with an IdempotencyKey
    paid,         \* how often each payment event has moved money
    conn          \* what each open transaction has read

account == <<points, earned, money, ledger>>
rows == <<attended, bets, referred, charged, exchanges, stored, paid>>
vars == <<day, account, rows, conn>>

-----------------------------------------------------------------------------

Day == 0..MaxDay

Idle == [op |-> "idle"]

Attending == [op: {"attend"}, user: Member, today: Day]
                 \cup [op: {"run"}, user: Member, streak: Nat]
Crediting == [op: {"credit"}, user: Member, streak: Nat, points: Nat]
Exchanging == [op: {"exchange"}, user: Member, key: Key, points: Nat, money: Nat]
Betting == [op: {"bet", "bet-win"}, user: Member, money: Nat]
Referring == [op: {"refer"}, user: Member, money: Nat, points: Nat]
Granting == [op: {"grant"}, points: [Member -> Nat]]
Handling == [op: {"payment"}, event: Event, user: Member, money: Nat]

Transaction ==
    {Idle} \cup Attending \cup Crediting \cup Exchanging \cup Betting \cup Referring
        \cup Granting \cup Handling

TypeOK ==
    /\ day \in Day
    /\ points \in [Member -> Nat] /\ earned \in [Member -> Int]
    /\ money \in [Member -> Nat] /\ ledger \in [Member -> Int]
    /\ attended \in [Member -> [Day -> Nat]]
    /\ bets \in [Member -> Nat]
    /\ referred \in [Member -> Nat]
    /\ charged \in [Member -> Nat]
    /\ exchanges \in [Key -> Nat]
    /\ stored \in SUBSET Event
    /\ paid \in [Event -> Nat]
    /\ conn \in [Conn -> Transaction]

Begin(c, v) == conn[c] = Idle /\ conn' = [conn EXCEPT ![c] = v]
Continue(c, v) == conn' = [conn EXCEPT ![c] = v]
End(c) == Continue(c, Idle)

\* Another transaction than c has written u's wallet and not ended.
Held(u, c) == \E d \in Conn \ {c} : conn[d].op = "refer" /\ conn[d].user = u

\* The points of u become p, and the point ledger gets entries of this difference.
SetPoints(u, p, difference) ==
    /\ points' = [points EXCEPT ![u] = p]
    /\ earned' = [earned EXCEPT ![u] = @ + difference]

SetMoney(u, m, difference) ==
    /\ money' = [money EXCEPT ![u] = m]
    /\ ledger' = [ledger EXCEPT ![u] = @ + difference]

-----------------------------------------------------------------------------
(* Attendance *)

\* Mutant: whether there was an attendance today is not asked.
LookTodayAny(c, u) ==
    /\ Begin(c, [op |-> "attend", user |-> u, today |-> day])
    /\ UNCHANGED <<day, account, rows>>

\* Before the transaction: there is no row of today, which stays today for the streak
\* even when midnight passes.
LookToday(c, u) ==
    /\ attended[u][day] = 0
    /\ Begin(c, [op |-> "attend", user |-> u, today |-> day])
    /\ UNCHANGED <<day, account, rows>>

\* The days of a run of rows that ends today; a second row of a day ends the run, and
\* a row of a later day keeps it from beginning.
Run(u, today) ==
    {d \in 0..today :
        /\ attended[u][d] > 0
        /\ \A e \in (d + 1)..today : attended[u][e] = 1
        /\ \A e \in (today + 1)..day : attended[u][e] = 0}

\* The run is counted from today, whose row is written later; so there is one only
\* if another attendance of today has been written since LookToday.  Yesterday is taken
\* from the clock again.
Streak(u, today) ==
    IF day > 0 /\ attended[u][day - 1] > 0 THEN Cardinality(Run(u, today)) ELSE 0

LookStreak(c) ==
    /\ conn[c].op = "attend"
    /\ Continue(c, [op |-> "run", user |-> conn[c].user,
                    streak |-> Streak(conn[c].user, conn[c].today)])
    /\ UNCHANGED <<day, account, rows>>

\* The transaction.
ReadPoints(c) ==
    /\ conn[c].op = "run"
    /\ Continue(c, [op |-> "credit", user |-> conn[c].user, streak |-> conn[c].streak,
                    points |-> points[conn[c].user]])
    /\ UNCHANGED <<day, account, rows>>

\* Mutant: the bonus has an entry and is left out of the balance.
attendUnpaid(c) ==
    LET u == conn[c].user
        bonus == IF (conn[c].streak + 1) % BatchCount = 0 THEN BatchPoints ELSE 0
    IN  /\ conn[c].op = "credit"
        /\ ~Held(u, c)
        /\ SetPoints(u, conn[c].points + Daily, Daily + bonus)
        /\ attended' = [attended EXCEPT ![u][day] = @ + 1]
        /\ End(c)
        /\ UNCHANGED <<day, money, ledger, bets, referred, charged, exchanges, stored, paid>>

\* The row is of the day on which it is created.
attend(c) ==
    LET u == conn[c].user
        bonus == IF (conn[c].streak + 1) % BatchCount = 0 THEN BatchPoints ELSE 0
    IN  /\ conn[c].op = "credit"
        /\ ~Held(u, c)
        /\ SetPoints(u, conn[c].points + Daily + bonus, Daily + bonus)
        /\ attended' = [attended EXCEPT ![u][day] = @ + 1]
        /\ End(c)
        /\ UNCHANGED <<day, money, ledger, bets, referred, charged, exchanges, stored, paid>>

-----------------------------------------------------------------------------
(* Exchange *)

\* Mutant: whether there are points enough is not asked.
ReadExchangeAny(c, u, k) ==
    /\ exchanges[k] = 0
    /\ Begin(c, [op |-> "exchange", user |-> u, key |-> k, points |-> points[u],
                 money |-> money[u]])
    /\ UNCHANGED <<day, account, rows>>

\* In the transaction: the request is new, and there are points enough.
ReadExchange(c, u, k) ==
    /\ exchanges[k] = 0
    /\ points[u] >= Exchanged
    /\ Begin(c, [op |-> "exchange", user |-> u, key |-> k, points |-> points[u],
                 money |-> money[u]])
    /\ UNCHANGED <<day, account, rows>>

Exchange(c) ==
    LET u == conn[c].user
    IN  /\ SetPoints(u, conn[c].points - Exchanged, -Exchanged)
        /\ SetMoney(u, conn[c].money + Exchanged * Rate, Exchanged * Rate)
        /\ exchanges' = [exchanges EXCEPT ![conn[c].key] = @ + 1]
        /\ End(c)
        /\ UNCHANGED <<day, attended, bets, referred, charged, stored, paid>>

\* eventKey is unique: a request exchanged meanwhile fails (Abort).
redeem(c) ==
    /\ conn[c].op = "exchange"
    /\ ~Held(conn[c].user, c)
    /\ exchanges[conn[c].key] = 0
    /\ Exchange(c)

-----------------------------------------------------------------------------
(* Bets *)

\* A bet, or a bet with its result.
ReadBet(c, u, command) ==
    /\ bets[u] < MaxBets
    /\ money[u] >= Stake
    /\ Begin(c, [op |-> command, user |-> u, money |-> money[u]])
    /\ UNCHANGED <<day, account, rows>>

\* Is the bet being written the first one of a member somebody has referred?
FirstBet(u) == Referrer[u] # Nobody /\ referred[u] = 0 /\ bets[u] + 1 = 1

\* The wallet is written; the referrer's wallet is read, while u's is held.
ReadReferrer(c) ==
    LET u == conn[c].user
    IN  /\ conn[c].op = "bet"
        /\ ~Held(u, c)
        /\ FirstBet(u)
        /\ Continue(c, [op |-> "refer", user |-> u, money |-> conn[c].money,
                        points |-> points[Referrer[u]]])
        /\ UNCHANGED <<day, account, rows>>

\* maybeCreditReferrerFirstBet
creditReferrer(c) ==
    LET u == conn[c].user
    IN  /\ conn[c].op = "refer"
        /\ ~Held(Referrer[u], c)
        /\ SetMoney(u, conn[c].money - Stake, -Stake)
        /\ SetPoints(Referrer[u], conn[c].points + ReferrerPoints, ReferrerPoints)
        /\ bets' = [bets EXCEPT ![u] = @ + 1]
        /\ referred' = [referred EXCEPT ![u] = @ + 1]
        /\ End(c)
        /\ UNCHANGED <<day, attended, charged, exchanges, stored, paid>>

\* A bet that earns nobody points.
Bet(c) ==
    LET u == conn[c].user
    IN  /\ conn[c].op = "bet"
        /\ ~Held(u, c)
        /\ ~FirstBet(u)
        /\ SetMoney(u, conn[c].money - Stake, -Stake)
        /\ bets' = [bets EXCEPT ![u] = @ + 1]
        /\ End(c)
        /\ UNCHANGED <<day, points, earned, attended, referred, charged, exchanges, stored, paid>>

\* A bet with a result that is a loss: maybeCreditLoseBet.
LoseBet(c) ==
    LET u == conn[c].user
    IN  /\ conn[c].op = "bet-win"
        /\ ~Held(u, c)
        /\ SetMoney(u, conn[c].money - Stake, -Stake)
        /\ SetPoints(u, points[u] + LosePoints, LosePoints)
        /\ bets' = [bets EXCEPT ![u] = @ + 1]
        /\ End(c)
        /\ UNCHANGED <<day, attended, referred, charged, exchanges, stored, paid>>

-----------------------------------------------------------------------------
(* Points for everyone *)

ReadAll(c) ==
    /\ Begin(c, [op |-> "grant", points |-> points])
    /\ UNCHANGED <<day, account, rows>>

grantAllForPlatform(c) ==
    /\ conn[c].op = "grant"
    /\ \A u \in Member : ~Held(u, c)
    /\ points' = [u \in Member |-> conn[c].points[u] + GrantPoints]
    /\ earned' = [u \in Member |-> earned[u] + GrantPoints]
    /\ End(c)
    /\ UNCHANGED <<day, money, ledger, rows>>

-----------------------------------------------------------------------------
(* Payments *)

\* An event about a payment that failed or was refunded is remembered.
Ignore(e) ==
    /\ e \notin stored
    /\ stored' = stored \cup {e}
    /\ UNCHANGED <<day, account, attended, bets, referred, charged, exchanges, paid, conn>>

\* In the transaction: the event is new; a withdrawal needs the money.
ReadPayment(c, e, u) ==
    /\ e \notin stored
    /\ e \in Withdrawals => money[u] >= Amount
    /\ Begin(c, [op |-> "payment", event |-> e, user |-> u, money |-> money[u]])
    /\ UNCHANGED <<day, account, rows>>

\* Mutant: the first charge is not looked up.
FirstChargeAny(u) == TRUE

\* Looked up while the wallet is held.
FirstCharge(u) == charged[u] = 0

Pay(c) ==
    LET u == conn[c].user
        e == conn[c].event
        first == IF FirstCharge(u) THEN FirstPoints ELSE 0
    IN  /\ conn[c].op = "payment"
        /\ ~Held(u, c)
        /\ IF e \in Deposits
           THEN /\ SetMoney(u, conn[c].money + Amount, Amount)
                /\ SetPoints(u, points[u] + first + TierPoints, first + TierPoints)
                /\ charged' = [charged EXCEPT ![u] = IF FirstCharge(u) THEN @ + 1 ELSE @]
           ELSE /\ SetMoney(u, conn[c].money - Amount, -Amount)
                /\ UNCHANGED <<points, earned, charged>>
        /\ stored' = stored \cup {e}
        /\ paid' = [paid EXCEPT ![e] = @ + 1]
        /\ End(c)
        /\ UNCHANGED <<day, attended, bets, referred, exchanges>>

\* The key of the event is unique: one stored meanwhile fails (Abort).
handleWebhook(c) == conn[c].event \notin stored /\ Pay(c)

-----------------------------------------------------------------------------

\* A transaction rolls back.
Abort(c) ==
    /\ conn[c] # Idle
    /\ End(c)
    /\ UNCHANGED <<day, account, rows>>

NextDay ==
    /\ day < MaxDay
    /\ day' = day + 1
    /\ UNCHANGED <<account, rows, conn>>

Init ==
    /\ day = 0
    /\ points = [u \in Member |-> 0] /\ earned = [u \in Member |-> 0]
    /\ money = [u \in Member |-> Opening] /\ ledger = [u \in Member |-> 0]
    /\ attended = [u \in Member |-> [d \in Day |-> 0]]
    /\ bets = [u \in Member |-> 0]
    /\ referred = [u \in Member |-> 0]
    /\ charged = [u \in Member |-> 0]
    /\ exchanges = [k \in Key |-> 0]
    /\ stored = {}
    /\ paid = [e \in Event |-> 0]
    /\ conn = [c \in Conn |-> Idle]

Start(c) ==
    \E u \in Member :
        \/ LookToday(c, u)
        \/ \E k \in Key : ReadExchange(c, u, k)
        \/ \E command \in {"bet", "bet-win"} : ReadBet(c, u, command)
        \/ \E e \in Event : ReadPayment(c, e, u)

Proceed(c) ==
    \/ LookStreak(c) \/ ReadPoints(c) \/ attend(c) \/ redeem(c)
    \/ ReadReferrer(c) \/ creditReferrer(c) \/ Bet(c) \/ LoseBet(c)
    \/ grantAllForPlatform(c)
    \/ conn[c].op = "payment" /\ handleWebhook(c)
    \/ Abort(c)

Next ==
    \/ NextDay
    \/ \E c \in Conn : Start(c) \/ ReadAll(c) \/ Proceed(c)
    \/ \E e \in Event : Ignore(e)

Spec == Init /\ [][Next]_vars

-----------------------------------------------------------------------------

\* Points and money are what the entries of the two ledgers add up to.
Reconciles ==
    \A u \in Member : points[u] = earned[u] /\ money[u] = Opening + ledger[u]

\* A member has attended at most once a day.
AttendedOnce == \A u \in Member, d \in Day : attended[u][d] <= 1

\* The points for a first charge and for the first bet of a referred member, which
\* are looked up only once the wallet is written, are given once
\* (maybeCreditDepositPoints, maybeCreditReferrerFirstBet).
AwardedOnce == \A u \in Member : charged[u] <= 1 /\ referred[u] <= 1

\* A request exchanges points once, however often it is sent (redeem).
ExchangedOnce == \A k \in Key : exchanges[k] <= 1

\* A payment event moves money once, however often and with whatever status it is
\* delivered (handleWebhook).
PaidOnce == \A e \in Event : paid[e] <= 1

\* Whatever overlaps, an award, an exchange and a payment take effect once.
NothingTwice == AwardedOnce /\ ExchangedOnce /\ PaidOnce

=============================================================================
