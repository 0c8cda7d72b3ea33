----------------------------- MODULE PointsProofs -----------------------------
(***************************************************************************)
(* Theorems about Points, for any members, requests, payment events and    *)
(* amounts: types, and that no award, exchange or payment takes effect     *)
(* twice, for any number of overlapping transactions; and that the ledgers *)
(* explain points and money, and a member attends once a day, when         *)
(* transactions follow each other.                                         *)
(***************************************************************************)
EXTENDS MCPoints, FiniteSetTheorems, TLAPS

-----------------------------------------------------------------------------
(* Open transactions *)

\* What a transaction takes away was there when it read.
Afforded(x) ==
    /\ x.op = "exchange" => x.points >= Exchanged
    /\ x.op \in {"bet", "bet-win", "refer"} => x.money >= Stake
    /\ x.op = "payment" /\ x.event \in Withdrawals => x.money >= Amount

\* A transaction that pays for the first bet of a member is the only one to, and
\* nothing has been paid for it.
Alone ==
    \A c \in Conn : conn[c].op = "refer" =>
        /\ referred[conn[c].user] = 0
        /\ \A d \in Conn \ {c} : conn[d].op = "refer" => conn[d].user # conn[c].user

\* An event that moved money has its key stored.
KeysStored == \A e \in Event : paid[e] = 0 \/ (paid[e] = 1 /\ e \in stored)

IInv ==
    /\ TypeOK
    /\ \A c \in Conn : Afforded(conn[c])
    /\ Alone
    /\ KeysStored
    /\ AwardedOnce
    /\ ExchangedOnce

\* The kind of a transaction says which values it holds.
LEMMA OpCases ==
    ASSUME NEW x \in Transaction
    PROVE  /\ x.op = "attend" => x \in [op: {"attend"}, user: Member, today: Day]
           /\ x.op = "run" => x \in [op: {"run"}, user: Member, streak: Nat]
           /\ x.op = "credit" => x \in Crediting
           /\ x.op = "exchange" => x \in Exchanging
           /\ x.op \in {"bet", "bet-win"} => x \in Betting
           /\ x.op = "refer" => x \in Referring
           /\ x.op = "grant" => x \in Granting
           /\ x.op = "payment" => x \in Handling
BY DEF Transaction, Idle, Attending, Crediting, Exchanging, Betting, Referring, Granting, Handling

\* A step of one transaction.
LEMMA OneSlot ==
    ASSUME TypeOK, NEW c \in Conn, NEW v \in Transaction, conn' = [conn EXCEPT ![c] = v]
    PROVE  /\ conn' \in [Conn -> Transaction]
           /\ conn'[c] = v
           /\ \A d \in Conn \ {c} : conn'[d] = conn[d]
BY DEF TypeOK

LEMMA IdleType == Idle \in Transaction /\ Idle.op = "idle" /\ Afforded(Idle)
BY DEF Transaction, Idle, Afforded

\* A transaction that reads.
LEMMA ReadStep ==
    ASSUME IInv, NEW c \in Conn, NEW v \in Transaction, Afforded(v), v.op # "refer",
           conn' = [conn EXCEPT ![c] = v], UNCHANGED <<day, account, rows>>
    PROVE  IInv'
<1>1. /\ conn' \in [Conn -> Transaction]
      /\ conn'[c] = v
      /\ \A d \in Conn \ {c} : conn'[d] = conn[d]
  BY OneSlot DEF IInv
<1>2. TypeOK' /\ KeysStored' /\ AwardedOnce' /\ ExchangedOnce'
  BY <1>1 DEF IInv, TypeOK, KeysStored, AwardedOnce, ExchangedOnce, account, rows
<1>3. \A d \in Conn : Afforded(conn'[d])
  BY <1>1 DEF IInv
<1>4. Alone'
  BY <1>1 DEF IInv, Alone, rows
<1>5. QED
  BY <1>2, <1>3, <1>4 DEF IInv

\* A transaction that commits; what it says of first bets does not concern the others.
LEMMA CommitStep ==
    ASSUME IInv, NEW c \in Conn, conn' = [conn EXCEPT ![c] = Idle], UNCHANGED day,
           points' \in [Member -> Nat], earned' \in [Member -> Int],
           money' \in [Member -> Nat], ledger' \in [Member -> Int],
           attended' \in [Member -> [Day -> Nat]], bets' \in [Member -> Nat],
           referred' \in [Member -> Nat], charged' \in [Member -> Nat],
           exchanges' \in [Key -> Nat], stored' \in SUBSET Event, paid' \in [Event -> Nat],
           \A d \in Conn \ {c} :
               conn[d].op = "refer" => referred'[conn[d].user] = referred[conn[d].user],
           KeysStored', AwardedOnce', ExchangedOnce'
    PROVE  IInv'
<1>1. /\ conn' \in [Conn -> Transaction]
      /\ conn'[c] = Idle
      /\ \A d \in Conn \ {c} : conn'[d] = conn[d]
  BY OneSlot, IdleType DEF IInv
<1>2. TypeOK'
  BY <1>1 DEF IInv, TypeOK
<1>3. \A d \in Conn : Afforded(conn'[d])
  BY <1>1, IdleType DEF IInv
<1>4. Alone'
  BY <1>1, IdleType DEF IInv, Alone
<1>5. QED
  BY <1>2, <1>3, <1>4 DEF IInv

-----------------------------------------------------------------------------
(* Reading *)

\* The streak is a number of days.
LEMMA StreakType ==
    ASSUME NEW u \in Member, NEW today \in Day
    PROVE  Streak(u, today) \in Nat
<1>1. IsFiniteSet(0..today)
  <2>1. today \in Int
    BY PointsAssumption DEF Day, PointsAssumption
  <2>2. QED
    BY <2>1, FS_Interval
<1>2. Run(u, today) \subseteq 0..today
  BY DEF Run
<1>3. Cardinality(Run(u, today)) \in Nat
  BY <1>1, <1>2, FS_Subset, FS_CardinalityType
<1>4. QED
  BY <1>3 DEF Streak

\* Whatever starts, starts by reading.
LEMMA StartStep ==
    ASSUME IInv, NEW c \in Conn, Start(c) \/ ReadAll(c)
    PROVE  IInv'
<1>0. TypeOK
  BY DEF IInv
<1>1. ASSUME NEW u \in Member, LookToday(c, u) PROVE IInv'
  <2> DEFINE v == [op |-> "attend", user |-> u, today |-> day]
  <2>1. v \in Transaction /\ v.op # "refer" /\ Afforded(v)
    BY <1>0 DEF TypeOK, Transaction, Attending, Afforded
  <2>2. conn' = [conn EXCEPT ![c] = v] /\ UNCHANGED <<day, account, rows>>
    BY <1>1 DEF LookToday, Begin
  <2> HIDE DEF v
  <2>3. QED
    BY <2>1, <2>2, ReadStep
<1>2. ASSUME NEW u \in Member, NEW k \in Key, ReadExchange(c, u, k) PROVE IInv'
  <2> DEFINE v == [op |-> "exchange", user |-> u, key |-> k, points |-> points[u],
                   money |-> money[u]]
  <2>1. points[u] \in Nat /\ money[u] \in Nat /\ points[u] >= Exchanged
    BY <1>0, <1>2 DEF TypeOK, ReadExchange
  <2>2. v \in Transaction /\ v.op # "refer" /\ Afforded(v)
    BY <2>1 DEF Transaction, Exchanging, Afforded
  <2>3. conn' = [conn EXCEPT ![c] = v] /\ UNCHANGED <<day, account, rows>>
    BY <1>2 DEF ReadExchange, Begin
  <2> HIDE DEF v
  <2>4. QED
    BY <2>2, <2>3, ReadStep
<1>3. ASSUME NEW u \in Member, NEW command \in {"bet", "bet-win"}, ReadBet(c, u, command) PROVE IInv'
  <2> DEFINE v == [op |-> command, user |-> u, money |-> money[u]]
  <2>1. money[u] \in Nat /\ money[u] >= Stake
    BY <1>0, <1>3 DEF TypeOK, ReadBet
  <2>2. v \in Transaction /\ v.op # "refer" /\ Afforded(v)
    BY <2>1 DEF Transaction, Betting, Afforded
  <2>3. conn' = [conn EXCEPT ![c] = v] /\ UNCHANGED <<day, account, rows>>
    BY <1>3 DEF ReadBet, Begin
  <2> HIDE DEF v
  <2>4. QED
    BY <2>2, <2>3, ReadStep
<1>4. ASSUME NEW u \in Member, NEW e \in Event, ReadPayment(c, e, u) PROVE IInv'
  <2> DEFINE v == [op |-> "payment", event |-> e, user |-> u, money |-> money[u]]
  <2>1. money[u] \in Nat /\ (e \in Withdrawals => money[u] >= Amount)
    BY <1>0, <1>4 DEF TypeOK, ReadPayment
  <2>2. v \in Transaction /\ v.op # "refer" /\ Afforded(v)
    BY <2>1 DEF Transaction, Handling, Afforded
  <2>3. conn' = [conn EXCEPT ![c] = v] /\ UNCHANGED <<day, account, rows>>
    BY <1>4 DEF ReadPayment, Begin
  <2> HIDE DEF v
  <2>4. QED
    BY <2>2, <2>3, ReadStep
<1>5. ASSUME ReadAll(c) PROVE IInv'
  <2> DEFINE v == [op |-> "grant", points |-> points]
  <2>1. v \in Transaction /\ v.op # "refer" /\ Afforded(v)
    BY <1>0 DEF TypeOK, Transaction, Granting, Afforded
  <2>2. conn' = [conn EXCEPT ![c] = v] /\ UNCHANGED <<day, account, rows>>
    BY <1>5 DEF ReadAll, Begin
  <2> HIDE DEF v
  <2>3. QED
    BY <2>1, <2>2, ReadStep
<1>6. QED
  BY <1>1, <1>2, <1>3, <1>4, <1>5 DEF Start

\* An attendance reads on; anything may roll back.
LEMMA ReadOnStep ==
    ASSUME IInv, NEW c \in Conn, LookStreak(c) \/ ReadPoints(c) \/ Abort(c)
    PROVE  IInv'
<1>0. TypeOK /\ conn[c] \in Transaction
  BY DEF IInv, TypeOK
<1>1. CASE LookStreak(c)
  <2>1. conn[c].user \in Member /\ conn[c].today \in Day
    BY <1>0, <1>1, OpCases DEF LookStreak
  <2> DEFINE v == [op |-> "run", user |-> conn[c].user,
                   streak |-> Streak(conn[c].user, conn[c].today)]
  <2>2. Streak(conn[c].user, conn[c].today) \in Nat
    BY <1>0, <2>1, StreakType
  <2>3. v \in Transaction /\ v.op # "refer" /\ Afforded(v)
    BY <2>1, <2>2 DEF Transaction, Attending, Afforded
  <2>4. conn' = [conn EXCEPT ![c] = v] /\ UNCHANGED <<day, account, rows>>
    BY <1>1 DEF LookStreak, Continue
  <2> HIDE DEF v
  <2>5. QED
    BY <2>3, <2>4, ReadStep
<1>2. CASE ReadPoints(c)
  <2>1. conn[c].user \in Member /\ conn[c].streak \in Nat
    BY <1>0, <1>2, OpCases DEF ReadPoints
  <2> DEFINE v == [op |-> "credit", user |-> conn[c].user, streak |-> conn[c].streak,
                   points |-> points[conn[c].user]]
  <2>2. points[conn[c].user] \in Nat
    BY <1>0, <2>1 DEF TypeOK
  <2>3. v \in Transaction /\ v.op # "refer" /\ Afforded(v)
    BY <2>1, <2>2 DEF Transaction, Crediting, Afforded
  <2>4. conn' = [conn EXCEPT ![c] = v] /\ UNCHANGED <<day, account, rows>>
    BY <1>2 DEF ReadPoints, Continue
  <2> HIDE DEF v
  <2>5. QED
    BY <2>3, <2>4, ReadStep
<1>3. CASE Abort(c)
  <2>1. conn' = [conn EXCEPT ![c] = Idle] /\ UNCHANGED <<day, account, rows>>
    BY <1>3 DEF Abort, End, Continue
  <2>2. QED
    BY <2>1, IdleType, ReadStep
<1>4. QED
  BY <1>1, <1>2, <1>3

\* The wallet of the member is held by nobody else: the transaction is alone.
LEMMA ReadReferrerStep ==
    ASSUME IInv, NEW c \in Conn, ReadReferrer(c)
    PROVE  IInv'
<1> DEFINE u == conn[c].user
           v == [op |-> "refer", user |-> u, money |-> conn[c].money,
                 points |-> points[Referrer[u]]]
<1>0. TypeOK /\ conn[c] \in Transaction
  BY DEF IInv, TypeOK
<1>1. u \in Member /\ conn[c].money \in Nat /\ conn[c].money >= Stake
  BY <1>0, OpCases DEF ReadReferrer, IInv, Afforded, Betting
<1>2. ~Held(u, c) /\ Referrer[u] # Nobody /\ referred[u] = 0
  BY DEF ReadReferrer, FirstBet
<1>3. points[Referrer[u]] \in Nat
  BY <1>0, <1>1, <1>2, PointsAssumption DEF TypeOK, PointsAssumption
<1>4. conn' = [conn EXCEPT ![c] = v] /\ UNCHANGED <<day, account, rows>>
  BY DEF ReadReferrer, Continue
<1>5. v \in Transaction /\ Afforded(v) /\ v.op = "refer" /\ v.user = u
  BY <1>1, <1>3 DEF Transaction, Referring, Afforded
<1>6. /\ conn' \in [Conn -> Transaction] /\ conn'[c] = v
      /\ \A d \in Conn \ {c} : conn'[d] = conn[d]
  <2> HIDE DEF v
  <2>1. QED
    BY <1>0, <1>4, <1>5, OneSlot
<1> HIDE DEF u, v
<1>7. TypeOK' /\ KeysStored' /\ AwardedOnce' /\ ExchangedOnce'
  BY <1>4, <1>6 DEF IInv, TypeOK, KeysStored, AwardedOnce, ExchangedOnce, account, rows
<1>8. \A d \in Conn : Afforded(conn'[d])
  BY <1>5, <1>6 DEF IInv
<1>9. Alone'
  BY <1>2, <1>4, <1>5, <1>6 DEF IInv, Alone, Held, rows
<1>10. QED
  BY <1>7, <1>8, <1>9 DEF IInv

-----------------------------------------------------------------------------
(* Committing *)

\* An attendance.
LEMMA AttendStep ==
    ASSUME IInv, NEW c \in Conn, attend(c)
    PROVE  IInv'
<1> DEFINE u == conn[c].user
           bonus == IF (conn[c].streak + 1) % BatchCount = 0 THEN BatchPoints ELSE 0
<1>0. TypeOK /\ conn[c] \in Transaction
  BY DEF IInv, TypeOK
<1>1. u \in Member /\ conn[c].points \in Nat /\ bonus \in Nat /\ Daily \in Nat
  BY <1>0, OpCases, PointsAssumption DEF attend, Crediting, PointsAssumption
<1>2. /\ points' = [points EXCEPT ![u] = conn[c].points + Daily + bonus]
      /\ earned' = [earned EXCEPT ![u] = @ + (Daily + bonus)]
      /\ attended' = [attended EXCEPT ![u][day] = @ + 1]
      /\ conn' = [conn EXCEPT ![c] = Idle]
      /\ UNCHANGED <<day, money, ledger, bets, referred, charged, exchanges, stored, paid>>
  BY DEF attend, SetPoints, End, Continue
<1> HIDE DEF u, bonus
<1>3. points' \in [Member -> Nat] /\ earned' \in [Member -> Int]
  BY <1>0, <1>1, <1>2 DEF TypeOK
<1>4. attended' \in [Member -> [Day -> Nat]]
  BY <1>0, <1>1, <1>2 DEF TypeOK
<1>5. KeysStored' /\ AwardedOnce' /\ ExchangedOnce'
  BY <1>2 DEF IInv, KeysStored, AwardedOnce, ExchangedOnce
<1>6. QED
  BY <1>0, <1>2, <1>3, <1>4, <1>5, CommitStep DEF TypeOK

\* An exchange.
LEMMA RedeemStep ==
    ASSUME IInv, NEW c \in Conn, redeem(c)
    PROVE  IInv'
<1> DEFINE u == conn[c].user
           k == conn[c].key
<1>0. TypeOK /\ conn[c] \in Transaction
  BY DEF IInv, TypeOK
<1>1. /\ u \in Member /\ k \in Key /\ conn[c].points \in Nat /\ conn[c].money \in Nat
      /\ conn[c].points >= Exchanged /\ exchanges[k] = 0
      /\ Exchanged \in Nat /\ Rate \in Nat
  BY <1>0, OpCases, PointsAssumption DEF redeem, Exchanging, PointsAssumption, IInv, Afforded
<1>2. Exchanged * Rate \in Nat
  BY <1>1
<1>3. /\ points' = [points EXCEPT ![u] = conn[c].points - Exchanged]
      /\ earned' = [earned EXCEPT ![u] = @ + (-Exchanged)]
      /\ money' = [money EXCEPT ![u] = conn[c].money + Exchanged * Rate]
      /\ ledger' = [ledger EXCEPT ![u] = @ + Exchanged * Rate]
      /\ exchanges' = [exchanges EXCEPT ![k] = @ + 1]
      /\ conn' = [conn EXCEPT ![c] = Idle]
      /\ UNCHANGED <<day, attended, bets, referred, charged, stored, paid>>
  BY DEF redeem, Exchange, SetPoints, SetMoney, End, Continue
<1> HIDE DEF u, k
<1>4. points' \in [Member -> Nat] /\ earned' \in [Member -> Int]
  BY <1>0, <1>1, <1>3 DEF TypeOK
<1>5. money' \in [Member -> Nat] /\ ledger' \in [Member -> Int]
  <2> DEFINE gain == Exchanged * Rate
  <2>1. gain \in Nat /\ money' = [money EXCEPT ![u] = conn[c].money + gain]
        /\ ledger' = [ledger EXCEPT ![u] = @ + gain]
    BY <1>2, <1>3
  <2> HIDE DEF gain
  <2>2. QED
    BY <1>0, <1>1, <2>1 DEF TypeOK
<1>6. exchanges' \in [Key -> Nat] /\ ExchangedOnce'
  BY <1>0, <1>1, <1>3 DEF TypeOK, IInv, ExchangedOnce
<1>7. KeysStored' /\ AwardedOnce'
  BY <1>3 DEF IInv, KeysStored, AwardedOnce
<1>8. QED
  BY <1>0, <1>3, <1>4, <1>5, <1>6, <1>7, CommitStep DEF TypeOK

\* The points for a first bet are given by the transaction that is alone.
LEMMA ReferStep ==
    ASSUME IInv, NEW c \in Conn, creditReferrer(c)
    PROVE  IInv'
<1> DEFINE u == conn[c].user
           r == Referrer[u]
<1>0. TypeOK /\ conn[c] \in Transaction
  BY DEF IInv, TypeOK
<1>1. /\ u \in Member /\ conn[c].points \in Nat /\ conn[c].money \in Nat
      /\ conn[c].money >= Stake /\ Stake \in Nat /\ ReferrerPoints \in Nat
      /\ referred[u] = 0
  BY <1>0, OpCases, PointsAssumption
  DEF creditReferrer, Referring, PointsAssumption, IInv, Afforded, Alone
<1>2. /\ money' = [money EXCEPT ![u] = conn[c].money - Stake]
      /\ ledger' = [ledger EXCEPT ![u] = @ + (-Stake)]
      /\ points' = [points EXCEPT ![r] = conn[c].points + ReferrerPoints]
      /\ earned' = [earned EXCEPT ![r] = @ + ReferrerPoints]
      /\ bets' = [bets EXCEPT ![u] = @ + 1]
      /\ referred' = [referred EXCEPT ![u] = @ + 1]
      /\ conn' = [conn EXCEPT ![c] = Idle]
      /\ UNCHANGED <<day, attended, charged, exchanges, stored, paid>>
  BY DEF creditReferrer, SetPoints, SetMoney, End, Continue
<1>3. \A d \in Conn \ {c} : conn[d].op = "refer" => conn[d].user # u
  BY DEF IInv, Alone, creditReferrer
<1> HIDE DEF u, r
<1>4. points' \in [Member -> Nat] /\ earned' \in [Member -> Int]
  <2>1. points \in [Member -> Nat] /\ earned \in [Member -> Int]
    BY <1>0 DEF TypeOK
  <2>2. CASE r \in Member
    <3>1. conn[c].points + ReferrerPoints \in Nat /\ earned[r] + ReferrerPoints \in Int
      BY <1>1, <2>1, <2>2
    <3>2. QED
      BY <1>2, <2>1, <3>1
  <2>3. CASE r \notin Member
    BY <1>2, <2>1, <2>3
  <2>4. QED
    BY <2>2, <2>3
<1>5. money' \in [Member -> Nat] /\ ledger' \in [Member -> Int] /\ bets' \in [Member -> Nat]
  BY <1>0, <1>1, <1>2 DEF TypeOK
<1>6. referred' \in [Member -> Nat] /\ AwardedOnce'
  BY <1>0, <1>1, <1>2 DEF TypeOK, IInv, AwardedOnce
<1>7. KeysStored' /\ ExchangedOnce'
  BY <1>2 DEF IInv, KeysStored, ExchangedOnce
<1>8. \A d \in Conn \ {c} :
         conn[d].op = "refer" => referred'[conn[d].user] = referred[conn[d].user]
  BY <1>0, <1>2, <1>3 DEF TypeOK
<1>9. QED
  BY <1>0, <1>2, <1>4, <1>5, <1>6, <1>7, <1>8, CommitStep DEF TypeOK

\* Any other bet.
LEMMA BetStep ==
    ASSUME IInv, NEW c \in Conn, Bet(c) \/ LoseBet(c)
    PROVE  IInv'
<1> DEFINE u == conn[c].user
<1>0. TypeOK /\ conn[c] \in Transaction
  BY DEF IInv, TypeOK
<1>1. /\ u \in Member /\ conn[c].money \in Nat /\ conn[c].money >= Stake
      /\ Stake \in Nat /\ LosePoints \in Nat
  BY <1>0, OpCases, PointsAssumption DEF Bet, LoseBet, Betting, PointsAssumption, IInv, Afforded
<1>2. /\ money' = [money EXCEPT ![u] = conn[c].money - Stake]
      /\ ledger' = [ledger EXCEPT ![u] = @ + (-Stake)]
      /\ \/ UNCHANGED <<points, earned>>
         \/ /\ points' = [points EXCEPT ![u] = points[u] + LosePoints]
            /\ earned' = [earned EXCEPT ![u] = @ + LosePoints]
      /\ bets' = [bets EXCEPT ![u] = @ + 1]
      /\ conn' = [conn EXCEPT ![c] = Idle]
      /\ UNCHANGED <<day, attended, referred, charged, exchanges, stored, paid>>
  BY DEF Bet, LoseBet, SetPoints, SetMoney, End, Continue
<1> HIDE DEF u
<1>3. points' \in [Member -> Nat] /\ earned' \in [Member -> Int]
  <2>1. points \in [Member -> Nat] /\ earned \in [Member -> Int]
    BY <1>0 DEF TypeOK
  <2>2. CASE UNCHANGED <<points, earned>>
    BY <2>1, <2>2
  <2>3. CASE /\ points' = [points EXCEPT ![u] = points[u] + LosePoints]
             /\ earned' = [earned EXCEPT ![u] = @ + LosePoints]
    <3>1. points[u] + LosePoints \in Nat /\ earned[u] + LosePoints \in Int
      BY <1>1, <2>1
    <3>2. QED
      BY <2>1, <2>3, <3>1
  <2>4. QED
    BY <1>2, <2>2, <2>3
<1>4. money' \in [Member -> Nat] /\ ledger' \in [Member -> Int] /\ bets' \in [Member -> Nat]
  BY <1>0, <1>1, <1>2 DEF TypeOK
<1>5. KeysStored' /\ AwardedOnce' /\ ExchangedOnce'
  BY <1>2 DEF IInv, KeysStored, AwardedOnce, ExchangedOnce
<1>6. QED
  BY <1>0, <1>2, <1>3, <1>4, <1>5, CommitStep DEF TypeOK

\* Points for everyone.
LEMMA GrantStep ==
    ASSUME IInv, NEW c \in Conn, grantAllForPlatform(c)
    PROVE  IInv'
<1>0. TypeOK /\ conn[c] \in Transaction /\ GrantPoints \in Nat
  BY PointsAssumption DEF IInv, TypeOK, PointsAssumption
<1>1. conn[c].points \in [Member -> Nat]
  BY <1>0, OpCases DEF grantAllForPlatform, Granting
<1>2. /\ points' = [u \in Member |-> conn[c].points[u] + GrantPoints]
      /\ earned' = [u \in Member |-> earned[u] + GrantPoints]
      /\ conn' = [conn EXCEPT ![c] = Idle]
      /\ UNCHANGED <<day, money, ledger, rows>>
  BY DEF grantAllForPlatform, End, Continue
<1>3. points' \in [Member -> Nat] /\ earned' \in [Member -> Int]
  BY <1>0, <1>1, <1>2 DEF TypeOK
<1>4. KeysStored' /\ AwardedOnce' /\ ExchangedOnce'
  BY <1>2 DEF IInv, KeysStored, AwardedOnce, ExchangedOnce, rows
<1>5. QED
  BY <1>0, <1>2, <1>3, <1>4, CommitStep DEF TypeOK, rows

\* A payment, whose key is new.
LEMMA PayStep ==
    ASSUME IInv, NEW c \in Conn, conn[c].op = "payment", handleWebhook(c)
    PROVE  IInv'
<1> DEFINE u == conn[c].user
           e == conn[c].event
           first == IF FirstCharge(u) THEN FirstPoints ELSE 0
<1>0. TypeOK /\ conn[c] \in Transaction
  BY DEF IInv, TypeOK
<1>1. /\ u \in Member /\ e \in Event /\ conn[c].money \in Nat
      /\ e \in Withdrawals => conn[c].money >= Amount
      /\ Amount \in Nat /\ first \in Nat /\ TierPoints \in Nat
      /\ e \notin stored
  BY <1>0, OpCases, PointsAssumption
  DEF handleWebhook, Handling, PointsAssumption, IInv, Afforded
<1>2. /\ \/ /\ e \in Deposits
            /\ money' = [money EXCEPT ![u] = conn[c].money + Amount]
            /\ ledger' = [ledger EXCEPT ![u] = @ + Amount]
            /\ points' = [points EXCEPT ![u] = points[u] + first + TierPoints]
            /\ earned' = [earned EXCEPT ![u] = @ + (first + TierPoints)]
            /\ charged' = [charged EXCEPT ![u] = IF FirstCharge(u) THEN @ + 1 ELSE @]
         \/ /\ e \notin Deposits
            /\ money' = [money EXCEPT ![u] = conn[c].money - Amount]
            /\ ledger' = [ledger EXCEPT ![u] = @ + (-Amount)]
            /\ UNCHANGED <<points, earned, charged>>
      /\ stored' = stored \cup {e}
      /\ paid' = [paid EXCEPT ![e] = @ + 1]
      /\ conn' = [conn EXCEPT ![c] = Idle]
      /\ UNCHANGED <<day, attended, bets, referred, exchanges>>
  BY DEF handleWebhook, Pay, SetPoints, SetMoney, End, Continue
<1>3. e \in Deposits \cup Withdrawals
  BY <1>1 DEF Event
<1> HIDE DEF u, e, first
<1>4. /\ points' \in [Member -> Nat] /\ earned' \in [Member -> Int]
      /\ money' \in [Member -> Nat] /\ ledger' \in [Member -> Int]
  <2>1. /\ points \in [Member -> Nat] /\ earned \in [Member -> Int]
        /\ money \in [Member -> Nat] /\ ledger \in [Member -> Int]
    BY <1>0 DEF TypeOK
  <2>2. CASE e \in Deposits
    <3>1. /\ conn[c].money + Amount \in Nat /\ ledger[u] + Amount \in Int
          /\ points[u] + first + TierPoints \in Nat
          /\ earned[u] + (first + TierPoints) \in Int
      BY <1>1, <2>1
    <3>2. /\ money' = [money EXCEPT ![u] = conn[c].money + Amount]
          /\ ledger' = [ledger EXCEPT ![u] = ledger[u] + Amount]
          /\ points' = [points EXCEPT ![u] = points[u] + first + TierPoints]
          /\ earned' = [earned EXCEPT ![u] = earned[u] + (first + TierPoints)]
      BY <1>2, <2>2
    <3>3. QED
      BY <2>1, <3>1, <3>2
  <2>3. CASE e \notin Deposits
    <3>1. conn[c].money - Amount \in Nat /\ ledger[u] + (-Amount) \in Int
      BY <1>1, <1>3, <2>1, <2>3
    <3>2. /\ money' = [money EXCEPT ![u] = conn[c].money - Amount]
          /\ ledger' = [ledger EXCEPT ![u] = ledger[u] + (-Amount)]
          /\ UNCHANGED <<points, earned>>
      BY <1>2, <2>3
    <3>3. QED
      BY <2>1, <3>1, <3>2
  <2>4. QED
    BY <2>2, <2>3
<1>5. charged' \in [Member -> Nat] /\ AwardedOnce'
  BY <1>0, <1>1, <1>2 DEF TypeOK, IInv, AwardedOnce, FirstCharge
<1>6. paid' \in [Event -> Nat] /\ stored' \in SUBSET Event /\ KeysStored'
  BY <1>0, <1>1, <1>2 DEF TypeOK, IInv, KeysStored
<1>7. ExchangedOnce'
  BY <1>2 DEF IInv, ExchangedOnce
<1>8. QED
  BY <1>0, <1>2, <1>4, <1>5, <1>6, <1>7, CommitStep DEF TypeOK

-----------------------------------------------------------------------------
(* The invariant *)

LEMMA InitInv == Init => IInv
<1> SUFFICES ASSUME Init PROVE IInv
  OBVIOUS
<1>1. conn \in [Conn -> Transaction] /\ \A c \in Conn : conn[c] = Idle
  BY IdleType DEF Init
<1>2. TypeOK
  BY <1>1, PointsAssumption DEF Init, TypeOK, Day, PointsAssumption
<1>3. QED
  BY <1>1, <1>2, IdleType DEF Init, IInv, Alone, KeysStored, AwardedOnce, ExchangedOnce

LEMMA Inductive == IInv /\ [Next]_vars => IInv'
<1> SUFFICES ASSUME IInv, [Next]_vars PROVE IInv'
  OBVIOUS
<1>1. CASE UNCHANGED vars
  BY <1>1 DEF vars, account, rows, IInv, TypeOK, Alone, KeysStored, AwardedOnce, ExchangedOnce
<1>2. CASE NextDay
  <2>1. day' \in Day
    BY <1>2, PointsAssumption DEF NextDay, Day, IInv, TypeOK, PointsAssumption
  <2>2. QED
    BY <1>2, <2>1
    DEF NextDay, account, rows, IInv, TypeOK, Alone, KeysStored, AwardedOnce, ExchangedOnce
<1>3. ASSUME NEW e \in Event, Ignore(e) PROVE IInv'
  BY <1>3 DEF Ignore, account, IInv, TypeOK, Alone, KeysStored, AwardedOnce, ExchangedOnce
<1>4. ASSUME NEW c \in Conn, Start(c) \/ ReadAll(c) \/ Proceed(c) PROVE IInv'
  BY <1>4, StartStep, ReadOnStep, ReadReferrerStep, AttendStep, RedeemStep, ReferStep, BetStep,
     GrantStep, PayStep DEF Proceed
<1>5. QED
  BY <1>1, <1>2, <1>3, <1>4 DEF Next

\* Every reachable state is well typed: no points and no money below zero.
THEOREM PointsTypeCorrect == Spec => []TypeOK
<1>1. IInv => TypeOK
  BY DEF IInv
<1>2. QED
  BY <1>1, InitInv, Inductive, PTL DEF Spec

\* However transactions overlap, no award, exchange or payment takes effect twice
\* (maybeCreditDepositPoints, maybeCreditReferrerFirstBet, redeem, handleWebhook).
THEOREM NeverTwice == Spec => []NothingTwice
<1>1. IInv => NothingTwice
  BY DEF IInv, NothingTwice, PaidOnce, KeysStored
<1>2. QED
  BY <1>1, InitInv, Inductive, PTL DEF Spec

-----------------------------------------------------------------------------
(* One after the other *)

PointsFit == \A u \in Member : points[u] = earned[u]
MoneyFit == \A u \in Member : money[u] = Opening + ledger[u]

\* One transaction is open at most.
OneOpen == \A c, d \in Conn : conn[c] # Idle /\ conn[d] # Idle => c = d

\* What a transaction has read is still so.
Current(c) ==
    LET u == conn[c].user IN
    /\ conn[c].op \in {"attend", "run", "credit"} => attended[u][day] = 0
    /\ conn[c].op \in {"credit", "exchange"} => conn[c].points = points[u]
    /\ conn[c].op \in {"exchange", "bet", "bet-win", "refer", "payment"} => conn[c].money = money[u]
    /\ conn[c].op = "refer" => conn[c].points = points[Referrer[u]]
    /\ conn[c].op = "grant" => conn[c].points = points

Ordered == PointsFit /\ MoneyFit /\ AttendedOnce /\ OneOpen /\ \A c \in Conn : Current(c)

LEMMA PointsStayFit ==
    ASSUME TypeOK, PointsFit, NEW u, NEW p, NEW d \in Int, u \in Member => p = points[u] + d,
           SetPoints(u, p, d)
    PROVE  PointsFit'
<1>1. ASSUME NEW v \in Member PROVE points'[v] = earned'[v]
  <2>1. points[v] = earned[v] /\ points[v] \in Int
    BY DEF PointsFit, TypeOK
  <2>2. CASE v = u
    <3>1. points'[v] = points[v] + d /\ earned'[v] = earned[v] + d
      BY <2>2 DEF SetPoints, TypeOK
    <3>2. QED
      BY <2>1, <3>1
  <2>3. CASE v # u
    BY <2>1, <2>3 DEF SetPoints, TypeOK
  <2>4. QED
    BY <2>2, <2>3
<1>2. QED
  BY <1>1 DEF PointsFit

LEMMA MoneyStaysFit ==
    ASSUME TypeOK, MoneyFit, NEW u \in Member, NEW d \in Int, SetMoney(u, money[u] + d, d)
    PROVE  MoneyFit'
<1>1. ASSUME NEW v \in Member PROVE money'[v] = Opening + ledger'[v]
  <2>1. money[v] = Opening + ledger[v] /\ ledger[v] \in Int /\ Opening \in Int
    BY PointsAssumption DEF MoneyFit, TypeOK, PointsAssumption
  <2>2. CASE v = u
    <3>1. money'[v] = money[v] + d /\ ledger'[v] = ledger[v] + d
      BY <2>2 DEF SetMoney, TypeOK
    <3>2. QED
      BY <2>1, <3>1
  <2>3. CASE v # u
    BY <2>1, <2>3 DEF SetMoney, TypeOK
  <2>4. QED
    BY <2>2, <2>3
<1>2. QED
  BY <1>1 DEF MoneyFit

\* A transaction reads, and what it has read is current.
LEMMA ReadOrdered ==
    ASSUME TypeOK, Ordered, NEW c \in Conn, NEW v, conn' = [conn EXCEPT ![c] = v],
           \A d \in Conn \ {c} : conn[d] = Idle, UNCHANGED <<day, account, rows>>, Current(c)'
    PROVE  Ordered'
<1>1. \A d \in Conn \ {c} : conn'[d] = Idle
  BY DEF TypeOK
<1>2. OneOpen'
  BY <1>1 DEF OneOpen
<1>3. \A d \in Conn : Current(d)'
  <2>1. ASSUME NEW d \in Conn \ {c} PROVE Current(d)'
    BY <1>1, IdleType DEF Current
  <2>2. QED
    BY <2>1
<1>4. PointsFit' /\ MoneyFit' /\ AttendedOnce'
  BY DEF Ordered, PointsFit, MoneyFit, AttendedOnce, account, rows
<1>5. QED
  BY <1>2, <1>3, <1>4 DEF Ordered

\* A transaction ends; the accounts still fit.
LEMMA EndOrdered ==
    ASSUME TypeOK, Ordered, NEW c \in Conn, conn[c] # Idle, End(c), PointsFit', MoneyFit',
           AttendedOnce'
    PROVE  Ordered'
<1>1. \A d \in Conn : conn'[d] = Idle
  BY DEF End, Continue, TypeOK, Ordered, OneOpen
<1>2. OneOpen'
  BY <1>1 DEF OneOpen
<1>3. \A d \in Conn : Current(d)'
  BY <1>1, IdleType DEF Current
<1>4. QED
  BY <1>2, <1>3 DEF Ordered

LEMMA StartOrdered ==
    ASSUME IInv, Ordered, NEW c \in Conn, \A d \in Conn : conn[d] = Idle, Start(c) \/ ReadAll(c)
    PROVE  Ordered'
<1>0. TypeOK /\ \A d \in Conn \ {c} : conn[d] = Idle
  BY DEF IInv
<1>1. ASSUME NEW u \in Member, LookToday(c, u) PROVE Ordered'
  <2> DEFINE v == [op |-> "attend", user |-> u, today |-> day]
  <2>1. conn' = [conn EXCEPT ![c] = v] /\ UNCHANGED <<day, account, rows>> /\ conn'[c] = v
    BY <1>0, <1>1 DEF LookToday, Begin, TypeOK
  <2>2. Current(c)'
    BY <1>1, <2>1 DEF Current, LookToday, rows
  <2>3. QED
    BY <1>0, <2>1, <2>2, ReadOrdered
<1>2. ASSUME NEW u \in Member, NEW k \in Key, ReadExchange(c, u, k) PROVE Ordered'
  <2> DEFINE v == [op |-> "exchange", user |-> u, key |-> k, points |-> points[u],
                   money |-> money[u]]
  <2>1. conn' = [conn EXCEPT ![c] = v] /\ UNCHANGED <<day, account, rows>> /\ conn'[c] = v
    BY <1>0, <1>2 DEF ReadExchange, Begin, TypeOK
  <2>2. Current(c)'
    BY <2>1 DEF Current, account
  <2>3. QED
    BY <1>0, <2>1, <2>2, ReadOrdered
<1>3. ASSUME NEW u \in Member, NEW command \in {"bet", "bet-win"}, ReadBet(c, u, command)
      PROVE  Ordered'
  <2> DEFINE v == [op |-> command, user |-> u, money |-> money[u]]
  <2>1. conn' = [conn EXCEPT ![c] = v] /\ UNCHANGED <<day, account, rows>> /\ conn'[c] = v
    BY <1>0, <1>3 DEF ReadBet, Begin, TypeOK
  <2>2. Current(c)'
    BY <2>1 DEF Current, account
  <2>3. QED
    BY <1>0, <2>1, <2>2, ReadOrdered
<1>4. ASSUME NEW u \in Member, NEW e \in Event, ReadPayment(c, e, u) PROVE Ordered'
  <2> DEFINE v == [op |-> "payment", event |-> e, user |-> u, money |-> money[u]]
  <2>1. conn' = [conn EXCEPT ![c] = v] /\ UNCHANGED <<day, account, rows>> /\ conn'[c] = v
    BY <1>0, <1>4 DEF ReadPayment, Begin, TypeOK
  <2>2. Current(c)'
    BY <2>1 DEF Current, account
  <2>3. QED
    BY <1>0, <2>1, <2>2, ReadOrdered
<1>5. ASSUME ReadAll(c) PROVE Ordered'
  <2> DEFINE v == [op |-> "grant", points |-> points]
  <2>1. conn' = [conn EXCEPT ![c] = v] /\ UNCHANGED <<day, account, rows>> /\ conn'[c] = v
    BY <1>0, <1>5 DEF ReadAll, Begin, TypeOK
  <2>2. Current(c)'
    BY <2>1 DEF Current, account
  <2>3. QED
    BY <1>0, <2>1, <2>2, ReadOrdered
<1>6. QED
  BY <1>1, <1>2, <1>3, <1>4, <1>5 DEF Start

\* A transaction that goes on reading.
LEMMA ReadOnOrdered ==
    ASSUME IInv, Ordered, NEW c \in Conn, LookStreak(c) \/ ReadPoints(c) \/ ReadReferrer(c)
    PROVE  Ordered'
<1>0. TypeOK /\ Current(c) /\ \A d \in Conn \ {c} : conn[d] = Idle
  BY IdleType DEF IInv, Ordered, OneOpen, LookStreak, ReadPoints, ReadReferrer
<1> DEFINE u == conn[c].user
<1>1. CASE LookStreak(c)
  <2> DEFINE v == [op |-> "run", user |-> u, streak |-> Streak(u, conn[c].today)]
  <2>1. conn' = [conn EXCEPT ![c] = v] /\ UNCHANGED <<day, account, rows>> /\ conn'[c] = v
    BY <1>0, <1>1 DEF LookStreak, Continue, TypeOK
  <2>2. attended[u][day] = 0
    BY <1>0, <1>1 DEF LookStreak, Current
  <2>3. v.op = "run" /\ v.user = u
    OBVIOUS
  <2> HIDE DEF v
  <2>4. Current(c)'
    BY <2>1, <2>2, <2>3 DEF Current, rows
  <2>5. QED
    BY <1>0, <2>1, <2>4, ReadOrdered
<1>2. CASE ReadPoints(c)
  <2> DEFINE v == [op |-> "credit", user |-> u, streak |-> conn[c].streak, points |-> points[u]]
  <2>1. conn' = [conn EXCEPT ![c] = v] /\ UNCHANGED <<day, account, rows>> /\ conn'[c] = v
    BY <1>0, <1>2 DEF ReadPoints, Continue, TypeOK
  <2>2. attended[u][day] = 0
    BY <1>0, <1>2 DEF ReadPoints, Current
  <2>3. v.op = "credit" /\ v.user = u /\ v.points = points[u]
    OBVIOUS
  <2> HIDE DEF v
  <2>4. Current(c)'
    BY <2>1, <2>2, <2>3 DEF Current, rows, account
  <2>5. QED
    BY <1>0, <2>1, <2>4, ReadOrdered
<1>3. CASE ReadReferrer(c)
  <2> DEFINE v == [op |-> "refer", user |-> u, money |-> conn[c].money,
                   points |-> points[Referrer[u]]]
  <2>1. conn' = [conn EXCEPT ![c] = v] /\ UNCHANGED <<day, account, rows>> /\ conn'[c] = v
    BY <1>0, <1>3 DEF ReadReferrer, Continue, TypeOK
  <2>2. conn[c].money = money[u]
    BY <1>0, <1>3 DEF ReadReferrer, Current
  <2>3. v.op = "refer" /\ v.user = u /\ v.points = points[Referrer[u]] /\ v.money = conn[c].money
    OBVIOUS
  <2> HIDE DEF v
  <2>4. Current(c)'
    BY <2>1, <2>2, <2>3 DEF Current, account
  <2>5. QED
    BY <1>0, <2>1, <2>4, ReadOrdered
<1>4. QED
  BY <1>1, <1>2, <1>3

LEMMA AttendOrdered ==
    ASSUME IInv, Ordered, NEW c \in Conn, attend(c)
    PROVE  Ordered'
<1> DEFINE u == conn[c].user
           bonus == IF (conn[c].streak + 1) % BatchCount = 0 THEN BatchPoints ELSE 0
<1>0. TypeOK /\ conn[c] \in Transaction /\ Current(c) /\ conn[c] # Idle
  BY IdleType DEF IInv, TypeOK, Ordered, attend
<1>1. /\ u \in Member /\ bonus \in Nat /\ Daily \in Nat /\ day \in Day
      /\ conn[c].points = points[u] /\ attended[u][day] = 0 /\ points[u] \in Nat
  BY <1>0, OpCases, PointsAssumption DEF attend, Crediting, PointsAssumption, Current, TypeOK
<1>2. /\ SetPoints(u, conn[c].points + Daily + bonus, Daily + bonus)
      /\ attended' = [attended EXCEPT ![u][day] = @ + 1]
      /\ End(c) /\ UNCHANGED <<money, ledger>>
  BY DEF attend
<1> HIDE DEF u, bonus
<1>3. PointsFit'
  <2>1. Daily + bonus \in Int /\ conn[c].points + Daily + bonus = points[u] + (Daily + bonus)
    BY <1>1
  <2>2. QED
    BY <1>0, <1>2, <2>1, PointsStayFit DEF Ordered
<1>4. MoneyFit'
  BY <1>2 DEF Ordered, MoneyFit
<1>5. AttendedOnce'
  BY <1>0, <1>1, <1>2 DEF Ordered, AttendedOnce, TypeOK
<1>6. QED
  BY <1>0, <1>2, <1>3, <1>4, <1>5, EndOrdered

LEMMA RedeemOrdered ==
    ASSUME IInv, Ordered, NEW c \in Conn, redeem(c)
    PROVE  Ordered'
<1> DEFINE u == conn[c].user
           gain == Exchanged * Rate
<1>0. TypeOK /\ conn[c] \in Transaction /\ Current(c) /\ conn[c] # Idle
  BY IdleType DEF IInv, TypeOK, Ordered, redeem
<1>1. /\ u \in Member /\ Exchanged \in Nat /\ Rate \in Nat /\ points[u] \in Nat
      /\ conn[c].points = points[u] /\ conn[c].money = money[u]
  BY <1>0, OpCases, PointsAssumption DEF redeem, Exchanging, PointsAssumption, Current, TypeOK
<1>2. gain \in Int
  BY <1>1
<1>3. /\ SetPoints(u, conn[c].points - Exchanged, -Exchanged)
      /\ SetMoney(u, money[u] + gain, gain)
      /\ End(c) /\ UNCHANGED attended
  BY <1>1 DEF redeem, Exchange
<1> HIDE DEF u, gain
<1>4. PointsFit'
  <2>1. -Exchanged \in Int /\ conn[c].points - Exchanged = points[u] + (-Exchanged)
    BY <1>1
  <2>2. QED
    BY <1>0, <1>3, <2>1, PointsStayFit DEF Ordered
<1>5. MoneyFit'
  BY <1>0, <1>1, <1>2, <1>3, MoneyStaysFit DEF Ordered
<1>6. AttendedOnce'
  BY <1>3 DEF Ordered, AttendedOnce
<1>7. QED
  BY <1>0, <1>3, <1>4, <1>5, <1>6, EndOrdered

\* The three kinds of bet take the stake.
LEMMA BetOrdered ==
    ASSUME IInv, Ordered, NEW c \in Conn, creditReferrer(c) \/ Bet(c) \/ LoseBet(c)
    PROVE  Ordered'
<1> DEFINE u == conn[c].user
<1>0. TypeOK /\ conn[c] \in Transaction /\ Current(c) /\ conn[c] # Idle
  BY IdleType DEF IInv, TypeOK, Ordered, creditReferrer, Bet, LoseBet
<1>1. /\ u \in Member /\ Stake \in Nat /\ conn[c].money = money[u] /\ money[u] \in Nat
      /\ LosePoints \in Int /\ ReferrerPoints \in Int
  BY <1>0, OpCases, PointsAssumption
  DEF creditReferrer, Bet, LoseBet, Betting, Referring, PointsAssumption, Current, TypeOK
<1>2. SetMoney(u, conn[c].money - Stake, -Stake) /\ End(c) /\ UNCHANGED attended
  BY DEF creditReferrer, Bet, LoseBet
<1>3. \/ UNCHANGED <<points, earned>>
      \/ SetPoints(u, points[u] + LosePoints, LosePoints)
      \/ /\ conn[c].op = "refer"
         /\ SetPoints(Referrer[u], conn[c].points + ReferrerPoints, ReferrerPoints)
  BY DEF creditReferrer, Bet, LoseBet
<1>4. conn[c].op = "refer" => conn[c].points = points[Referrer[u]]
  BY <1>0 DEF Current
<1> HIDE DEF u
<1>5. PointsFit'
  <2>1. CASE UNCHANGED <<points, earned>>
    BY <2>1 DEF Ordered, PointsFit
  <2>2. CASE SetPoints(u, points[u] + LosePoints, LosePoints)
    BY <1>0, <1>1, <2>2, PointsStayFit DEF Ordered
  <2>3. CASE /\ conn[c].op = "refer"
             /\ SetPoints(Referrer[u], conn[c].points + ReferrerPoints, ReferrerPoints)
    BY <1>0, <1>1, <1>4, <2>3, PointsStayFit DEF Ordered
  <2>4. QED
    BY <1>3, <2>1, <2>2, <2>3
<1>6. MoneyFit'
  <2>1. -Stake \in Int /\ conn[c].money - Stake = money[u] + (-Stake)
    BY <1>1
  <2>2. QED
    BY <1>0, <1>1, <1>2, <2>1, MoneyStaysFit DEF Ordered
<1>7. AttendedOnce'
  BY <1>2 DEF Ordered, AttendedOnce
<1>8. QED
  BY <1>0, <1>2, <1>5, <1>6, <1>7, EndOrdered

LEMMA GrantOrdered ==
    ASSUME IInv, Ordered, NEW c \in Conn, grantAllForPlatform(c)
    PROVE  Ordered'
<1>0. TypeOK /\ Current(c) /\ conn[c] # Idle
  BY IdleType DEF IInv, TypeOK, Ordered, grantAllForPlatform
<1>1. /\ conn[c].points = points
      /\ points' = [u \in Member |-> conn[c].points[u] + GrantPoints]
      /\ earned' = [u \in Member |-> earned[u] + GrantPoints]
      /\ End(c) /\ UNCHANGED <<money, ledger, attended>>
  BY <1>0 DEF Current, grantAllForPlatform, rows
<1>2. PointsFit' /\ MoneyFit' /\ AttendedOnce'
  BY <1>1 DEF Ordered, PointsFit, MoneyFit, AttendedOnce
<1>3. QED
  BY <1>0, <1>1, <1>2, EndOrdered

LEMMA PayOrdered ==
    ASSUME IInv, Ordered, NEW c \in Conn, conn[c].op = "payment", handleWebhook(c)
    PROVE  Ordered'
<1> DEFINE u == conn[c].user
           e == conn[c].event
           first == IF FirstCharge(u) THEN FirstPoints ELSE 0
<1>0. TypeOK /\ conn[c] \in Transaction /\ Current(c) /\ conn[c] # Idle
  BY IdleType DEF IInv, TypeOK, Ordered
<1>1. /\ u \in Member /\ Amount \in Nat /\ first \in Nat /\ TierPoints \in Nat
      /\ conn[c].money = money[u] /\ points[u] \in Nat /\ money[u] \in Nat
  BY <1>0, OpCases, PointsAssumption DEF Handling, PointsAssumption, Current, TypeOK
<1>2. /\ End(c) /\ UNCHANGED attended
      /\ \/ /\ SetMoney(u, conn[c].money + Amount, Amount)
            /\ SetPoints(u, points[u] + first + TierPoints, first + TierPoints)
         \/ /\ SetMoney(u, conn[c].money - Amount, -Amount)
            /\ UNCHANGED <<points, earned>>
  BY DEF handleWebhook, Pay
<1> HIDE DEF u, e, first
<1>3. CASE /\ SetMoney(u, conn[c].money + Amount, Amount)
           /\ SetPoints(u, points[u] + first + TierPoints, first + TierPoints)
  <2>1. first + TierPoints \in Int /\ points[u] + first + TierPoints = points[u] + (first + TierPoints)
    BY <1>1
  <2>2. PointsFit'
    BY <1>0, <1>3, <2>1, PointsStayFit DEF Ordered
  <2>3. MoneyFit'
    BY <1>0, <1>1, <1>3, MoneyStaysFit DEF Ordered
  <2>4. AttendedOnce'
    BY <1>2 DEF Ordered, AttendedOnce
  <2>5. QED
    BY <1>0, <1>2, <2>2, <2>3, <2>4, EndOrdered
<1>4. CASE SetMoney(u, conn[c].money - Amount, -Amount) /\ UNCHANGED <<points, earned>>
  <2>1. -Amount \in Int /\ conn[c].money - Amount = money[u] + (-Amount)
    BY <1>1
  <2>2. MoneyFit'
    BY <1>0, <1>1, <1>4, <2>1, MoneyStaysFit DEF Ordered
  <2>3. PointsFit' /\ AttendedOnce'
    BY <1>2, <1>4 DEF Ordered, PointsFit, AttendedOnce
  <2>4. QED
    BY <1>0, <1>2, <2>2, <2>3, EndOrdered
<1>5. QED
  BY <1>2, <1>3, <1>4

LEMMA AbortOrdered ==
    ASSUME IInv, Ordered, NEW c \in Conn, Abort(c)
    PROVE  Ordered'
<1>1. PointsFit' /\ MoneyFit' /\ AttendedOnce'
  BY DEF Abort, Ordered, PointsFit, MoneyFit, AttendedOnce, account, rows
<1>2. QED
  BY <1>1, EndOrdered DEF Abort, IInv

SerialInv == IInv /\ (serial => Ordered)

LEMMA SerialInductive == SerialInv /\ [MCNext]_mcvars => SerialInv'
<1> SUFFICES ASSUME SerialInv, [MCNext]_mcvars PROVE SerialInv'
  OBVIOUS
<1>1. [Next]_vars
  BY DEF MCNext, mcvars, Next
<1>2. IInv'
  BY <1>1, Inductive DEF SerialInv
<1>3. ASSUME serial PROVE Ordered'
  <2>0. IInv /\ Ordered
    BY <1>3 DEF SerialInv
  <2>1. CASE UNCHANGED mcvars
    BY <2>0, <2>1
    DEF mcvars, vars, account, rows, Ordered, PointsFit, MoneyFit, AttendedOnce, OneOpen, Current
  <2>2. CASE NextDay /\ \A c \in Conn : conn[c] = Idle
    <3>1. \A c \in Conn : Current(c)'
      BY <2>2, IdleType DEF NextDay, Current
    <3>2. QED
      BY <2>0, <2>2, <3>1
      DEF NextDay, account, rows, Ordered, PointsFit, MoneyFit, AttendedOnce, OneOpen
  <2>3. ASSUME NEW c \in Conn, Proceed(c) PROVE Ordered'
    BY <2>0, <2>3, ReadOnOrdered, AttendOrdered, RedeemOrdered, BetOrdered, GrantOrdered,
       PayOrdered, AbortOrdered DEF Proceed
  <2>4. ASSUME NEW c \in Conn, MayStart(c), Start(c) \/ ReadAll(c) PROVE Ordered'
    BY <1>3, <2>0, <2>4, StartOrdered DEF MayStart
  <2>5. ASSUME NEW e \in Event, Ignore(e) PROVE Ordered'
    BY <2>0, <2>5
    DEF Ignore, account, Ordered, PointsFit, MoneyFit, AttendedOnce, OneOpen, Current
  <2>6. QED
    BY <1>3, <2>1, <2>2, <2>3, <2>4, <2>5 DEF MCNext
<1>4. serial' = serial
  BY DEF MCNext, mcvars
<1>5. QED
  BY <1>2, <1>3, <1>4 DEF SerialInv

LEMMA SerialInit == MCInit => SerialInv
<1> SUFFICES ASSUME MCInit PROVE SerialInv
  OBVIOUS
<1>1. IInv
  BY InitInv DEF MCInit
<1>2. PointsFit /\ MoneyFit /\ AttendedOnce
  BY PointsAssumption
  DEF MCInit, Init, PointsFit, MoneyFit, AttendedOnce, PointsAssumption
<1>3. OneOpen /\ \A c \in Conn : Current(c)
  BY IdleType DEF MCInit, Init, OneOpen, Current
<1>4. QED
  BY <1>1, <1>2, <1>3 DEF SerialInv, Ordered

\* One transaction after the other, the points and the money of every member are
\* what the entries of the two ledgers add up to (PointLedgerEntry, LedgerEntry).
THEOREM PointsReconcile == MCSpec => []SerialReconciles
<1>1. SerialInv => SerialReconciles
  BY DEF SerialInv, Ordered, PointsFit, MoneyFit, SerialReconciles, Reconciles
<1>2. QED
  BY <1>1, SerialInit, SerialInductive, PTL DEF MCSpec

\* One attendance after the other, a member attends at most once a day (attend).
THEOREM AttendsOnceADay == MCSpec => []SerialAttendedOnce
<1>1. SerialInv => SerialAttendedOnce
  BY DEF SerialInv, Ordered, SerialAttendedOnce
<1>2. QED
  BY <1>1, SerialInit, SerialInductive, PTL DEF MCSpec

=============================================================================
