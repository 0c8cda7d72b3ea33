------------------------- MODULE WalletRequestsProofs -------------------------
(***************************************************************************)
(* What holds of deposits and withdrawals, for any numbers of requests,    *)
(* messages and amounts: however transactions overlap, and, in the last    *)
(* part, when they follow each other.                                      *)
(***************************************************************************)
EXTENDS MCWalletRequests, TLAPS

\* A message that is not stored has credited nothing; this keeps the row and
\* the credit together.
IInv ==
    /\ TypeOK
    /\ AwardedOnce
    /\ \A s \in Sms : credits[s] = IF smsRow[s] = "AUTO_CREDITED" THEN 1 ELSE 0

\* What a connection may hold.
ConnState == {Idle} \cup Creating \cup Closing \cup Approving \cup Paying \cup Matching \cup Crediting

-----------------------------------------------------------------------------
(* Small facts *)

\* What an open transaction has read is told by its op.
LEMMA OpCases ==
    ASSUME TypeOK, NEW c \in Conn
    PROVE  /\ conn[c].op = "create" => conn[c] \in Creating
           /\ conn[c].op = "close" => conn[c] \in Closing
           /\ conn[c].op = "approve" => conn[c] \in Approving
           /\ conn[c].op = "pay" => conn[c] \in Paying
           /\ conn[c].op = "match" => conn[c] \in Matching
           /\ conn[c].op = "credit" => conn[c] \in Crediting
BY DEF TypeOK, Idle, Creating, Closing, Approving, Paying, Matching, Crediting

\* A step of one transaction leaves what the others have read well typed.
LEMMA ConnType ==
    ASSUME TypeOK, NEW c \in Conn, NEW v \in ConnState, conn' = [conn EXCEPT ![c] = v]
    PROVE  conn' \in [Conn -> ConnState]
BY DEF TypeOK, ConnState

LEMMA NatProduct == ASSUME NEW a \in Nat, NEW b \in Nat PROVE a * b \in Nat
OBVIOUS

\* Credits and deductions keep the type of a wallet.
LEMMA BucketTypes ==
    ASSUME NEW w \in WalletState, NEW amt \in Nat
    PROVE  /\ totalFromBuckets(w) \in Int
           /\ creditLockedDeposit(w, amt) \in WalletState
           /\ deductStake(w, amt) \in WalletState
<1>1. /\ w.pointFree \in Int /\ w.compFree \in Int
      /\ w.lockedDeposit \in Int /\ w.lockedWin \in Int
  BY DEF WalletState, Bucket
<1>2. totalFromBuckets(w) \in Int
  BY <1>1 DEF totalFromBuckets
<1>3. creditLockedDeposit(w, amt) \in WalletState
  BY <1>1 DEF creditLockedDeposit, WalletState, Bucket
<1>4. deductStake(w, amt) \in WalletState
  <2> DEFINE fromPoint == Smaller(w.pointFree, amt)
             fromComp == Smaller(w.compFree, amt - fromPoint)
             fromDeposit == Smaller(w.lockedDeposit, amt - fromPoint - fromComp)
             fromWin == Smaller(w.lockedWin, amt - fromPoint - fromComp - fromDeposit)
  <2>1. fromPoint \in Int
    BY <1>1 DEF Smaller
  <2>2. fromComp \in Int
    <3> HIDE DEF fromPoint
    <3>1. QED
      BY <1>1, <2>1 DEF Smaller
  <2>3. fromDeposit \in Int
    <3> HIDE DEF fromPoint, fromComp
    <3>1. QED
      BY <1>1, <2>1, <2>2 DEF Smaller
  <2>4. fromWin \in Int
    <3> HIDE DEF fromPoint, fromComp, fromDeposit
    <3>1. QED
      BY <1>1, <2>1, <2>2, <2>3 DEF Smaller
  <2> DEFINE r == [w EXCEPT !.pointFree = @ - fromPoint, !.compFree = @ - fromComp,
                            !.lockedDeposit = @ - fromDeposit, !.lockedWin = @ - fromWin]
  <2>5. deductStake(w, amt) = IF amt <= 0 THEN w ELSE r
    BY DEF deductStake
  <2> HIDE DEF fromPoint, fromComp, fromDeposit, fromWin
  <2>6. /\ r.pointFree = w.pointFree - fromPoint /\ r.compFree = w.compFree - fromComp
        /\ r.lockedDeposit = w.lockedDeposit - fromDeposit
        /\ r.lockedWin = w.lockedWin - fromWin
        /\ DOMAIN r = Bucket /\ r = [b \in Bucket |-> r[b]]
    BY DEF WalletState, Bucket
  <2>7. r \in WalletState
    <3> HIDE DEF r
    <3>1. \A b \in Bucket : r[b] \in Int
      BY <1>1, <2>1, <2>2, <2>3, <2>4, <2>6 DEF Bucket
    <3>2. QED
      BY <2>6, <3>1 DEF WalletState
  <2> HIDE DEF r
  <2>8. QED
    BY <2>5, <2>7
<1>5. QED
  BY <1>2, <1>3, <1>4

LEMMA InitIInv == Init => IInv
<1> SUFFICES ASSUME Init PROVE IInv
  OBVIOUS
<1>1. NoRequest \in Request /\ Opening \in Int
  BY RequestAssumption DEF RequestAssumption, NoRequest, Request, RequestType
<1>2. wallet \in WalletState
  BY <1>1 DEF Init, Empty, WalletState, Bucket
<1>3. QED
  BY <1>1, <1>2 DEF Init, IInv, TypeOK, AwardedOnce, Award

-----------------------------------------------------------------------------
(* Steps that move no money *)

LEMMA ReadStep ==
    ASSUME IInv, NEW c \in Conn, NEW v \in ConnState, conn' = [conn EXCEPT ![c] = v],
           request' \in [Req -> Request], UNCHANGED <<money, smsRow>>
    PROVE  IInv'
<1>1. conn' \in [Conn -> ConnState]
  BY ConnType DEF IInv
<1>2. TypeOK'
  BY <1>1 DEF IInv, TypeOK, money, ConnState
<1>3. QED
  BY <1>2 DEF IInv, AwardedOnce, money

LEMMA BeginStep ==
    ASSUME IInv, NEW c \in Conn,
           \/ CheckRequest(c) \/ createForUser(c) \/ Close(c) \/ Abort(c)
           \/ \E r \in Req : FindToCancel(c, r) \/ FindToReject(c, r) \/ FindToApprove(c, r)
           \/ \E s \in Sms : MatchRequest(c, s)
    PROVE  IInv'
<1>1. request \in [Req -> Request] /\ Idle \in ConnState
  BY DEF IInv, TypeOK, ConnState
<1>2. CASE CheckRequest(c)
  <2>1. PICK type \in RequestType, amount \in Amounts :
          conn' = [conn EXCEPT ![c] = [op |-> "create", type |-> type, amount |-> amount]]
    BY <1>2 DEF CheckRequest, Begin
  <2>2. [op |-> "create", type |-> type, amount |-> amount] \in ConnState
    BY RequestAssumption DEF RequestAssumption, ConnState, Creating
  <2>3. QED
    BY <1>1, <1>2, <2>1, <2>2, ReadStep DEF CheckRequest
<1>3. CASE createForUser(c)
  <2>1. PICK r \in Req :
          request' = [request EXCEPT ![r] =
                        [type |-> conn[c].type, amount |-> conn[c].amount, recent |-> TRUE,
                         status |-> "PENDING"]]
    BY <1>3 DEF createForUser
  <2>2. conn[c] \in Creating
    BY <1>3, OpCases DEF createForUser, IInv
  <2>3. request' \in [Req -> Request]
    BY <1>1, <2>1, <2>2 DEF Creating, Request
  <2>4. QED
    BY <1>1, <1>3, <2>3, ReadStep DEF createForUser, End, Continue
<1>4. CASE Close(c)
  <2>1. request' \in [Req -> Request]
    BY <1>1, <1>4 DEF Close, Request
  <2>2. QED
    BY <1>1, <1>4, <2>1, ReadStep DEF Close, End, Continue
<1>5. CASE Abort(c)
  BY <1>1, <1>5, ReadStep DEF Abort, End, Continue
<1>6. ASSUME NEW r \in Req, FindToCancel(c, r) \/ FindToReject(c, r) PROVE IInv'
  <2>1. [op |-> "close", req |-> r] \in ConnState
    BY DEF ConnState, Closing
  <2>2. QED
    BY <1>1, <1>6, <2>1, ReadStep DEF FindToCancel, FindToReject, Begin
<1>7. ASSUME NEW r \in Req, FindToApprove(c, r) PROVE IInv'
  <2>1. [op |-> "approve", req |-> r] \in ConnState
    BY DEF ConnState, Approving
  <2>2. QED
    BY <1>1, <1>7, <2>1, ReadStep DEF FindToApprove, Begin
<1>8. ASSUME NEW s \in Sms, MatchRequest(c, s) PROVE IInv'
  <2>1. PICK r \in Req : conn' = [conn EXCEPT ![c] = [op |-> "match", sms |-> s, req |-> r]]
    BY <1>8 DEF MatchRequest, Begin, Candidates
  <2>2. [op |-> "match", sms |-> s, req |-> r] \in ConnState
    BY DEF ConnState, Matching
  <2>3. QED
    BY <1>1, <1>8, <2>1, <2>2, ReadStep DEF MatchRequest
<1>9. QED
  BY <1>2, <1>3, <1>4, <1>5, <1>6, <1>7, <1>8

LEMMA ReadWalletStep == ASSUME IInv, NEW c \in Conn, ReadWallet(c) PROVE IInv'
<1> DEFINE r == conn[c].req
           next == IF IsDeposit(r) THEN creditLockedDeposit(wallet, request[r].amount)
                   ELSE deductStake(wallet, request[r].amount)
           x == [op |-> "pay", req |-> r, next |-> next]
<1>1. r \in Req /\ request \in [Req -> Request] /\ wallet \in WalletState
  BY OpCases DEF ReadWallet, Approving, IInv, TypeOK
<1>2. request[r].amount \in Nat
  BY <1>1 DEF Request
<1>3. next \in WalletState
  BY <1>1, <1>2, BucketTypes
<1>4. conn' = [conn EXCEPT ![c] = x]
  BY DEF ReadWallet, Continue
<1> HIDE DEF r, next
<1>5. x \in ConnState
  BY <1>1, <1>3 DEF ConnState, Paying
<1> HIDE DEF x
<1>6. QED
  BY <1>1, <1>4, <1>5, ReadStep DEF ReadWallet

LEMMA ReadBalanceStep == ASSUME IInv, NEW c \in Conn, ReadBalance(c) PROVE IInv'
<1> DEFINE x == [op |-> "credit", sms |-> conn[c].sms, req |-> conn[c].req,
                 newBal |-> balance + request[conn[c].req].amount]
<1>1. conn[c] \in Matching /\ request \in [Req -> Request] /\ balance \in Int
  BY OpCases DEF ReadBalance, IInv, TypeOK
<1>2. conn[c].sms \in Sms /\ conn[c].req \in Req
  BY <1>1 DEF Matching
<1>3. request[conn[c].req].amount \in Nat
  BY <1>1, <1>2 DEF Request
<1>4. x \in ConnState
  BY <1>1, <1>2, <1>3 DEF ConnState, Crediting
<1>5. conn' = [conn EXCEPT ![c] = x]
  BY DEF ReadBalance, Continue
<1> HIDE DEF x
<1>6. QED
  BY <1>1, <1>4, <1>5, ReadStep DEF ReadBalance

-----------------------------------------------------------------------------
(* Steps that move money *)

\* A request that is resolved keeps the type of the rows and of the counters.
LEMMA ResolveType ==
    ASSUME IInv, NEW r \in Req, request' = [request EXCEPT ![r].status = "APPROVED"],
           moved' = [moved EXCEPT ![r] = @ + 1]
    PROVE  request' \in [Req -> Request] /\ moved' \in [Req -> Nat]
BY DEF IInv, TypeOK, Request

LEMMA AwardType ==
    ASSUME IInv, NEW kind \in Award, NEW amount \in Nat
    PROVE  /\ AwardOf(kind, amount) \in Nat
           /\ awarded[kind] + (IF AwardOf(kind, amount) > 0 THEN 1 ELSE 0) \in {0, 1}
BY DEF AwardOf, IInv, TypeOK, AwardedOnce

LEMMA ApproveStep == ASSUME IInv, NEW c \in Conn, approve(c) PROVE IInv'
<1> DEFINE r == conn[c].req
           amount == request[r].amount
           bonus == AwardOf("bonus", FirstBonus)
           first == AwardOf("points", FirstPoints)
<1>1. /\ r \in Req /\ conn[c].next \in WalletState
      /\ IF IsDeposit(r) THEN PayDeposit(c, amount) ELSE PayWithdrawal(c, amount)
      /\ request' = [request EXCEPT ![r].status = "APPROVED"]
      /\ moved' = [moved EXCEPT ![r] = @ + 1]
      /\ conn' = [conn EXCEPT ![c] = Idle]
      /\ UNCHANGED <<smsRow, credits>>
  BY OpCases DEF approve, Paying, IInv, End, Continue
<1>2. /\ amount \in Nat /\ balance \in Int /\ ledger \in Int /\ owed \in Nat /\ points \in Nat
      /\ awarded \in [Award -> Nat]
  BY <1>1 DEF IInv, TypeOK, Request
<1>3. {Opening, Multiplier, FirstBonus, FirstPoints, TierPoints} \subseteq Nat
  BY RequestAssumption DEF RequestAssumption
<1>4. request' \in [Req -> Request] /\ moved' \in [Req -> Nat]
  <2> HIDE DEF r
  <2>1. QED
    BY <1>1, ResolveType
<1>5. conn' \in [Conn -> ConnState]
  BY <1>1, ConnType DEF ConnState, IInv
<1> HIDE DEF r, amount
<1>6. /\ wallet' \in WalletState /\ balance' \in Int /\ ledger' \in Int /\ owed' \in Nat
      /\ points' \in Nat /\ awarded' \in [Award -> {0, 1}]
  <2>1. CASE IsDeposit(r)
    <3>1. /\ bonus \in Nat /\ first \in Nat
          /\ awarded["bonus"] + (IF bonus > 0 THEN 1 ELSE 0) \in {0, 1}
          /\ awarded["points"] + (IF first > 0 THEN 1 ELSE 0) \in {0, 1}
      BY <1>3, AwardType DEF Award
    <3>2. /\ Persist(creditLockedDeposit(conn[c].next, bonus))
          /\ ledger' = ledger + amount + bonus
          /\ owed' = owed + Multiplier * (amount + bonus)
          /\ points' = points + first + TierPoints
          /\ awarded' = [bonus |-> awarded["bonus"] + (IF bonus > 0 THEN 1 ELSE 0),
                         points |-> awarded["points"] + (IF first > 0 THEN 1 ELSE 0)]
      BY <1>1, <2>1 DEF PayDeposit
    <3> HIDE DEF bonus, first
    <3>3. creditLockedDeposit(conn[c].next, bonus) \in WalletState
      BY <1>1, <3>1, BucketTypes
    <3>4. wallet' \in WalletState /\ balance' \in Int
      BY <3>2, <3>3, BucketTypes DEF Persist
    <3>5. amount + bonus \in Nat /\ Multiplier \in Nat
      BY <1>2, <1>3, <3>1
    <3>6. Multiplier * (amount + bonus) \in Nat
      BY <3>5, NatProduct
    <3>7. owed' \in Nat
      BY <1>2, <3>2, <3>6
    <3>8. ledger' \in Int /\ points' \in Nat
      BY <1>2, <1>3, <3>1, <3>2
    <3>9. awarded' \in [Award -> {0, 1}]
      BY <3>1, <3>2 DEF Award
    <3>10. QED
      BY <3>4, <3>7, <3>8, <3>9
  <2>2. CASE ~IsDeposit(r)
    <3>1. /\ Persist(conn[c].next) /\ ledger' = ledger - amount
          /\ UNCHANGED <<owed, points, awarded>>
      BY <1>1, <2>2 DEF PayWithdrawal
    <3>2. wallet' \in WalletState /\ balance' \in Int
      BY <1>1, <3>1, BucketTypes DEF Persist
    <3>3. \A a \in Award : awarded[a] \in {0, 1}
      BY <1>2 DEF IInv, AwardedOnce
    <3>4. QED
      BY <1>2, <3>1, <3>2, <3>3
  <2>3. QED
    BY <2>1, <2>2
<1>7. TypeOK'
  BY <1>1, <1>4, <1>5, <1>6 DEF IInv, TypeOK, ConnState
<1>8. QED
  BY <1>1, <1>6, <1>7 DEF IInv, AwardedOnce

LEMMA CreditStep == ASSUME IInv, NEW c \in Conn, Credit(c) PROVE IInv'
<1> DEFINE r == conn[c].req
           s == conn[c].sms
<1>1. /\ r \in Req /\ s \in Sms /\ smsRow[s] = "none" /\ conn[c].newBal \in Int
      /\ balance' = conn[c].newBal
      /\ ledger' = ledger + request[r].amount
      /\ owed' = owed + Multiplier * request[r].amount
      /\ request' = [request EXCEPT ![r].status = "APPROVED"]
      /\ moved' = [moved EXCEPT ![r] = @ + 1]
      /\ smsRow' = [smsRow EXCEPT ![s] = "AUTO_CREDITED"]
      /\ credits' = [credits EXCEPT ![s] = @ + 1]
      /\ conn' = [conn EXCEPT ![c] = Idle]
      /\ UNCHANGED <<wallet, points, awarded>>
  BY OpCases DEF Credit, CreditRequest, Crediting, IInv, End, Continue
<1> HIDE DEF r, s
<1>2. request[r].amount \in Nat /\ ledger \in Int /\ owed \in Nat /\ Multiplier \in Nat
  BY <1>1, RequestAssumption DEF RequestAssumption, IInv, TypeOK, Request
<1>3. request' \in [Req -> Request] /\ moved' \in [Req -> Nat]
  BY <1>1, ResolveType
<1>4. conn' \in [Conn -> ConnState]
  BY <1>1, ConnType DEF ConnState, IInv
<1>5. Multiplier * request[r].amount \in Nat
  BY <1>2, NatProduct
<1>6. balance' \in Int /\ ledger' \in Int /\ owed' \in Nat
  BY <1>1, <1>2, <1>5
<1>7. /\ smsRow' \in [Sms -> {"none", "AUTO_CREDITED", "UNUSED"}]
      /\ credits' \in [Sms -> Nat]
      /\ \A t \in Sms : credits'[t] = IF smsRow'[t] = "AUTO_CREDITED" THEN 1 ELSE 0
  BY <1>1 DEF IInv, TypeOK
<1>8. TypeOK'
  BY <1>1, <1>3, <1>4, <1>6, <1>7 DEF IInv, TypeOK, ConnState
<1>9. QED
  BY <1>1, <1>7, <1>8 DEF IInv, AwardedOnce

LEMMA StoreStep == ASSUME IInv, NEW s \in Sms, Store(s) PROVE IInv'
<1>1. /\ smsRow' \in [Sms -> {"none", "AUTO_CREDITED", "UNUSED"}]
      /\ \A t \in Sms : credits'[t] = IF smsRow'[t] = "AUTO_CREDITED" THEN 1 ELSE 0
  BY DEF Store, money, IInv, TypeOK
<1>2. QED
  BY <1>1 DEF Store, money, IInv, TypeOK, AwardedOnce

LEMMA HourStep == ASSUME IInv, NEW r \in Req, HourPasses(r) PROVE IInv'
<1>1. request' \in [Req -> Request]
  <2>1. \A q \in Req : (request[q].recent /\ q > r) \in BOOLEAN
    OBVIOUS
  <2>2. \A q \in Req : [request[q] EXCEPT !.recent = @ /\ q > r] \in Request
    BY <2>1 DEF IInv, TypeOK, Request
  <2>3. QED
    BY <2>2 DEF HourPasses
<1>2. TypeOK'
  BY <1>1 DEF HourPasses, money, IInv, TypeOK
<1>3. QED
  BY <1>2 DEF HourPasses, money, IInv, AwardedOnce

LEMMA BetStep == ASSUME IInv, NEW c \in Conn, Bet(c) PROVE IInv'
<1>1. PICK stake \in Stakes :
        /\ Persist(deductStake(wallet, stake))
        /\ ledger' = ledger - stake
        /\ owed' = Turned(stake)
        /\ UNCHANGED <<points, request, awarded, smsRow, moved, credits, conn>>
  BY DEF Bet
<1>2. stake \in Nat /\ wallet \in WalletState /\ owed \in Nat /\ ledger \in Int
  BY RequestAssumption DEF RequestAssumption, IInv, TypeOK
<1>3. wallet' \in WalletState /\ balance' \in Int
  BY <1>1, <1>2, BucketTypes DEF Persist
<1>4. owed' \in Nat /\ ledger' \in Int
  BY <1>1, <1>2 DEF Turned, Smaller
<1>5. TypeOK'
  BY <1>1, <1>3, <1>4 DEF IInv, TypeOK
<1>6. QED
  BY <1>1, <1>5 DEF IInv, AwardedOnce

-----------------------------------------------------------------------------
(* The theorems *)

LEMMA NextIInv == IInv /\ [Next]_vars => IInv'
<1> SUFFICES ASSUME IInv, [Next]_vars PROVE IInv'
  OBVIOUS
<1>1. ASSUME NEW c \in Conn, Step(c) PROVE IInv'
  BY <1>1, BeginStep, ReadWalletStep, ApproveStep, ReadBalanceStep, CreditStep, BetStep DEF Step
<1>2. CASE UNCHANGED vars
  BY <1>2 DEF vars, IInv, TypeOK, AwardedOnce
<1>3. QED
  BY <1>1, <1>2, HourStep, StoreStep DEF Next

LEMMA AlwaysIInv == Spec => []IInv
BY InitIInv, NextIInv, PTL DEF Spec

\* Every reachable state is well typed; the turnover owed never goes below zero
\* (rolling-obligation.service.ts, applyBetStake).
THEOREM RequestsTypeCorrect == Spec => []TypeOK
<1>1. IInv => TypeOK
  BY DEF IInv
<1>2. QED
  BY <1>1, AlwaysIInv, PTL

\* Whatever approvals overlap, a first-charge award is given once (applyEligibleBonus
\* in deposit-events.service.ts, maybeCreditDepositPoints in points.service.ts).
THEOREM AwardsGivenOnce == Spec => []AwardedOnce
<1>1. IInv => AwardedOnce
  BY DEF IInv
<1>2. QED
  BY <1>1, AlwaysIInv, PTL

\* However often a message is forwarded, and whatever overlaps, it credits at most
\* one deposit (process-sms.ts, processSmsIngest).
THEOREM MessagesCreditOnce == Spec => []MessageCreditsOnce
<1>1. IInv => MessageCreditsOnce
  BY DEF IInv, MessageCreditsOnce
<1>2. QED
  BY <1>1, AlwaysIInv, PTL

\* As long as no message has credited a deposit the balance is the sum of the
\* buckets, whatever overlaps: the worker is the only writer of the balance alone
\* (process-sms.ts, tryAutoCreditDeposit).
THEOREM BucketsMatchUntilMessage == Spec => []MatchesUntilMessage
<1>1. Init => MatchesUntilMessage
  <2>1. Init => /\ wallet.lockedDeposit = Opening /\ wallet.compFree = 0
                /\ wallet.lockedWin = 0 /\ wallet.pointFree = 0 /\ balance = Opening
    BY DEF Init, Empty, Bucket
  <2>2. QED
    BY <2>1, RequestAssumption
    DEF RequestAssumption, MatchesUntilMessage, BalanceMatchesBuckets, totalFromBuckets
<1>2. MatchesUntilMessage /\ TypeOK /\ [Next]_vars => MatchesUntilMessage'
  <2> SUFFICES ASSUME MatchesUntilMessage, TypeOK, [Next]_vars PROVE MatchesUntilMessage'
    OBVIOUS
  <2>1. ASSUME NEW next, Persist(next) PROVE MatchesUntilMessage'
    BY <2>1 DEF Persist, MatchesUntilMessage, BalanceMatchesBuckets, totalFromBuckets
  <2>2. ASSUME UNCHANGED <<wallet, balance, credits>> PROVE MatchesUntilMessage'
    BY <2>2 DEF MatchesUntilMessage, BalanceMatchesBuckets, totalFromBuckets
  <2>3. ASSUME NEW c \in Conn, Step(c) PROVE MatchesUntilMessage'
    <3>1. CASE approve(c)
      BY <2>1, <3>1 DEF approve, PayDeposit, PayWithdrawal
    <3>2. CASE Bet(c)
      BY <2>1, <3>2 DEF Bet
    <3>3. CASE Credit(c)
      <4>1. PICK s \in Sms : s = conn[c].sms
        BY <3>3, OpCases DEF Credit, Crediting
      <4>2. credits[s] \in Nat /\ credits' = [credits EXCEPT ![s] = @ + 1]
        BY <3>3, <4>1 DEF Credit, CreditRequest, TypeOK
      <4>3. credits'[s] # 0
        BY <4>2 DEF TypeOK
      <4>4. QED
        BY <4>3 DEF MatchesUntilMessage
    <3>4. CASE UNCHANGED money
      BY <2>2, <3>4 DEF money
    <3>5. QED
      BY <2>3, <3>1, <3>2, <3>3, <3>4
      DEF Step, CheckRequest, createForUser, Close, ReadWallet, FindToCancel, FindToReject,
          FindToApprove, MatchRequest, ReadBalance, Abort
  <2>4. CASE UNCHANGED vars
    BY <2>2, <2>4 DEF vars
  <2>5. QED
    BY <2>2, <2>3, <2>4 DEF Next, HourPasses, Store, money
<1>3. QED
  BY <1>1, <1>2, RequestsTypeCorrect, PTL DEF Spec

-----------------------------------------------------------------------------
(* One after the other *)

\* What a deduction leaves.
LEMMA Deducted ==
    ASSUME NEW w \in Wallet, NEW amt \in Nat, Covers(w, amt)
    PROVE  /\ deductStake(w, amt) \in Wallet
           /\ totalFromBuckets(deductStake(w, amt)) = totalFromBuckets(w) - amt
<1> DEFINE fromPoint == Smaller(w.pointFree, amt)
           fromComp == Smaller(w.compFree, amt - fromPoint)
           fromDeposit == Smaller(w.lockedDeposit, amt - fromPoint - fromComp)
           fromWin == Smaller(w.lockedWin, amt - fromPoint - fromComp - fromDeposit)
           r == [w EXCEPT !.pointFree = @ - fromPoint, !.compFree = @ - fromComp,
                          !.lockedDeposit = @ - fromDeposit, !.lockedWin = @ - fromWin]
<1>1. /\ w.pointFree \in Nat /\ w.compFree \in Nat
      /\ w.lockedDeposit \in Nat /\ w.lockedWin \in Nat
  BY DEF Wallet, Bucket
<1>2. amt <= w.lockedDeposit + w.lockedWin + w.compFree + w.pointFree
  BY DEF Covers, totalFromBuckets
<1>3. fromPoint \in 0..w.pointFree /\ (fromPoint = w.pointFree \/ fromPoint = amt)
  BY <1>1 DEF Smaller
<1>4. /\ fromComp \in 0..w.compFree
      /\ fromComp = w.compFree \/ fromComp = amt - fromPoint
      /\ fromPoint + fromComp <= amt
  <2> HIDE DEF fromPoint
  <2>1. fromPoint <= amt
    BY <1>1, <1>3 DEF fromPoint, Smaller
  <2>2. QED
    BY <1>1, <1>3, <2>1 DEF Smaller
<1>5. /\ fromDeposit \in 0..w.lockedDeposit
      /\ fromDeposit = w.lockedDeposit \/ fromDeposit = amt - fromPoint - fromComp
      /\ fromPoint + fromComp + fromDeposit <= amt
  <2> HIDE DEF fromPoint, fromComp
  <2>1. QED
    BY <1>1, <1>3, <1>4 DEF Smaller
<1>6. fromWin \in 0..w.lockedWin /\ fromWin = amt - fromPoint - fromComp - fromDeposit
  <2> HIDE DEF fromPoint, fromComp, fromDeposit
  <2>1. QED
    BY <1>1, <1>2, <1>3, <1>4, <1>5 DEF Smaller
<1>7. CASE amt = 0
  BY <1>1, <1>7 DEF deductStake, totalFromBuckets
<1>8. CASE amt > 0
  <2>1. deductStake(w, amt) = r
    BY <1>8 DEF deductStake
  <2> HIDE DEF fromPoint, fromComp, fromDeposit, fromWin
  <2>2. /\ r.pointFree = w.pointFree - fromPoint /\ r.compFree = w.compFree - fromComp
        /\ r.lockedDeposit = w.lockedDeposit - fromDeposit
        /\ r.lockedWin = w.lockedWin - fromWin
        /\ r = [b \in Bucket |-> r[b]]
    BY DEF Wallet, Bucket
  <2> HIDE DEF r
  <2>3. \A b \in Bucket : r[b] \in Nat
    BY <1>1, <1>3, <1>4, <1>5, <1>6, <2>2 DEF Bucket
  <2>4. totalFromBuckets(r) = totalFromBuckets(w) - amt
    <3>1. fromPoint \in Int /\ fromComp \in Int /\ fromDeposit \in Int
      BY <1>1, <1>3, <1>4, <1>5
    <3>2. r.lockedWin = w.lockedWin - (amt - fromPoint - fromComp - fromDeposit)
      BY <1>6, <2>2
    <3>3. QED
      BY <1>1, <2>2, <3>1, <3>2 DEF totalFromBuckets
  <2>5. r \in Wallet
    BY <2>2, <2>3 DEF Wallet
  <2>6. QED
    BY <2>1, <2>4, <2>5
<1>9. QED
  BY <1>7, <1>8

\* What a credit leaves.
LEMMA Credited ==
    ASSUME NEW w \in Wallet, NEW amt \in Nat
    PROVE  /\ creditLockedDeposit(w, amt) \in Wallet
           /\ totalFromBuckets(creditLockedDeposit(w, amt)) = totalFromBuckets(w) + amt
<1>1. /\ w.pointFree \in Nat /\ w.compFree \in Nat
      /\ w.lockedDeposit \in Nat /\ w.lockedWin \in Nat
  BY DEF Wallet, Bucket
<1> DEFINE r == [w EXCEPT !.lockedDeposit = @ + amt]
<1>2. /\ r \in Wallet /\ r.lockedDeposit = w.lockedDeposit + amt
      /\ r.pointFree = w.pointFree /\ r.compFree = w.compFree /\ r.lockedWin = w.lockedWin
  BY <1>1 DEF Wallet, Bucket
<1>3. creditLockedDeposit(w, amt) = IF amt <= 0 THEN w ELSE r
  BY DEF creditLockedDeposit
<1> HIDE DEF r
<1>4. totalFromBuckets(r) = totalFromBuckets(w) + amt
  BY <1>1, <1>2 DEF totalFromBuckets
<1>5. CASE amt = 0
  BY <1>1, <1>3, <1>5 DEF totalFromBuckets
<1>6. CASE amt > 0
  BY <1>2, <1>3, <1>4, <1>6
<1>7. QED
  BY <1>5, <1>6

\* What the wallet, the ledger and the requests have to do with each other.
Fits ==
    /\ wallet \in Wallet
    /\ BalanceMatchesBuckets
    /\ LedgerReconciles
    /\ StatusTellsMoney
    /\ OneRecentDeposit

\* One transaction is open at most, and none of the worker's.
OneOpen == \A c, d \in Conn : conn[c] # Idle /\ conn[d] # Idle => c = d
ByHand == \A c \in Conn : conn[c].op \notin {"match", "credit"}

\* By how much a request moves the balance.
Change(r) == IF IsDeposit(r) THEN request[r].amount ELSE -request[r].amount

\* What a transaction has read is still so.
Current(c) ==
    LET r == conn[c].req IN
    /\ conn[c].op \in {"close", "approve", "pay"} => Pending(r)
    /\ conn[c].op = "create" /\ conn[c].type = "DEPOSIT" => NoOtherDeposit
    /\ conn[c].op = "pay" =>
          /\ conn[c].next \in Wallet
          /\ totalFromBuckets(conn[c].next) = balance + Change(r)

Ordered == Fits /\ OneOpen /\ ByHand /\ \A c \in Conn : Current(c)

LEMMA IdleOp == Idle.op = "idle"
BY DEF Idle

\* A transaction reads, and what it has read is current.
LEMMA ReadOrdered ==
    ASSUME TypeOK, Ordered, NEW c \in Conn, NEW v, conn' = [conn EXCEPT ![c] = v],
           v.op \notin {"match", "credit"}, \A d \in Conn \ {c} : conn[d] = Idle,
           UNCHANGED <<money, request, smsRow>>, Current(c)'
    PROVE  Ordered'
<1>1. conn'[c] = v /\ \A d \in Conn \ {c} : conn'[d] = Idle
  BY DEF TypeOK
<1>2. OneOpen' /\ ByHand'
  BY <1>1, IdleOp DEF OneOpen, ByHand
<1>3. \A d \in Conn : Current(d)'
  <2>1. ASSUME NEW d \in Conn \ {c} PROVE Current(d)'
    BY <1>1, IdleOp DEF Current
  <2>2. QED
    BY <2>1
<1>4. Fits'
  BY DEF Ordered, Fits, money, BalanceMatchesBuckets, LedgerReconciles, StatusTellsMoney,
         OneRecentDeposit, Pending, IsDeposit
<1>5. QED
  BY <1>2, <1>3, <1>4 DEF Ordered

\* A transaction ends; money and requests still fit.
LEMMA EndOrdered ==
    ASSUME TypeOK, Ordered, NEW c \in Conn, conn[c] # Idle, End(c), Fits'
    PROVE  Ordered'
<1>1. \A d \in Conn : conn'[d] = Idle
  BY DEF End, Continue, TypeOK, Ordered, OneOpen
<1>2. OneOpen' /\ ByHand'
  BY <1>1, IdleOp DEF OneOpen, ByHand
<1>3. \A d \in Conn : Current(d)'
  BY <1>1, IdleOp DEF Current
<1>4. QED
  BY <1>2, <1>3 DEF Ordered

LEMMA StartOrdered ==
    ASSUME TypeOK, Ordered, NEW c \in Conn, \A d \in Conn : conn[d] = Idle,
           \/ CheckRequest(c)
           \/ \E r \in Req : FindToCancel(c, r) \/ FindToReject(c, r) \/ FindToApprove(c, r)
    PROVE  Ordered'
<1>0. \A d \in Conn \ {c} : conn[d] = Idle
  OBVIOUS
<1>1. CASE CheckRequest(c)
  <2>1. PICK type \in RequestType, amount \in Amounts :
          /\ type = "DEPOSIT" => NoOtherDeposit
          /\ conn' = [conn EXCEPT ![c] = [op |-> "create", type |-> type, amount |-> amount]]
          /\ UNCHANGED <<money, request, smsRow>>
    BY <1>1 DEF CheckRequest, Begin
  <2> DEFINE v == [op |-> "create", type |-> type, amount |-> amount]
  <2>2. conn'[c] = v /\ v.op = "create" /\ v.type = type
    BY <2>1 DEF TypeOK
  <2> HIDE DEF v
  <2>3. Current(c)'
    BY <2>1, <2>2 DEF Current, NoOtherDeposit, Pending, IsDeposit
  <2>4. QED
    BY <1>0, <2>1, <2>2, <2>3, ReadOrdered DEF v
<1>2. ASSUME NEW r \in Req, FindToCancel(c, r) \/ FindToReject(c, r) PROVE Ordered'
  <2> DEFINE v == [op |-> "close", req |-> r]
  <2>1. conn' = [conn EXCEPT ![c] = v] /\ conn'[c] = v /\ v.op = "close" /\ v.req = r
    BY <1>2 DEF FindToCancel, FindToReject, Begin, TypeOK
  <2>2. Pending(r) /\ UNCHANGED <<money, request, smsRow>>
    BY <1>2 DEF FindToCancel, FindToReject
  <2> HIDE DEF v
  <2>3. Current(c)'
    BY <2>1, <2>2 DEF Current, Pending
  <2>4. QED
    BY <1>0, <2>1, <2>2, <2>3, ReadOrdered
<1>3. ASSUME NEW r \in Req, FindToApprove(c, r) PROVE Ordered'
  <2> DEFINE v == [op |-> "approve", req |-> r]
  <2>1. conn' = [conn EXCEPT ![c] = v] /\ conn'[c] = v /\ v.op = "approve" /\ v.req = r
    BY <1>3 DEF FindToApprove, Begin, TypeOK
  <2>2. Pending(r) /\ UNCHANGED <<money, request, smsRow>>
    BY <1>3 DEF FindToApprove
  <2> HIDE DEF v
  <2>3. Current(c)'
    BY <2>1, <2>2 DEF Current, Pending
  <2>4. QED
    BY <1>0, <2>1, <2>2, <2>3, ReadOrdered
<1>4. QED
  BY <1>1, <1>2, <1>3

LEMMA AbortOrdered ==
    ASSUME TypeOK, Ordered, NEW c \in Conn, Abort(c)
    PROVE  Ordered'
<1>1. Fits'
  BY DEF Abort, Ordered, Fits, money, BalanceMatchesBuckets, LedgerReconciles, StatusTellsMoney,
         OneRecentDeposit, Pending, IsDeposit
<1>2. QED
  BY <1>1, EndOrdered DEF Abort

LEMMA CreateOrdered ==
    ASSUME TypeOK, Ordered, NEW c \in Conn, createForUser(c)
    PROVE  Ordered'
<1>1. conn[c] \in Creating /\ conn[c] # Idle
  BY OpCases, IdleOp DEF createForUser
<1>2. PICK r \in Req :
        /\ request[r].status = "NONE"
        /\ request' = [request EXCEPT ![r] = [type |-> conn[c].type, amount |-> conn[c].amount,
                                             recent |-> TRUE, status |-> "PENDING"]]
  BY DEF createForUser
<1>3. /\ request'[r].status = "PENDING" /\ request'[r].type = conn[c].type
      /\ \A q \in Req \ {r} : request'[q] = request[q]
  BY <1>2 DEF TypeOK
<1>4. StatusTellsMoney'
  BY <1>2, <1>3 DEF createForUser, money, Ordered, Fits, StatusTellsMoney
<1>5. conn[c].type = "DEPOSIT" => NoOtherDeposit
  BY DEF createForUser, Ordered, Current
<1>6. OneRecentDeposit'
  <2>1. CASE conn[c].type = "DEPOSIT"
    BY <1>3, <1>5, <2>1 DEF NoOtherDeposit, OneRecentDeposit, Pending, IsDeposit
  <2>2. CASE conn[c].type # "DEPOSIT"
    BY <1>3, <2>2 DEF Ordered, Fits, OneRecentDeposit, Pending, IsDeposit
  <2>3. QED
    BY <2>1, <2>2
<1>7. Fits'
  BY <1>4, <1>6
  DEF createForUser, money, Ordered, Fits, BalanceMatchesBuckets, LedgerReconciles
<1>8. QED
  BY <1>1, <1>7, EndOrdered DEF createForUser

LEMMA CloseOrdered ==
    ASSUME TypeOK, Ordered, NEW c \in Conn, Close(c)
    PROVE  Ordered'
<1> DEFINE r == conn[c].req
<1>1. r \in Req /\ conn[c] # Idle
  BY OpCases, IdleOp DEF Close, Closing
<1>2. Pending(r)
  BY DEF Close, Ordered, Current
<1>3. request' = [request EXCEPT ![r].status = "REJECTED"]
  BY DEF Close
<1> HIDE DEF r
<1>4. /\ request'[r].status = "REJECTED"
      /\ \A q \in Req \ {r} : request'[q] = request[q]
  BY <1>1, <1>3 DEF TypeOK, Request
<1>5. StatusTellsMoney' /\ OneRecentDeposit'
  BY <1>2, <1>4
  DEF Close, money, Ordered, Fits, StatusTellsMoney, OneRecentDeposit, Pending, IsDeposit
<1>6. Fits'
  BY <1>5 DEF Close, money, Ordered, Fits, BalanceMatchesBuckets, LedgerReconciles
<1>7. QED
  BY <1>1, <1>6, EndOrdered DEF Close

\* The wallet is read when the request is still to be paid, and every other
\* transaction is closed.
LEMMA ReadWalletOrdered ==
    ASSUME TypeOK, Ordered, NEW c \in Conn, ReadWallet(c)
    PROVE  Ordered'
<1>0. PICK r \in Req : r = conn[c].req /\ conn[c] # Idle
  BY OpCases, IdleOp DEF ReadWallet, Approving
<1> DEFINE next == IF IsDeposit(r) THEN creditLockedDeposit(wallet, request[r].amount)
                   ELSE deductStake(wallet, request[r].amount)
           v == [op |-> "pay", req |-> r, next |-> next]
<1>2. Pending(r)
  BY <1>0 DEF ReadWallet, Ordered, Current
<1>3. request[r].amount \in Nat
  BY DEF TypeOK, Request
<1>4. wallet \in Wallet /\ totalFromBuckets(wallet) = balance
  BY DEF Ordered, Fits, BalanceMatchesBuckets
<1>5. IsDeposit(r) \/ Covers(wallet, request[r].amount)
  BY <1>0 DEF ReadWallet
<1>6. next \in Wallet /\ totalFromBuckets(next) = balance + Change(r)
  <2>1. balance \in Int
    BY DEF TypeOK
  <2>2. CASE IsDeposit(r)
    BY <1>3, <1>4, <2>2, Credited DEF Change
  <2>3. CASE ~IsDeposit(r)
    <3>1. /\ deductStake(wallet, request[r].amount) \in Wallet
          /\ totalFromBuckets(deductStake(wallet, request[r].amount))
               = balance - request[r].amount
      BY <1>3, <1>4, <1>5, <2>3, Deducted
    <3>2. QED
      BY <1>3, <2>1, <2>3, <3>1 DEF Change
  <2>4. QED
    BY <2>2, <2>3
<1>7. /\ conn' = [conn EXCEPT ![c] = v] /\ conn'[c] = v
      /\ UNCHANGED <<money, request, smsRow>>
  BY <1>0 DEF ReadWallet, Continue, TypeOK
<1>8. \A d \in Conn \ {c} : conn[d] = Idle
  BY <1>0 DEF Ordered, OneOpen
<1> HIDE DEF next
<1>9. v.op = "pay" /\ v.req = r /\ v.next = next
  OBVIOUS
<1> HIDE DEF v
<1>10. /\ request' = request /\ balance' = balance
       /\ conn'[c].op = "pay" /\ conn'[c].req = r /\ conn'[c].next = next
  BY <1>7, <1>9 DEF money
<1>11. Current(c)'
  BY <1>2, <1>6, <1>10 DEF Current, Pending, Change, IsDeposit, totalFromBuckets
<1>12. QED
  BY <1>7, <1>8, <1>9, <1>11, ReadOrdered

\* The request that was waiting is paid.
LEMMA ApproveOrdered ==
    ASSUME IInv, Ordered, NEW c \in Conn, approve(c)
    PROVE  Ordered'
<1> DEFINE r == conn[c].req
           amount == request[r].amount
           next == conn[c].next
<1>1. r \in Req /\ conn[c] # Idle /\ TypeOK
  BY OpCases, IdleOp DEF approve, Paying, IInv
<1>2. Pending(r) /\ next \in Wallet /\ totalFromBuckets(next) = balance + Change(r)
  BY DEF approve, Ordered, Current
<1>3. /\ IF IsDeposit(r) THEN PayDeposit(c, amount) ELSE PayWithdrawal(c, amount)
      /\ request' = [request EXCEPT ![r].status = "APPROVED"]
      /\ moved' = [moved EXCEPT ![r] = @ + 1]
      /\ End(c)
  BY DEF approve
<1>4. /\ amount \in Nat /\ balance \in Int /\ ledger \in Int /\ Opening \in Int
      /\ balance = Opening + ledger
  BY <1>1, RequestAssumption
  DEF TypeOK, Request, RequestAssumption, Ordered, Fits, LedgerReconciles
<1> HIDE DEF r
<1>5. /\ request'[r].status = "APPROVED" /\ moved'[r] = moved[r] + 1
      /\ \A q \in Req \ {r} : request'[q] = request[q] /\ moved'[q] = moved[q]
  BY <1>1, <1>3 DEF TypeOK, Request
<1>6. StatusTellsMoney'
  BY <1>1, <1>2, <1>5 DEF Ordered, Fits, StatusTellsMoney, Pending
<1>7. OneRecentDeposit'
  BY <1>5 DEF Ordered, Fits, OneRecentDeposit, Pending, IsDeposit
<1>8. wallet' \in Wallet /\ BalanceMatchesBuckets' /\ LedgerReconciles'
  <2>1. CASE IsDeposit(r)
    <3> DEFINE bonus == AwardOf("bonus", FirstBonus)
    <3>1. bonus \in Nat
      BY RequestAssumption DEF RequestAssumption, AwardOf
    <3>2. Persist(creditLockedDeposit(next, bonus)) /\ ledger' = ledger + amount + bonus
      BY <1>3, <2>1 DEF PayDeposit
    <3> HIDE DEF bonus, next, amount
    <3>3. /\ creditLockedDeposit(next, bonus) \in Wallet
          /\ totalFromBuckets(creditLockedDeposit(next, bonus)) = totalFromBuckets(next) + bonus
      BY <1>2, <3>1, Credited
    <3>4. totalFromBuckets(next) = balance + amount
      BY <1>2, <2>1 DEF Change, amount
    <3>5. wallet' \in Wallet /\ BalanceMatchesBuckets' /\ balance' = balance + amount + bonus
      BY <3>2, <3>3, <3>4 DEF Persist, BalanceMatchesBuckets, totalFromBuckets
    <3>6. QED
      BY <1>4, <3>1, <3>2, <3>5 DEF LedgerReconciles
  <2>2. CASE ~IsDeposit(r)
    <3>1. Persist(next) /\ ledger' = ledger - amount
      BY <1>3, <2>2 DEF PayWithdrawal
    <3> HIDE DEF next, amount
    <3>2. totalFromBuckets(next) = balance + (-amount)
      BY <1>2, <2>2 DEF Change, amount
    <3>3. wallet' \in Wallet /\ BalanceMatchesBuckets' /\ balance' = balance + (-amount)
      BY <1>2, <3>1, <3>2 DEF Persist, BalanceMatchesBuckets, totalFromBuckets
    <3>4. QED
      BY <1>4, <3>1, <3>3 DEF LedgerReconciles
  <2>3. QED
    BY <2>1, <2>2
<1>9. QED
  BY <1>1, <1>3, <1>6, <1>7, <1>8, EndOrdered DEF Fits

\* A bet takes what the wallet covers; nobody is in between.
LEMMA BetOrdered ==
    ASSUME IInv, Ordered, NEW c \in Conn, \A d \in Conn : conn[d] = Idle, Bet(c)
    PROVE  Ordered'
<1>1. PICK stake \in Stakes :
        /\ Covers(wallet, stake)
        /\ Persist(deductStake(wallet, stake))
        /\ ledger' = ledger - stake
        /\ UNCHANGED <<request, moved, conn>>
  BY DEF Bet
<1>2. stake \in Nat /\ ledger \in Int /\ balance \in Int /\ Opening \in Int
  BY RequestAssumption DEF RequestAssumption, IInv, TypeOK
<1>3. /\ wallet \in Wallet /\ totalFromBuckets(wallet) = balance
      /\ balance = Opening + ledger
  BY DEF Ordered, Fits, BalanceMatchesBuckets, LedgerReconciles
<1>4. /\ deductStake(wallet, stake) \in Wallet
      /\ totalFromBuckets(deductStake(wallet, stake)) = balance - stake
  BY <1>1, <1>2, <1>3, Deducted
<1>5. wallet' \in Wallet /\ BalanceMatchesBuckets' /\ balance' = balance - stake
  BY <1>1, <1>4 DEF Persist, BalanceMatchesBuckets, totalFromBuckets
<1>6. LedgerReconciles'
  BY <1>1, <1>2, <1>3, <1>5 DEF LedgerReconciles
<1>7. Fits'
  BY <1>1, <1>5, <1>6
  DEF Ordered, Fits, StatusTellsMoney, OneRecentDeposit, Pending, IsDeposit
<1>8. /\ \A d \in Conn : conn'[d] = Idle
      /\ OneOpen' /\ ByHand'
  BY <1>1, IdleOp DEF OneOpen, ByHand
<1>9. \A d \in Conn : Current(d)'
  BY <1>8, IdleOp DEF Current
<1>10. QED
  BY <1>7, <1>8, <1>9 DEF Ordered

\* Requests grow old between the steps of a transaction.
LEMMA HourOrdered ==
    ASSUME TypeOK, Ordered, NEW r \in Req, HourPasses(r)
    PROVE  Ordered'
<1>1. \A q \in Req : /\ request'[q].status = request[q].status
                     /\ request'[q].type = request[q].type
                     /\ request'[q].amount = request[q].amount
                     /\ request'[q].recent => request[q].recent
  BY DEF HourPasses, TypeOK, Request
<1>2. UNCHANGED <<money, smsRow, conn>>
  BY DEF HourPasses
<1>3. Fits'
  BY <1>1, <1>2
  DEF Ordered, Fits, money, BalanceMatchesBuckets, LedgerReconciles, StatusTellsMoney,
      OneRecentDeposit, Pending, IsDeposit, totalFromBuckets
<1>4. NoOtherDeposit => NoOtherDeposit'
  BY <1>1 DEF NoOtherDeposit, Pending, IsDeposit
<1>5. ASSUME NEW c \in Conn PROVE Current(c)'
  <2>1. conn'[c] = conn[c] /\ balance' = balance /\ Current(c)
    BY <1>2 DEF money, Ordered
  <2>2. CASE conn[c].op \in {"close", "approve", "pay"}
    <3>1. conn[c].req \in Req
      BY <2>2, OpCases DEF Closing, Approving, Paying
    <3>2. /\ request'[conn[c].req].status = request[conn[c].req].status
          /\ request'[conn[c].req].type = request[conn[c].req].type
          /\ request'[conn[c].req].amount = request[conn[c].req].amount
      BY <1>1, <3>1
    <3>3. QED
      BY <2>1, <2>2, <3>2 DEF Current, Pending, Change, IsDeposit, totalFromBuckets
  <2>3. CASE conn[c].op \notin {"close", "approve", "pay"}
    BY <1>4, <2>1, <2>3 DEF Current
  <2>4. QED
    BY <2>2, <2>3
<1>6. QED
  BY <1>2, <1>3, <1>5 DEF Ordered, OneOpen, ByHand

SerialInv == IInv /\ (serial => Ordered)

LEMMA SerialInductive == SerialInv /\ [MCNext]_mcvars => SerialInv'
<1> SUFFICES ASSUME SerialInv, [MCNext]_mcvars PROVE SerialInv'
  OBVIOUS
<1>1. [Next]_vars
  BY DEF MCNext, mcvars, Next
<1>2. IInv'
  BY <1>1, NextIInv DEF SerialInv
<1>3. ASSUME serial PROVE Ordered'
  <2>0. IInv /\ TypeOK /\ Ordered
    BY <1>3 DEF SerialInv, IInv
  <2>1. CASE UNCHANGED mcvars
    BY <2>0, <2>1
    DEF mcvars, vars, Ordered, Fits, BalanceMatchesBuckets, LedgerReconciles, StatusTellsMoney,
        OneRecentDeposit, OneOpen, ByHand, Current, Pending, IsDeposit, Change, NoOtherDeposit,
        totalFromBuckets
  <2>2. ASSUME NEW c \in Conn, MayStep(c), Step(c), NoMessage' PROVE Ordered'
    <3>1. \A d \in Conn \ {c} : conn[d] = Idle
      BY <1>3, <2>2 DEF MayStep
    <3>2. ASSUME conn[c] = Idle PROVE \A d \in Conn : conn[d] = Idle
      BY <3>1, <3>2
    <3>3. CASE \/ CheckRequest(c)
               \/ \E r \in Req : FindToCancel(c, r) \/ FindToReject(c, r) \/ FindToApprove(c, r)
      <4>1. conn[c] = Idle
        BY <3>3 DEF CheckRequest, FindToCancel, FindToReject, FindToApprove, Begin
      <4>2. QED
        BY <2>0, <3>2, <3>3, <4>1, StartOrdered
    <3>4. CASE Bet(c)
      <4>1. conn[c] = Idle
        BY <3>4 DEF Bet
      <4>2. QED
        BY <2>0, <3>2, <3>4, <4>1, BetOrdered
    <3>5. ASSUME NEW s \in Sms, MatchRequest(c, s) PROVE FALSE
      <4>1. PICK v : v.op = "match" /\ conn' = [conn EXCEPT ![c] = v]
        BY <3>5 DEF MatchRequest, Begin
      <4>2. conn'[c].op = "match"
        BY <2>0, <4>1 DEF TypeOK
      <4>3. QED
        BY <2>2, <4>2 DEF NoMessage
    <3>6. ~ReadBalance(c) /\ ~Credit(c)
      BY <2>0 DEF Ordered, ByHand, ReadBalance, Credit
    <3>7. QED
      BY <2>0, <2>2, <3>3, <3>4, <3>5, <3>6, CreateOrdered, CloseOrdered, ReadWalletOrdered,
         ApproveOrdered, AbortOrdered DEF Step
  <2>3. ASSUME NEW s \in Sms, Store(s), NoMessage' PROVE FALSE
    <3>1. smsRow'[s] = "UNUSED"
      BY <2>0, <2>3 DEF Store, TypeOK
    <3>2. QED
      BY <2>3, <3>1 DEF NoMessage
  <2>4. QED
    BY <1>3, <2>0, <2>1, <2>2, <2>3, HourOrdered DEF MCNext
<1>4. serial' = serial
  BY DEF MCNext, mcvars
<1>5. QED
  BY <1>2, <1>3, <1>4 DEF SerialInv

LEMMA SerialInit == MCInit => SerialInv
<1> SUFFICES ASSUME MCInit PROVE SerialInv
  OBVIOUS
<1>1. IInv
  BY InitIInv DEF MCInit
<1>2. /\ wallet \in Wallet /\ balance = Opening /\ ledger = 0 /\ Opening \in Nat
      /\ wallet.lockedDeposit = Opening /\ wallet.lockedWin = 0
      /\ wallet.compFree = 0 /\ wallet.pointFree = 0
  BY RequestAssumption DEF RequestAssumption, MCInit, Init, Empty, Wallet, Bucket
<1>3. BalanceMatchesBuckets /\ LedgerReconciles
  BY <1>2 DEF BalanceMatchesBuckets, LedgerReconciles, totalFromBuckets
<1>4. StatusTellsMoney /\ OneRecentDeposit
  BY DEF MCInit, Init, NoRequest, StatusTellsMoney, OneRecentDeposit, Pending
<1>5. OneOpen /\ ByHand /\ \A c \in Conn : Current(c)
  BY IdleOp DEF MCInit, Init, OneOpen, ByHand, Current
<1>6. QED
  BY <1>1, <1>2, <1>3, <1>4, <1>5 DEF SerialInv, Ordered, Fits

\* One transaction after the other, the member has the money there was plus what
\* the ledger says (approve; LedgerEntry in schema.prisma).
THEOREM RequestsReconcile == MCSpec => []SerialReconciles
<1>1. SerialInv => SerialReconciles
  BY DEF SerialInv, Ordered, Fits, SerialReconciles
<1>2. QED
  BY <1>1, SerialInit, SerialInductive, PTL DEF MCSpec

\* One transaction after the other, an approved request has moved its money once
\* and no other has moved any (approve, reject, cancelMine).
THEOREM StatusAlwaysTellsMoney == MCSpec => []SerialStatusTellsMoney
<1>1. SerialInv => SerialStatusTellsMoney
  BY DEF SerialInv, Ordered, Fits, SerialStatusTellsMoney
<1>2. QED
  BY <1>1, SerialInit, SerialInductive, PTL DEF MCSpec

\* One request after the other, no two deposits of the last hour wait at once
\* (createForUser).
THEOREM OneDepositWaits == MCSpec => []SerialOneRecentDeposit
<1>1. SerialInv => SerialOneRecentDeposit
  BY DEF SerialInv, Ordered, Fits, SerialOneRecentDeposit
<1>2. QED
  BY <1>1, SerialInit, SerialInductive, PTL DEF MCSpec

=============================================================================
