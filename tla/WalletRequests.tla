---------------------------- MODULE WalletRequests ----------------------------
(***************************************************************************)
(* Deposits and withdrawals of one member (wallet-requests.service.ts) and *)
(* the worker that credits a deposit when the bank's text message about it *)
(* arrives (sms-ingest, process-sms.ts), a process of its own on the same  *)
(* database.                                                               *)
(*                                                                         *)
(* Creating, cancelling, rejecting and approving a request each read it,   *)
(* decide, and write later; an approval and a credit read the wallet in    *)
(* between.  Every read that something is decided on is a step.  The       *)
(* wallet row is written at the commit, by one transaction at a time.      *)
(*                                                                         *)
(* The commission of the member's agents moves other wallets and is not    *)
(* in this module.                                                         *)
(***************************************************************************)
EXTENDS WalletBuckets

CONSTANTS
    Conn,         \* transactions that may be open at once
    MaxRequests,  \* how many requests the member makes
    Sms,          \* text messages about deposits of the member
    Amounts,      \* amounts of requests and messages
    Stakes,       \* amounts of bets
    Opening,      \* lockedDeposit at the start
    Multiplier,   \* Platform.rollingTurnoverMultiplier; 0 when rolling is off
    FirstBonus,   \* bonus of the first-charge event; 0 when there is none
    FirstPoints,  \* points for the first charge
    TierPoints    \* points for every deposit

ASSUME RequestAssumption ==
    /\ MaxRequests \in Nat
    /\ Amounts \subseteq Nat \ {0} /\ Stakes \subseteq Nat \ {0}
    /\ {Opening, Multiplier, FirstBonus, FirstPoints, TierPoints} \subseteq Nat

VARIABLES
    wallet,    \* the four buckets of the member
    balance,   \* Wallet.balance
    points,    \* Wallet.pointBalance
    request,   \* the WalletRequest rows, in the order of their creation
    owed,      \* turnover the member still owes
    awarded,   \* how often each first-charge award was given; a row says it was
    ledger,    \* sum of the LedgerEntry amounts
    smsRow,    \* status of the BankSmsIngest row of each message
    moved,     \* how often each request has moved money
    credits,   \* how often each message has credited a deposit
    conn       \* what each open transaction has read

vars == <<wallet, balance, points, request, owed, awarded, ledger, smsRow, moved, credits, conn>>
money == <<wallet, balance, points, owed, awarded, ledger, moved, credits>>

-----------------------------------------------------------------------------

Req == 1..MaxRequests
Award == {"bonus", "points"}
RequestType == {"DEPOSIT", "WITHDRAWAL"}

\* recent: created less than an hour ago.
Request == [type: RequestType, amount: Nat, recent: BOOLEAN,
            status: {"NONE", "PENDING", "APPROVED", "REJECTED"}]

NoRequest == [type |-> "DEPOSIT", amount |-> 0, recent |-> FALSE, status |-> "NONE"]

WalletState == [Bucket -> Int]

Idle == [op |-> "idle"]
Creating == [op: {"create"}, type: RequestType, amount: Nat]
Closing == [op: {"close"}, req: Req]
Approving == [op: {"approve"}, req: Req]
Paying == [op: {"pay"}, req: Req, next: WalletState]
Matching == [op: {"match"}, sms: Sms, req: Req]
Crediting == [op: {"credit"}, sms: Sms, req: Req, newBal: Int]

TypeOK ==
    /\ wallet \in WalletState
    /\ balance \in Int
    /\ points \in Nat
    /\ request \in [Req -> Request]
    /\ owed \in Nat
    /\ awarded \in [Award -> Nat]
    /\ ledger \in Int
    /\ smsRow \in [Sms -> {"none", "AUTO_CREDITED", "UNUSED"}]
    /\ moved \in [Req -> Nat]
    /\ credits \in [Sms -> Nat]
    /\ conn \in [Conn -> {Idle} \cup Creating \cup Closing \cup Approving \cup Paying
                         \cup Matching \cup Crediting]

Init ==
    /\ wallet = [Empty EXCEPT !.lockedDeposit = Opening]
    /\ balance = Opening
    /\ points = 0
    /\ request = [r \in Req |-> NoRequest]
    /\ owed = 0
    /\ awarded = [a \in Award |-> 0]
    /\ ledger = 0
    /\ smsRow = [s \in Sms |-> "none"]
    /\ moved = [r \in Req |-> 0]
    /\ credits = [s \in Sms |-> 0]
    /\ conn = [c \in Conn |-> Idle]

Begin(c, v) == conn[c] = Idle /\ conn' = [conn EXCEPT ![c] = v]
Continue(c, v) == conn' = [conn EXCEPT ![c] = v]
End(c) == Continue(c, Idle)

Pending(r) == request[r].status = "PENDING"
IsDeposit(r) == request[r].type = "DEPOSIT"

-----------------------------------------------------------------------------
(* The member makes and cancels requests *)

\* Mutant: requests older than an hour are the ones looked for.
NoOtherDepositStale == \A r \in Req : ~(Pending(r) /\ IsDeposit(r) /\ ~request[r].recent)

\* No other deposit of the last hour is waiting.
NoOtherDeposit == \A r \in Req : ~(Pending(r) /\ IsDeposit(r) /\ request[r].recent)

\* A withdrawal needs the balance and no open rolling obligation.
CheckRequest(c) ==
    \E type \in RequestType, amount \in Amounts :
        /\ type = "DEPOSIT" => NoOtherDeposit
        /\ type = "WITHDRAWAL" => owed = 0 /\ amount <= balance
        /\ Begin(c, [op |-> "create", type |-> type, amount |-> amount])
        /\ UNCHANGED <<money, request, smsRow>>

createForUser(c) ==
    /\ conn[c].op = "create"
    /\ \E r \in Req :
          /\ request[r].status = "NONE"
          /\ \A q \in 1..(r - 1) : request[q].status # "NONE"
          /\ request' = [request EXCEPT ![r] =
                           [type |-> conn[c].type, amount |-> conn[c].amount, recent |-> TRUE,
                            status |-> "PENDING"]]
    /\ End(c)
    /\ UNCHANGED <<money, smsRow>>

\* The requests up to r become older than an hour.
HourPasses(r) ==
    /\ request[r].recent
    /\ request' = [q \in Req |-> [request[q] EXCEPT !.recent = @ /\ q > r]]
    /\ UNCHANGED <<money, smsRow, conn>>

\* The member cancels a pending deposit, an administrator rejects a pending
\* request of either type.
FindToCancel(c, r) ==
    /\ Pending(r) /\ IsDeposit(r)
    /\ Begin(c, [op |-> "close", req |-> r])
    /\ UNCHANGED <<money, request, smsRow>>

FindToReject(c, r) ==
    /\ Pending(r)
    /\ Begin(c, [op |-> "close", req |-> r])
    /\ UNCHANGED <<money, request, smsRow>>

\* Whatever the status has become since.
Close(c) ==
    /\ conn[c].op = "close"
    /\ request' = [request EXCEPT ![conn[c].req].status = "REJECTED"]
    /\ End(c)
    /\ UNCHANGED <<money, smsRow>>

-----------------------------------------------------------------------------
(* An administrator approves a request *)

\* Mutant: a request can be approved in any status.
FindToApproveAny(c, r) ==
    /\ request[r].status # "NONE"
    /\ Begin(c, [op |-> "approve", req |-> r])
    /\ UNCHANGED <<money, request, smsRow>>

FindToApprove(c, r) ==
    /\ Pending(r)
    /\ Begin(c, [op |-> "approve", req |-> r])
    /\ UNCHANGED <<money, request, smsRow>>

\* A withdrawal the buckets do not cover fails (Abort).
ReadWallet(c) ==
    /\ conn[c].op = "approve"
    /\ LET r == conn[c].req
           amount == request[r].amount
       IN  /\ IsDeposit(r) \/ Covers(wallet, amount)
           /\ Continue(c, [op |-> "pay", req |-> r,
                           next |-> IF IsDeposit(r) THEN creditLockedDeposit(wallet, amount)
                                    ELSE deductStake(wallet, amount)])
    /\ UNCHANGED <<money, request, smsRow>>

\* Mutant: the balance is taken from the wallet as it was.
PersistStale(next) == wallet' = next /\ balance' = totalFromBuckets(wallet)

Persist(next) == wallet' = next /\ balance' = totalFromBuckets(next)

\* Mutant: the claim is not looked up.
AwardAgain(kind, amount) == amount

\* The first-charge awards are given to the first deposit only.
AwardOf(kind, amount) == IF awarded[kind] = 0 THEN amount ELSE 0

\* A deposit, its obligation, the bonus and the bonus's obligation, the points.
PayDeposit(c, amount) ==
    LET bonus == AwardOf("bonus", FirstBonus)
        first == AwardOf("points", FirstPoints)
    IN  /\ Persist(creditLockedDeposit(conn[c].next, bonus))
        /\ ledger' = ledger + amount + bonus
        /\ owed' = owed + Multiplier * (amount + bonus)
        /\ points' = points + first + TierPoints
        /\ awarded' = [bonus |-> awarded["bonus"] + (IF bonus > 0 THEN 1 ELSE 0),
                       points |-> awarded["points"] + (IF first > 0 THEN 1 ELSE 0)]

\* Mutant: a withdrawal is booked as a deposit.
PayWithdrawalUnsigned(c, amount) ==
    /\ Persist(conn[c].next)
    /\ ledger' = ledger + amount
    /\ UNCHANGED <<owed, points, awarded>>

PayWithdrawal(c, amount) ==
    /\ Persist(conn[c].next)
    /\ ledger' = ledger - amount
    /\ UNCHANGED <<owed, points, awarded>>

\* The request is approved, whatever its status has become since it was read.
approve(c) ==
    /\ conn[c].op = "pay"
    /\ LET r == conn[c].req
       IN  /\ IF IsDeposit(r) THEN PayDeposit(c, request[r].amount)
              ELSE PayWithdrawal(c, request[r].amount)
           /\ request' = [request EXCEPT ![r].status = "APPROVED"]
           /\ moved' = [moved EXCEPT ![r] = @ + 1]
    /\ End(c)
    /\ UNCHANGED <<smsRow, credits>>

-----------------------------------------------------------------------------
(* A text message arrives *)

\* A message that is no deposit, names nobody or matches no request is stored.
Store(s) ==
    /\ smsRow[s] = "none"
    /\ smsRow' = [smsRow EXCEPT ![s] = "UNUSED"]
    /\ UNCHANGED <<money, request, conn>>

Candidates(amount) == {r \in Req : Pending(r) /\ IsDeposit(r) /\ request[r].amount = amount}

\* The oldest request of the amount is taken.  A message that is stored already
\* is a duplicate and changes nothing.
MatchRequest(c, s) ==
    /\ smsRow[s] = "none"
    /\ \E amount \in Amounts : \E r \in Candidates(amount) :
          /\ \A q \in Candidates(amount) : r <= q
          /\ Begin(c, [op |-> "match", sms |-> s, req |-> r])
    /\ UNCHANGED <<money, request, smsRow>>

ReadBalance(c) ==
    /\ conn[c].op = "match"
    /\ Continue(c, [op |-> "credit", sms |-> conn[c].sms, req |-> conn[c].req,
                    newBal |-> balance + request[conn[c].req].amount])
    /\ UNCHANGED <<money, request, smsRow>>

\* The balance is written and the buckets are not; the request is approved,
\* whatever its status has become since it was read.
CreditRequest(c) ==
    /\ LET r == conn[c].req
       IN  /\ balance' = conn[c].newBal
           /\ ledger' = ledger + request[r].amount
           /\ request' = [request EXCEPT ![r].status = "APPROVED"]
           /\ owed' = owed + Multiplier * request[r].amount
           /\ moved' = [moved EXCEPT ![r] = @ + 1]
    /\ smsRow' = [smsRow EXCEPT ![conn[c].sms] = "AUTO_CREDITED"]
    /\ credits' = [credits EXCEPT ![conn[c].sms] = @ + 1]
    /\ End(c)
    /\ UNCHANGED <<wallet, points, awarded>>

\* Mutant: bodyHash is not unique.
CreditAgain(c) == conn[c].op = "credit" /\ CreditRequest(c)

\* bodyHash is unique: a message stored meanwhile fails (Abort).
Credit(c) == conn[c].op = "credit" /\ smsRow[conn[c].sms] = "none" /\ CreditRequest(c)

-----------------------------------------------------------------------------

Turned(stake) == owed - Smaller(owed, stake)

\* A bet (CasinoCallback), in one step.
Bet(c) ==
    \E stake \in Stakes :
        /\ conn[c] = Idle
        /\ stake <= balance /\ Covers(wallet, stake)
        /\ Persist(deductStake(wallet, stake))
        /\ ledger' = ledger - stake
        /\ owed' = Turned(stake)
        /\ UNCHANGED <<points, request, awarded, smsRow, moved, credits, conn>>

\* A transaction rolls back.
Abort(c) ==
    /\ conn[c] # Idle
    /\ End(c)
    /\ UNCHANGED <<money, request, smsRow>>

Step(c) ==
    \/ CheckRequest(c) \/ createForUser(c) \/ Close(c) \/ ReadWallet(c) \/ approve(c)
    \/ \E r \in Req : FindToCancel(c, r) \/ FindToReject(c, r) \/ FindToApprove(c, r)
    \/ \E s \in Sms : MatchRequest(c, s)
    \/ ReadBalance(c) \/ Credit(c) \/ Bet(c) \/ Abort(c)

Next ==
    \/ \E c \in Conn : Step(c)
    \/ \E r \in Req : HourPasses(r)
    \/ \E s \in Sms : Store(s)

Spec == Init /\ [][Next]_vars

-----------------------------------------------------------------------------
(* Properties *)

\* Wallet.balance is the sum of the buckets (Wallet in schema.prisma).
BalanceMatchesBuckets == balance = totalFromBuckets(wallet)

\* The API alone keeps it so: balance and buckets agree, however transactions
\* overlap, as long as the worker has credited no message (persist).
MatchesUntilMessage == (\A s \in Sms : credits[s] = 0) => BalanceMatchesBuckets

\* The money there is, is the money there was plus what the ledger says.
LedgerReconciles == balance = Opening + ledger

\* An approved request has moved its money once; no other has moved any.
StatusTellsMoney ==
    \A r \in Req : moved[r] = IF request[r].status = "APPROVED" THEN 1 ELSE 0

\* A first-charge award is given once, whatever overlaps (UserDepositEventClaim).
AwardedOnce == \A a \in Award : awarded[a] <= 1

\* A text message credits at most one deposit, once, however often it is
\* forwarded (BankSmsIngest.bodyHash).
MessageCreditsOnce == \A s \in Sms : credits[s] <= 1

\* No two deposits of the last hour wait at once (createForUser).
OneRecentDeposit ==
    \A q, r \in Req : /\ Pending(q) /\ IsDeposit(q) /\ request[q].recent
                      /\ Pending(r) /\ IsDeposit(r) /\ request[r].recent
                      => q = r

=============================================================================
