----------------------------- MODULE UsdtDeposit -----------------------------
(***************************************************************************)
(* The worker that watches a platform's USDT address on the Tron chain     *)
(* (usdt-deposit.service.ts).  A poll asks TronGrid for the transfers that *)
(* are later than the latest one recorded and handles them one by one: a   *)
(* transfer of an unknown sender is recorded, one below the minimum also   *)
(* gets a request for an administrator to decide on, any other is credited *)
(* to the member.                                                          *)
(*                                                                         *)
(* A cron job starts a poll every minute; a poll that takes longer         *)
(* overlaps the next one where two processes consume the queue.  A poll is *)
(* broken off by a crash, and by any error while it handles a transfer.    *)
(*                                                                         *)
(* The wallet itself, the turnover, bonus and points of a credited deposit *)
(* are those of WalletRequests and left out.                               *)
(***************************************************************************)
EXTENDS Integers, FiniteSets

CONSTANTS
    Poller,      \* polls that may run at once
    Transfer,    \* transfers to the platform's address
    Limit,       \* how many transfers TronGrid returns at most (200)
    MaxRequests  \* bound on the requests made about one transfer

ASSUME DepositAssumption ==
    /\ IsFiniteSet(Transfer)
    /\ Limit \in Nat \ {0}
    /\ MaxRequests \in Nat

VARIABLES
    height,      \* timestamp of the last block of the chain
    time,        \* block timestamp of each transfer; 0 when it is not confirmed yet
    row,         \* status of each transfer's UsdtDepositTx; "none" when not recorded
    waiting,     \* how many requests about each transfer are pending
    credited,    \* how often each transfer has been credited by a poll
    granted,     \* how often each has been paid by the approval of a request
    poll,        \* what each poll is doing
    quiet        \* no poll was broken off or cut short, no two have overlapped, and
                 \* no transfer was passed over for want of a wallet

chain == <<height, time>>
records == <<row, waiting, credited, granted>>
vars == <<height, time, row, waiting, credited, granted, poll, quiet>>

-----------------------------------------------------------------------------

Status == {"none", "UNMATCHED", "PENDING", "AUTO_CREDITED"}

Idle == [op |-> "idle"]

\* Between two transfers; list is what is left of TronGrid's answer.
Listing == [op: {"list"}, list: SUBSET Transfer]

\* Within processTx; as is how the transfer is going to be recorded.
Handling ==
    [op: {"record"}, list: SUBSET Transfer, transfer: Transfer, as: Status \ {"none"}]
      \cup [op: {"request"}, list: SUBSET Transfer, transfer: Transfer, as: {"PENDING"}]

TypeOK ==
    /\ height \in Nat
    /\ time \in [Transfer -> Nat]
    /\ row \in [Transfer -> Status]
    /\ waiting \in [Transfer -> Nat]
    /\ credited \in [Transfer -> Nat]
    /\ granted \in [Transfer -> Nat]
    /\ poll \in [Poller -> {Idle} \cup Listing \cup Handling]
    /\ quiet \in BOOLEAN

Init ==
    /\ height = 0
    /\ time = [t \in Transfer |-> 0]
    /\ row = [t \in Transfer |-> "none"]
    /\ waiting = [t \in Transfer |-> 0]
    /\ credited = [t \in Transfer |-> 0]
    /\ granted = [t \in Transfer |-> 0]
    /\ poll = [p \in Poller |-> Idle]
    /\ quiet = TRUE

Confirmed(t) == time[t] > 0
Recorded(t) == row[t] # "none"

-----------------------------------------------------------------------------
(* The chain *)

\* A block with the transfers in txs is confirmed.
Block(txs) ==
    /\ txs # {}
    /\ \A t \in txs : ~Confirmed(t)
    /\ height' = height + 1
    /\ time' = [t \in Transfer |-> IF t \in txs THEN height + 1 ELSE time[t]]
    /\ UNCHANGED <<records, poll, quiet>>

-----------------------------------------------------------------------------
(* pollPlatform *)

\* Mutant: the next block is skipped too.
NewOffByOne ==
    {t \in Transfer : Confirmed(t) /\ \A r \in Transfer : Recorded(r) => time[t] > time[r] + 1}

\* The transfers later than the latest one recorded (since = its timestamp + 1).
\* Before there is one, the call asks for the last 24 hours, which is all of them
\* for a job that runs every minute.
New == {t \in Transfer : Confirmed(t) /\ \A r \in Transfer : Recorded(r) => time[t] > time[r]}

\* TronGrid returns at most Limit of them, in no order the call asks for.  An
\* empty answer, or none, ends the poll and changes nothing.
Poll(p) ==
    /\ poll[p] = Idle
    /\ New # {}
    /\ \E list \in SUBSET New :
          /\ list = New \/ Cardinality(list) = Limit
          /\ Cardinality(list) <= Limit
          /\ poll' = [poll EXCEPT ![p] = [op |-> "list", list |-> list]]
          /\ quiet' = (quiet /\ list = New /\ \A q \in Poller : poll[q] = Idle)
    /\ UNCHANGED <<chain, records>>

\* The poll is over when its list is empty.
Rest(p, t) ==
    LET list == poll[p].list \ {t}
    IN  IF list = {} THEN Idle ELSE [op |-> "list", list |-> list]

-----------------------------------------------------------------------------
(* processTx *)

\* A transfer that is recorded is passed over.
PassOver(p) ==
    /\ poll[p].op = "list"
    /\ \E t \in poll[p].list :
          /\ Recorded(t)
          /\ poll' = [poll EXCEPT ![p] = Rest(p, t)]
    /\ UNCHANGED <<chain, records, quiet>>

\* One that is not recorded is looked at.  UNMATCHED: no member has the sender's
\* address; PENDING: the amount is below the minimum.  Members enter addresses and
\* administrators change the minimum at any time, so that one transfer may be
\* looked at differently by two polls.
Look(p) ==
    /\ poll[p].op = "list"
    /\ \E t \in poll[p].list, as \in {"UNMATCHED", "PENDING", "AUTO_CREDITED"} :
          /\ ~Recorded(t)
          /\ poll' = [poll EXCEPT ![p] =
                        [op |-> IF as = "PENDING" THEN "request" ELSE "record",
                         list |-> poll[p].list, transfer |-> t, as |-> as]]
    /\ UNCHANGED <<chain, records, quiet>>

\* The request is inserted by a statement, and a transaction, of its own.
\* MaxRequests bounds the instances, the code makes any number.
MakeRequest(p) ==
    /\ poll[p].op = "request"
    /\ waiting[poll[p].transfer] + granted[poll[p].transfer] < MaxRequests
    /\ waiting' = [waiting EXCEPT ![poll[p].transfer] = @ + 1]
    /\ poll' = [poll EXCEPT ![p].op = "record"]
    /\ UNCHANGED <<chain, row, credited, granted, quiet>>

\* Mutant: txHash is not unique.
RecordAgain(p) ==
    /\ poll[p].op = "record"
    /\ LET t == poll[p].transfer
       IN  /\ row' = [row EXCEPT ![t] = poll[p].as]
           /\ credited' = [credited EXCEPT ![t] = IF poll[p].as = "AUTO_CREDITED" THEN @ + 1 ELSE @]
           /\ poll' = [poll EXCEPT ![p] = Rest(p, t)]
    /\ UNCHANGED <<chain, waiting, granted, quiet>>

\* The row is inserted; a credit is in the same transaction as its row.
Record(p) ==
    /\ poll[p].op = "record"
    /\ LET t == poll[p].transfer
       IN  /\ ~Recorded(t)
           /\ row' = [row EXCEPT ![t] = poll[p].as]
           /\ credited' = [credited EXCEPT ![t] = IF poll[p].as = "AUTO_CREDITED" THEN @ + 1 ELSE @]
           /\ poll' = [poll EXCEPT ![p] = Rest(p, t)]
    /\ UNCHANGED <<chain, waiting, granted, quiet>>

\* The wallet of a member who registers anonymously is inserted after the member: where
\* it is missing the transaction returns, nothing is recorded, and the poll goes on.
NoWallet(p) ==
    /\ poll[p].op = "record" /\ poll[p].as = "AUTO_CREDITED"
    /\ poll' = [poll EXCEPT ![p] = Rest(p, poll[p].transfer)]
    /\ quiet' = FALSE
    /\ UNCHANGED <<chain, records>>

\* txHash is unique: a transfer recorded meanwhile throws, which ends the poll.
Duplicate(p) ==
    /\ poll[p].op = "record"
    /\ Recorded(poll[p].transfer)
    /\ poll' = [poll EXCEPT ![p] = Idle]
    /\ quiet' = FALSE
    /\ UNCHANGED <<chain, records>>

\* A crash, or an error of the database, ends the poll wherever it is.
Crash(p) ==
    /\ poll[p] # Idle
    /\ poll' = [poll EXCEPT ![p] = Idle]
    /\ quiet' = FALSE
    /\ UNCHANGED <<chain, records>>

-----------------------------------------------------------------------------
(* An administrator decides on a request (WalletRequests) *)

\* Mutant: the request stays pending.
ApproveKeeps(t) ==
    /\ waiting[t] > 0
    /\ granted[t] < MaxRequests
    /\ granted' = [granted EXCEPT ![t] = @ + 1]
    /\ UNCHANGED <<chain, row, waiting, credited, poll, quiet>>

Approve(t) ==
    /\ waiting[t] > 0
    /\ waiting' = [waiting EXCEPT ![t] = @ - 1]
    /\ granted' = [granted EXCEPT ![t] = @ + 1]
    /\ UNCHANGED <<chain, row, credited, poll, quiet>>

Reject(t) ==
    /\ waiting[t] > 0
    /\ waiting' = [waiting EXCEPT ![t] = @ - 1]
    /\ UNCHANGED <<chain, row, credited, granted, poll, quiet>>

-----------------------------------------------------------------------------

Handle(p) ==
    \/ Poll(p) \/ PassOver(p) \/ Look(p) \/ MakeRequest(p)
    \/ Record(p) \/ NoWallet(p) \/ Duplicate(p)

Next ==
    \/ \E txs \in SUBSET Transfer : Block(txs)
    \/ \E t \in Transfer : Approve(t) \/ Reject(t)
    \/ \E p \in Poller : Handle(p) \/ Crash(p)

Spec == Init /\ [][Next]_vars

\* The cron job starts polls again and again, and a poll goes on until it ends.
FairSpec == Spec /\ \A p \in Poller : WF_vars(Handle(p))

-----------------------------------------------------------------------------
(* Properties *)

\* A transfer that a poll can still reach: a later poll will ask for it, or one
\* under way has it on its list.
Reachable(t) == t \in New \/ \E p \in Poller : poll[p] # Idle /\ t \in poll[p].list

\* Polls that neither overlap nor break off, and whose answers are not cut, leave no
\* transfer behind, as long as members have wallets: while it is not recorded a poll
\* can reach it, though each poll starts after the latest row and transfers come in
\* any order (pollPlatform).
QuietLeavesNothing ==
    quiet => \A t \in Transfer : Confirmed(t) /\ ~Recorded(t) => Reachable(t)

\* A transfer is credited by a poll exactly when its row says so, and once,
\* whatever overlaps or crashes (UsdtDepositTx.txHash).
CreditedWithRow ==
    \A t \in Transfer : credited[t] = IF row[t] = "AUTO_CREDITED" THEN 1 ELSE 0

\* A transfer is handled once: it is credited, or about to be or paid by one
\* request ("prevents duplicate handling", UsdtDepositTx in schema.prisma).
HandledOnce == \A t \in Transfer : credited[t] + granted[t] + waiting[t] <= 1

\* Polls that neither overlap nor break off handle a transfer once, whatever
\* administrators decide and members enter meanwhile (processTx).
QuietHandledOnce == quiet => HandledOnce

\* As long as polls neither overlap nor break off, answers are not cut and members have
\* wallets, every transfer is recorded in the end (pollAllPlatforms, every minute).
EventuallyRecorded == \A t \in Transfer : Confirmed(t) ~> (Recorded(t) \/ ~quiet)

=============================================================================
