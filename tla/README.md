# A verification project for the betting platform's back end

TLA+ models, TLC runs and TLAPS proofs about the part of this repository that moves money, the NestJS back end
`apps/api` and the bank-message worker `apps/sms-ingest`, and about the client of the live odds that the same back end
runs. Paths below are relative to the repository; a module's
definitions are tied to lines of the source by `map` in `PROJECT.json`.

## The system

Several processes (`ecosystem.config.js`: api, sms-ingest and the workers for USDT deposits, comp settlement, sync and
the crawler) share one Postgres database through Prisma. They do not talk to each other about money: what they share
is rows. Jobs are queued in Redis (BullMQ). A handler is an interactive transaction at READ COMMITTED that typically

1. looks up whether the event was handled before, often *outside* the transaction,
1. reads the rows it decides on, without `SELECT ... FOR UPDATE`,
2. computes new values in JavaScript and writes them back as absolute values,
3. inserts a row with a unique key (event key, transaction id, message hash), whose violation aborts the transaction.

So nearly every handler can decide on something stale, and unique keys are often the only thing that stops a second
effect. That shapes every model: a handler is split exactly at the reads it decides on, the rest is the commit step,
and `Abort` may end any of them. A row that a transaction has written is locked until it ends; a transaction whose
writes all come after its last deciding read therefore needs no lock in the model, since its writes and its commit are one
step. Where a handler does something that commits on its own between its writes and its commit, the lock is modelled
(`WalletIsFree` in `CasinoCallback`), and so it is where a handler writes one row and only then reads another (`Held` in
`Points`, `Inserted` and `Open` in `CompSettlement`).

### Inventory

| component | state it keeps | operations | what makes it hard | correct when |
|---|---|---|---|---|
| Reserve balance (`reserve-balance`, `credits`) | `Platform.creditBalance`, `reserveInitialAmount`, two switches, `PlatformReserveLog`, credit requests | bet and win events, bet-and-win in one transaction, manual events, roll back by key, recovery by the head office, credit requests | absolute writes, clamping at both ends, duplicate deliveries, a second mutation in the transaction of the first | 0 <= balance <= initial, an event counts once, the log explains the balance |
| Wallet buckets (`wallet-buckets`) | four amounts of a wallet and their sum | deduct, credit, refund, cancel | order and remainders across buckets | exact amount, no bucket overdrawn, balance = sum |
| Casino callbacks (`vinus`) | wallet, `CasinoVinusTx`, ledger, turnover owed | bet, bet-win, win, bonus, confirm, cancel, refund | the vendor repeats and overlaps callbacks; cancel and refund touch the platform's credit on another connection | an id counts once, the ledger explains the wallet, an undone bet is neutral |
| Wallet requests (`wallet-requests`, `deposit-events`) | `WalletRequest`, wallet, ledger, bonus claims | create, cancel, reject, approve | decisions days after the request; two administrators, the member and a message at once | status and money agree; awards once |
| SMS worker (`sms-ingest`) | `BankSmsIngest`, the same wallet | store, match, credit | another process, other bookkeeping of the wallet; messages forwarded twice | a message credits once |
| USDT deposits (`usdt-deposit`) | `UsdtDepositTx`, requests about small transfers | poll, handle a transfer, decide on a request | overlapping polls, crash between two transactions, cut or unordered answers | every transfer handled, once |
| Rolling obligations (`rolling`) | turnover required and applied | create, apply a stake, check | oldest first over several rows | never below zero, withdrawals wait |
| Points (`points`) | `pointBalance`, point ledger | attend, redeem, first bet, lost bet, deposit, grant to everyone | lookup outside the transaction, absolute writes | once a day, once per event, the ledger explains the points |
| Sports reservations (`vinus`) | reservation, its bets, their transactions, wallet | reserve, order, confirm, bet, change, refund, cancel, result | amount consumed and amount of a bet read before the transaction; one bet in two tables | consumed <= reserved, a request has one bet, a bet costs its stake until it is undone |
| Comp and billing settlement (`platforms`) | settlements, `compFree`, the scheduled job, platform credit | run by hand, scheduled sweep, synchronise the schedule | lookup outside the transaction, all members in one transaction, sweeps that break off, approvals that end on the next day | a day settled once, exactly, and in the end; the job follows the policy |
| Payment webhook (`payment`) | idempotency keys, wallet, points | deposit, withdrawal | repeated delivery, completed after another status | an event counts once |
| Live odds (`odds-api-ws`) | one websocket, `lastSeq`, `stateMap`, caches of the events' sports | connect, reconnect, message, resync, refresh, configure | dropped sockets that live on, a message lost across a reconnect, a refresh that waited | one socket, the last message about each pair, connected in the end |
| Agent commission (`wallet-requests`) | wallets of a chain of agents | pay on approval | an error in the middle is swallowed | all or none |
| Registrations, semi-virtual accounts | status of a member; current bundle of accounts | approve, reject; create, retire | two administrators at once | one current bundle |
| Sync jobs, crawler matcher, score crawler | snapshots | fetch, overwrite, score | schedules | the latest answer is kept |
| Users, agents, auth, content, access lists, simulation tool | their own rows | CRUD, queries | - | - |
| Frontends, staking, SMS forwarder, deployment | outside this back end | - | - | - |

How they interact: a casino callback moves the wallet, applies its stake to the turnover owed and calls the reserve
balance, for a bet inside its own transaction, for a cancellation through a connection of its own. An approved request
credits the wallet, creates an obligation, gives a bonus (`deposit-events`) and points. The SMS worker approves a
request by itself; the USDT worker credits a wallet or makes a request. Billing settlement and the callbacks write the
same platform row that administrators and the head office change. Comps go into the bucket that a casino bet spends
before the deposit. The live odds depend on the vendor alone.

## Modules

| module | models | state and actions |
|---|---|---|
| `CreditAccount` | abstract | an account with a limit: what the head office is promised |
| `ReserveBalance` | the platform row and all its writers | `tx[t]` is what connection t has read and will write; `Snapshot`/`CommitMutation` are the halves of `runMutation`, called by `ApplyLedgerEvent`, `ApplyBetAndWin`, `PostEvent`, `RollbackByEventKey`; `ReadRecover`/`CommitRecover`; `ReadCreditRequest`/`CommitCreditRequest` |
| `WalletBuckets` | `wallet-buckets.service.ts` | pure operators on the record of four buckets |
| `CasinoCallback` | `handleCallback` for the casino | `conn[c]` is what a callback has read; `Bet` ... `Bonus` read, `CommitPost` writes; `FindCancelled`/`FindRefunded`, `ReadReturn`, `UndoReserve`, `CommitCancel`/`CommitRefund` |
| `SportsReservation` | the sports commands of `handleCallback`, and `refund` of a bet of sports | `conn[c]` is what a callback has read, with the stage it is in; `FindReservation`, `PlainBet`, `FindActual`/`ReadReservation`, `MissActual`/`ReadBet`, `FindCancelled`, `FindRefunded`, `FindResult` read, `ReadWallet` reads the wallet for all, the `Commit...` actions write; `Reserve`, `Confirm`, `FindToOrder`/`Order` |
| `WalletRequests` | requests of one member, bonus and points of a deposit, the SMS worker, bets as the other writer of the wallet | `conn[c]` is what a transaction has read; finds, `ReadWallet`, `approve`, `Close`; `MatchRequest`, `ReadBalance`, `CreditRequest` |
| `UsdtDeposit` | the polls of one address, the requests they make | `poll[p]` is what a poll has left to do; `Poll`, `Look`, `MakeRequest`, `Record`, `NoWallet`, `Duplicate`, `Crash` |
| `Points` | `points.service.ts` with the bets that earn points, and the payments of `payment.service.ts` | `conn[c]` is what a transaction has read; `LookToday`/`LookStreak`/`ReadPoints`/`attend`, `ReadExchange`/`redeem`, `ReadBet`, `ReadReferrer`/`creditReferrer`, `Bet`, `LoseBet`, `ReadAll`/`grantAllForPlatform`, `ReadPayment`/`handleWebhook`, `Ignore` |
| `CompSettlement` | comps of a platform: settlements by hand and by the sweep, approvals as the writers of what they sum, the schedule | `run[r]` is what a settlement is doing: `Manual` and `Fire` start it, `Look` reads, `Create`/`Write` pay one member, `Commit` ends the period and goes on to the next; `Approve`/`EndApproval`; `SetPolicy`, `Boot`, `ReadPolicy`/`Clear`/`Add`, `SyncFails` |
| `OddsBoard` | abstract | what a reader of the live odds is promised |
| `OddsStream` | `odds-api-ws.service.ts` | `sock[k]` is a socket with the vendor's session on it; `Dial` within `Reconnect`, `applyConfig`, `reconnectNow`, `Restart`; `Open`, `handleMessage`, `Close`, `Resync`; `Learn`/`Promote` are a refresh |
| `MC...` | instances | symmetry sets; `MCReserveBalance`, `MCCasinoCallback`, `MCWalletRequests`, `MCSportsReservation`, `MCPoints` and `MCCompSettlement` add `serial`, `MCSportsReservation` `byTransaction` as well; `MCOddsStream` adds `allTell`, `MCOddsStream` and `MCCompSettlement` the fairness |
| `...Proofs` | theorems | see below |

Data is reduced to what the properties tell apart: ids are model values, money is a natural number, the ledger is its
sum (and, for a transaction, the sum of what it and its cancellation entered), timestamps are an order. Ghost variables
are `granted` and `logNet` in `ReserveBalance`, `effect` and `applied` in `CasinoCallback`, `effect` in
`SportsReservation`, `moved`, `credits` in `WalletRequests`, `credited`, `granted` and `quiet` in `UsdtDeposit`,
`swept`, `late` and `stale` in `CompSettlement`, `feed` (what the vendor has sent) in `OddsStream`; no guard of a handler
reads them but those that bound a run (`MaxGranted`).

`serial` is chosen at the start and never changes: when it is TRUE a
transaction starts only when no other is open. Properties named `Serial...` have it as their premise. One run thus asks what
each handler does on its own (over more transactions) and what survives overlap (over fewer). `byTransaction` says that changes of a bet
name it by its transaction id (`original_transaction_id`), see below.

`SportsReservation` keeps the sum of the wallet and not its buckets: every operator of `WalletBuckets` that it would use
moves the sum by exactly its amount, which `casino` checks (`SerialReconciles`) and `DeductStakeSpends` proves of the
only one that is not a single addition. The many lookups by which a change finds its bet are `FindActual` (some lookup finds
a bet on a reservation) and `MissActual` (none does); which bet is found is any of those that are there.

`Points` has bets and payments as the other writers of wallet and points, with the parts of them that earn points; their
other effects are in `CasinoCallback` and `WalletRequests`. Which commands earn points follows the calls in
`vinus.service.ts`: a plain bet may reward the referrer, only a bet with its result may be found lost.

`CompSettlement` has the comp of a member equal to the base; a rate would only scale it. The three sums of a settlement
are read at one moment: a finished day's sums change only when an approval ends late, which is kept in `late`, and rows
that are there already are guarded by the unique key whatever was read. The order in which the members are paid is the code's
(highest amount first), as is the wait for rows and wallets another transaction has written. That leaves two settlements
free to wait for each other, which the database ends: `Abort`.

In `OddsStream` an entry is represented by the seq of its message, so that "the last message" can be stated. The vendor's
side is a session per socket that goes on after the seq in the url or, without one, with what comes.
`allTell` is chosen at the start: when it is TRUE every message says its sport.

## Runs

| run | question | bounds, and why they are enough |
|---|---|---|
| `reserve` | type, bounds, log, refinement of `CreditAccount` | two events (a pair of legs, a duplicate), amounts 1 and 3 below and above the grant of 2, a recovery of more than there is, one roll back of each key (and of no roll back); under overlap two transactions without a recovery and one amount, since only the order of reads and writes matters |
| `casino` | all seven commands | three ids serially (bet, win, and what undoes one of them), two under overlap; deposit 1 and comp 2 make a stake of 2 and a later one cross buckets; turnover 1 is exceeded by a stake of 2 |
| `casino_cancel_twice` | violation: a cancellation is delivered twice at once | |
| `sports` | reservations, bets, changes, refunds, cancellations, results | one reservation, since reservations share nothing but the wallet; two requests, so that two bets compete for 3 with amounts 1 and 2; three ids serially (two bets and a change; a bet, its change and a refund; a bet, its refund and its cancellation), two under overlap (two bets on one place or on two, a bet and its change); a result that pays and one that takes |
| `requests` | requests, bonus, points, bets, messages | three requests serially (two deposits and a withdrawal), two under overlap together with a message that is forwarded without limit; amounts 1 and 2 tell requests apart for the matcher |
| `requests_sms_buckets` | violation: a credited message | |
| `usdt` | overlapping and breaking polls, with liveness | two polls, two transfers in the same or in different blocks; `MaxRequests` stops the requests that repeated crashes would make without end. A limit of two never cuts an answer about two transfers; since a cut ends the quiet, it would add no case to what the properties claim |
| `usdt_crash` | violation: a poll breaks off between its two transactions | |
| `points` | attendance, exchange, first bet, lost bet, payments, points for everyone | two members, one referred by the other, so that a bet holds one wallet and writes the other; four transactions serially, three under overlap: two that compete and one before or between them; three days and `BatchCount` 1, so that the bonus happens although the streak is seldom more than nothing (see below); a duplicate of each event |
| `settlement` | sweeps, settlements by hand, approvals, the schedule, with liveness | two members, so that one transaction pays several and two can wait for each other; three days and a backfill of two serially: a sweep that breaks off is made up for by the next; two days under overlap; three inputs in all and one failure |
| `stream` | the live odds, with refinement and liveness | two events of two sports, three messages, two sockets: a dropped one beside the current one; two troubles (an end, a resync, a restart, a new configuration), so that the second meets the recovery from the first; one entry and one cached event, so that both limits bite |
| `stream_latest` | violation: messages that do not say their sport | two messages and no trouble are enough |

`CHECK_DEADLOCK FALSE` is used where the model really ends: all ids used, all requests closed, all transfers recorded.
`Symmetry` permutes connections, ids, messages and is not used in a run with liveness. `MaxRollback` bounds how often
":rollback" is appended to a key, `MaxGranted` the credit granted; both are parameters of the theorems as well and
arbitrary there.

Every property of a passing run has a mutant: a variation of one mapped definition, like a dropped clamp, a missing
unique key or an update that leaves out a column, under which TLC finds it violated. The mutants are defined beside
what they vary.

Fairness is weak and assumed in three runs.

* `usdt`: `WF_vars(Handle(p))`. A cron job queues a poll every minute (`usdt-deposit-scheduler.service.ts`) and the worker
  takes it from the queue, so that polls start again and again; once started, a poll is a loop over a finite list whose
  every step ends, in an error at the latest. Nothing is assumed of the chain, of administrators, or against crashes:
  `EventuallyRecorded` requires a confirmed transfer to be recorded or the polls to have stopped being quiet, that is,
  to have overlapped, broken off, had an answer cut or met a member without a wallet.
* `settlement`: days pass, a job that is due is started by the queue, and a settlement under way goes on. While
  `SerialEventuallySwept` is asked, a sweep starts and ends on its day (`Punctual`); it may break off
  (`MaxFailures`, fewer than the days of a backfill), and the policy and the schedule stay as they are, which is the premise.
* `stream`: the timer of a reconnect fires, a handshake ends one way or the other, a socket that was dropped is closed, and
  what the vendor has sent arrives. A socket need not stay open, and nobody need interfere; how often that happens is
  bounded (`MaxTroubles`).

## What the checks show

Holds, whatever overlaps: the platform's balance stays non-negative, and below the initial amount as long as the head
office recovers nothing; an event key is logged once; the wallet's balance is the sum of its buckets and no bucket is
overdrawn (as long as no message has been credited); a callback, an award and a message take effect once; a cancelled or
refunded transaction no longer counts against the platform's credit; a transfer is credited exactly when its row
says so; what a reservation counts as consumed is within what was reserved, and a request for a reservation has one bet;
an exchange, a payment and the points for a first charge or a first bet take effect once; a day that a sweep has settled
holds exactly what was deposited on it and not withdrawn (unless somebody settled it before it was over or an approval
ended on a later day), and no member has more comps than the rows say; only the current socket of the live odds is ever
listened to, and a client that is to be connected catches up. With messages that say their sport, the live odds implement
`OddsBoard`: a message is passed over only where it would change nothing.

Holds one after the other: the log explains the platform's balance and the service implements `CreditAccount`; the
ledger explains the wallet; a bet spends points, comps, deposit, wins in this order; an approved request has moved its
money once and no other has; points and money are what their ledgers say, and a member attends once a day; comps are
what the rows say, the job is registered exactly when the policy wants it, and every day is swept although a sweep broke
off; two recent deposits never wait at once; no transfer is left behind (by polls that neither overlap nor break off and
have the whole answer, while members have wallets); the bets on a reservation add up to what is consumed, and a bet that was
neither refunded nor cancelled has cost its stake with all its changes. For the bets that were, nothing is claimed about what they
have cost: see below.

Disagreements between the code and what it says of itself, each with a run:

| run | the code | what is said |
|---|---|---|
| `casino_cancel_twice` | two deliveries of a cancellation pay twice | `vinus.service.ts:780`, `schema.prisma:300` |
| `requests_sms_buckets` | the SMS worker raises the balance and no bucket | `schema.prisma:960` |
| `usdt_crash` | a second request about one transfer | `schema.prisma:1106`, `usdt-deposit.service.ts:99` |
| `stream_latest` | a message without a sport is filed under "unknown" beside the entry it should replace, and a refresh moves it over a newer one | `odds-api-ws.service.ts:24` |

Met while modelling and left without a run, by component.

* Platform credit. A recovery that overlaps another write can leave the balance above the initial amount
  (`reserve-balance.service.ts:477`, against line 15). A deduction can be lost from the balance under overlap, so that
  `reserve-balance.service.ts:66` (max(0, current - base * rate)) holds one transaction at a time only. A credit request that is
  approved, rejected and approved again adds its amount twice (`credits.service.ts:124`, against line 122). A manual event
  with a negative rate turns a deduction into an increase (`reserve-balance.controller.ts:112`). `schema.prisma:169` lets
  `creditBalance` go negative, which the service never does.
* Casino callbacks. `refund` looks at `cancelledAt` and `cancel` never at `refundedAt`, so that bet, refund, cancel pays
  back twice, one callback after the other, whether the bet is one of the casino or of sports; two refunds with different ids of one round may pick the same open bet (`vinus.service.ts:2691`). A
  cancellation holds the wallet row while its roll back waits for the platform row on another connection
  (`vinus.service.ts:2663`); the first bet of a member whom the owner of that wallet has referred holds the platform row and
  then writes that wallet. The database sees no cycle, since that the two connections of the cancellation are one
  handler only the program knows, and the timeout of a transaction ends it.
* Requests. A cancellation or a rejection that overlaps an approval wins the status, after the money has moved
  (`wallet-requests.service.ts:251`, against line 240). A withdrawal is checked for turnover owed when it is requested and
  not when it is approved. Two deposits requested at once both wait. Errors of the commission are swallowed inside the
  transaction of the approval, so that a chain of agents may be paid in part (`wallet-requests.service.ts:558`).
* Sports. Two overlapping bets on a reservation can add up to more than was reserved (`vinus.service.ts:1055`): the later
  write of `consumedAmount` hides the earlier one. A change that gives the transaction id of a bet on a reservation as
  `req_id` changes its `CasinoVinusTx` and leaves `SportsBetActual` and the reservation as they were. An order after the
  confirmation sets CONFIRMED back to ORDERED (`schema.prisma:332`) and bets are accepted again. Cancelling or refunding a bet
  does not free what it consumed. A bet that was refunded or cancelled can still be changed, and then pays or costs the
  difference; a refunded one can still be cancelled and is paid back again (`vinus.service.ts:2595` looks at `cancelledAt`
  only).
* USDT. Two overlapping polls alone can leave a transfer behind (three transfers, one of them listed by the first poll
  only). A transfer whose member has no wallet (a registration that broke off before inserting it,
  `public-registration.service.ts:291`) gets no row and is left behind by the next one (`usdt-deposit.service.ts:189`).
* Points. The streak is counted backwards from today, for which no row can exist yet (`points.service.ts:150`): what
  came before adds nothing, and the bonus is given only with a `batchCount` of 1 or to an attendance that overlaps another. Two attendances at once
  both pay (`points.service.ts:106`). The first bet of a referred member earns nothing when it arrives with its result: its
  entry counts as an earlier bet, and only plain bets pay the referrer.
* Payments. An event that arrives as failed first stores its key, and completed later is ignored
  (`payment.service.ts:70`). Its withdrawals look for open turnover outside the transaction that pays.
* Settlement. Two settlements of one member for different periods overlap and one update of the comps is lost; periods
  that are given by hand and overlap pay for a deposit twice; a day settled before it is over stays as it was, and an
  approval that ends on a later day than it is dated is never counted. Two synchronisations at once can leave the job of the
  older policy (`comp-settlement-scheduler.service.ts:129`); an error of Redis is logged and leaves none.
* Live odds. `disconnect()` of a socket that is still connecting has removed its error listener, so that the error of
  the aborted handshake is unhandled (the model has it as `Restart`). A resync while automatic connecting is off ends the
  connection for good. A connection that dies without a close is noticed by nobody, since no heartbeat is sent.
* Not in a module: two bundles of semi-virtual accounts that are registered at once both become current
  (`semi-virtual-bundles.service.ts:146`).

## What is proved

All theorems hold for every value of the constants under the assumptions stated in the module (`...Assumption`), plus
those named here. `tlapm` checks them to the last leaf. Those about `MCSpec` are about the runs' instances with the
constants left open; in them the bounds of overlapping transactions concern the part with `serial` FALSE only. Every
invariant, every action property and every refinement that a passing run checks is the statement of a theorem.

Two ideas carry most of it. What holds whatever overlaps is inductive only with a statement about what open transactions
*will* write, which must keep the promise whatever is stored meanwhile. What holds when transactions follow each
other rests on one open transaction at most, all of whose reads are still current (`Ordered`, `Current`).

* `ReserveBalanceProofs`. `TypeCorrect`. `NeverNegative` and `BoundsWithoutRecovery` assume `NonNegativeRates`:
  a negative rate, which only an administrator's manual event could carry, would turn a deduction into an increase.
  `NonNegativeInv` says that no pending value is negative; `WithinInv` that no pending value exceeds the limit *now*, which
  stays true since without a recovery the limit only grows. `AtMostOnce` (`KeysInv`): the rows of one transaction have different keys
  and the commit rechecks all of them. `SerialBounds`, `SerialLogReconciles` and `SerialRefinement` assume one connection, of
  which `SerialInv` says that what it has read is current: every step is then one of `CreditAccount` or a stutter.
  `OverlapRefinement` shows the same of any number of connections when nothing is recovered. `BothKeepBounds`,
  `LogRecomputesBalance` and `BothImplementAccount` join the two for the run's instance and any number of connections:
  `MCInv` is `SerialInv` while `serial`, and `WithinInv` while not. All but `TypeCorrect` and `AtMostOnce` assume
  `NonNegativeRates`.
* `CasinoCallbackProofs`. `DeductStakeSpends`: for every wallet and every amount it covers, exactly that amount is taken, in
  the order of the buckets, none overdrawn. `CasinoTypeCorrect`, `WalletAlwaysSound`, `CarriedOutOnce`,
  `CreditAlwaysUndoneFirst` from one invariant `IInv`: every wallet a callback has prepared is sound whatever it was
  prepared from; an id without a row has taken no effect; a callback that has undone the credit still finds it undone at
  its commit, and one that has found a row finds it still there. One after the other, `CasinoReconciles` and the action property
  `SpendsFreeAmountsFirst`: what a callback has prepared is the present wallet, moved by its amount.
* `SportsReservationProofs`. `SportsTypeCorrect`, `AlwaysWithinReserved`, `SportsNeverOverdrawn`, `OneBetForEachRequest` from
  `IInv`: what a callback will write as consumed fits the reservation, which never shrinks, and no next balance is
  negative. One after the other, `SportsLedgerReconciles`, and `BetsAlwaysCostTheirStake` when changes name their bet by its
  transaction: `SerialInv` says that what the callback has read of the bet is still what both its rows say; a refund and a
  cancellation take their bet out of the claim about money and leave its rows in agreement.
  `ConsumedIsTheSumOfBets`, one after the other but however changes name their bets, for a finite set of transaction
  ids: `ConsumedInv` adds to the sum itself that nothing is consumed before there is a reservation and that a bet on one has
  its rows (`RowsBegin`), and that what the open callback will write as consumed is what the reservation has now and what
  the callback adds (`Recent`). Each commit changes one summand, and what is consumed by the same amount.
* `WalletRequestsProofs`. `RequestsTypeCorrect`, `AwardsGivenOnce`, `MessagesCreditOnce`, `BucketsMatchUntilMessage`; the
  strengthening ties the number of credits of a message to the status of its row. One after the other and without messages,
  `RequestsReconcile`, `StatusAlwaysTellsMoney` and `OneDepositWaits`: the request an approval has found is still waiting, and the
  wallet it will write is the present one moved by the request.
* `UsdtDepositProofs`. `DepositsTypeCorrect`, `CreditsFollowRows`, `QuietPollsLeaveNothing`, `QuietPollsHandleOnce`. While
  quiet (no overlap, nothing broken off or cut, no member without a wallet), at most one poll is active (`OneActive`), its list holds every transfer that is unrecorded up to the latest
  recorded one (`ListClosed`), nothing on it is recorded (`HandledFresh`), and requests match the rows
  (`RequestsMatch`).
* `PointsProofs`. `PointsTypeCorrect`, and `NeverTwice` however transactions overlap: what a transaction takes was there
  (`Afforded`), only one pays for a first bet and none has (`Alone`), and an event that moved money has its key stored
  (`KeysStored`). `PointsReconcile` and `AttendsOnceADay` one after the other.
* `CompSettlementProofs`. `SettlementTypeCorrect`; `SweptDaysAlwaysExact`: rows are of days that have begun, a sweep
  looks only at days that are over, and what it has read of such a day is what the row will say unless an approval ended late
  (`Sound`). `CompsWithinRows`, whatever overlaps: `PaidInv` says that what an open settlement will write as comps is
  covered by the rows it will have added (`Backed`), and that no two have inserted the row of the same member and period
  (`Apart`, the unique key), so that a commit keeps the promise even when it overwrites another's update.
  `SerialCompsAreRows`, when there is a settlement at all (`Run # {}`): `InTurn` says that only one is under way and that
  what it writes is the wallet now and its own rows (`Exact`). `ScheduleAlwaysFollows` for one process that synchronises.
* `OddsStreamProofs`. `StreamTypeCorrect`, `AlwaysOneListener` (`SocketInv`), and `BoardShowsLast` about the abstract
  `OddsBoard`. `StreamImplementsBoard`: when every message says its sport, each step of the client, for any number of
  messages, sockets, breaks and restarts, is one of the board or a stutter. `ToldInv` adds that an entry is filed under the
  sport of its event, one of those subscribed to (`Filing`), so that the mapping has one entry of a pair to choose from, and
  that the current socket goes on where the client stands (`Resuming`). `TellingShowsLatest` carries `BoardShowsLast` over
  to the client.

Two invariants are sums (`Paid` over periods, `BetsOn` over transactions), and the library defines a sum as a recursive
function over sets that is chosen to satisfy its equation. Nothing about such a function can be used before it is known to
exist. The lemmas `LeastSet` to `SumExists` show that it does for subsets of up to n elements, for every n: there is no first
number that fails, where `FirstNumber` rests on the well-foundedness of strict inclusion among finite sets; `SumUnfold`, `SumAdds` and `SumChange` then say what one more element or one changed value adds
to a sum. They are given in both proof modules that need them, so that neither component's proofs extend the other's.

Only model-checked: `EventuallyRecorded`, `SerialEventuallySwept` and `EventuallyCaughtUp`, which are liveness under fairness
and out of the prover's reach (ENABLED); the runs that expect a violation are counterexamples of an instance.

## What is not modelled, and why

Most lines of this repository are outside the models: the front ends (`solution-user`, `solution-admin`, `super-admin`,
`staking`, the score crawler's page), catalogues of games, the matcher of crawled fixtures, a simulation tool for
tests, and the controllers, DTOs and queries of the API. They render, list, filter or configure; what they change in the
database goes through the services modelled here or is a row that is overwritten. A state machine of them would restate
an assignment.

Within the modelled services: `balance` and `authenticate` of the vendor, queries and statistics only read. The rate
at which the reserve is billed is any member of `Rates`; the rows of the billing settlement themselves follow the comps'
and are left out. Requests in USDT differ from those in KRW in a conversion. Several members share nothing but the
platform row, so that one member is enough for the wallet; the agents' wallets are the exception. The turnover owed is one
amount and not a row for each obligation. The HTTP front ends, guards and DTO validation, and the parsing of a bank
message, are the inputs' shape. That a Prisma transaction times out after five seconds is one of the reasons of `Abort`.

Smaller departures from the source, by module.

* `CasinoCallback`, `SportsReservation`. Amounts of bets and refunds are positive. The handler itself refuses only an
  amount that is missing (`vinus.service.ts:2186`); zero and negative amounts are refused by the check of the amount that the
  vendor asks for with most callbacks (line 1866), and where it does not ask they are outside the models.
* `ReserveBalance`. Every event has a key. A manual event may come without one (`reserve-balance.controller.ts:102`) and is
  then never taken for a duplicate nor rolled back: it behaves as one with a key that is used once, and nothing is claimed
  about repeating it.
* `Points`. The check of a withdrawal against the turnover owed (`payment.service.ts:56`) is left out, so that the model
  pays more withdrawals than the code. Attendance in batches is `Daily` = 0, which the theorems include and the run does not.
* `CompSettlement`. `policy` is "auto" when the policy is to settle and has a valid rate. Without one the scheduler
  registers the job all the same (`comp-settlement-scheduler.service.ts:134`) and every sweep fails
  (`platforms.service.ts:1788`): `ScheduleFollowsPolicy` and `SerialEventuallySwept` say nothing about such a platform. The run
  and the theorem about the schedule have one synchroniser.
* `OddsStream`. Messages are updates. The code raises `lastSeq` for any message that has a seq, also a welcome or one of an unknown
  type (`odds-api-ws.service.ts:442`). A sport that is guessed for a message (line 559) is always the event's own;
  a message that tells too little, about an event the client does not know, has no guess.

## Plan

1. `RollingObligations`: a stake spread over several obligations, oldest first, refining the single amount that
   `CasinoCallback` and `WalletRequests` use.
2. `AgentCommission`: the chain of agents in the transaction of an approval, with the errors it swallows; the rows of the
   billing settlement beside those of the comps.
3. `SemiVirtualBundles` and `Registrations`: two administrators at once.
4. The lock cycle of wallet row and platform row in a cancellation (`vinus.service.ts:2663`) with the transaction timeout: the wait
   ends, and no money moves twice.
5. Proofs: the invariants and refinements of the modules above; for those there are, what overlapping polls of
   `UsdtDeposit` still guarantee (only the quiet case is proved), and the safety steps inside the liveness arguments.
