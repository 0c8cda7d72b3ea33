---------------------------- MODULE ReserveBalance ----------------------------
(***************************************************************************)
(* The virtual credit ("al") of one platform: the two columns              *)
(* Platform.creditBalance and Platform.reserveInitialAmount, every service *)
(* that writes them, and the log PlatformReserveLog that makes a bet event *)
(* take effect at most once.                                               *)
(*                                                                         *)
(* Writers: reserve-balance.service.ts (bet events, settlement batches,    *)
(* manual corrections, roll backs, recovery by the head office) and        *)
(* credits.service.ts (approval of a credit request).                      *)
(*                                                                         *)
(* Each runs in a Postgres transaction at READ COMMITTED.  The service     *)
(* reads the row, computes the new value in JavaScript and writes it back  *)
(* as an absolute value, so a transaction is two steps here: one that      *)
(* reads the last committed row and keeps what will be written in tx[t],   *)
(* and one that writes and commits.  A write holds the row until the end   *)
(* of its transaction, so what follows the first write is one step.  The   *)
(* credit approval writes with SQL increments, which the database applies  *)
(* to the row as committed at that moment.                                 *)
(***************************************************************************)
EXTENDS Integers

CONSTANTS
    Tx,              \* connections: the transactions that may be open at once
    Event,           \* names of bet results, settlements, manual events
    Request,         \* credit requests of the platform
    Amounts,         \* base amounts of an event
    Rates,           \* billing rates; base * rate is the computed amount
    GrantAmounts,    \* amounts an administrator approves a request with
    RecoverAmounts,  \* amounts the head office asks back
    MaxRollback,     \* how many times ":rollback" may be appended to a key
    MaxGranted       \* bound on the credit granted over a behaviour

ASSUME ReserveAssumption ==
    /\ Amounts \subseteq Nat \ {0}
    /\ Rates \subseteq Int
    /\ GrantAmounts \subseteq Nat
    /\ RecoverAmounts \subseteq Nat \ {0}
    /\ MaxRollback \in Nat
    /\ MaxGranted \in Nat

VARIABLES
    creditBalance,          \* Platform.creditBalance ("current")
    reserveInitialAmount,   \* Platform.reserveInitialAmount ("initial")
    reserveEnabled,         \* master switch of the real-time hooks
    reserveRestoreEnabled,  \* whether RESTORE moves the balance
    log,                    \* rows of PlatformReserveLog that carry an event key
    logNet,                 \* sum of changedAmount over all rows, signed
    request,                \* status of each credit request
    granted,                \* total added by credit requests
    tx                      \* what each open transaction has read and will write

platformRow == <<creditBalance, reserveInitialAmount>>
switches == <<reserveEnabled, reserveRestoreEnabled>>
requests == <<request, granted>>
vars == <<creditBalance, reserveInitialAmount, reserveEnabled,
          reserveRestoreEnabled, log, logNet, request, granted, tx>>

-----------------------------------------------------------------------------
(* Keys, log rows and the arithmetic of one mutation *)

\* <<e, n>> is the key of event e with n times ":rollback" appended.
Key == Event \X (0..MaxRollback)

MutationType == {"DEDUCT", "RESTORE", "ADJUST"}

\* The arguments of one mutation.
Leg == [key: Key, type: MutationType, base: Int, rate: Rates]

\* A row of PlatformReserveLog; changedAmount is after - before up to sign.
Row == [key: Key, type: MutationType, base: Int, rate: Rates, before: Int, after: Int]

\* DEDUCT stops at zero.
Deducted(balance, amount) ==
    IF balance - amount < 0 THEN 0 ELSE balance - amount

\* Mutant: a RESTORE without the ceiling.
RestoredPastInitial(balance, amount, initial, restoreOn) ==
    IF restoreOn THEN balance + amount ELSE balance

\* RESTORE stops at the initial amount, and only logs when switched off.
Restored(balance, amount, initial, restoreOn) ==
    IF ~restoreOn THEN balance
    ELSE IF balance + amount > initial THEN initial ELSE balance + amount

\* ADJUST moves by the base amount itself, stopping at both ends.
Adjusted(balance, delta, initial) ==
    IF balance + delta < 0 THEN 0
    ELSE IF balance + delta > initial THEN initial ELSE balance + delta

After(leg, balance, initial, restoreOn) ==
    CASE leg.type = "DEDUCT"  -> Deducted(balance, leg.base * leg.rate)
      [] leg.type = "RESTORE" -> Restored(balance, leg.base * leg.rate, initial, restoreOn)
      [] leg.type = "ADJUST"  -> Adjusted(balance, leg.base, initial)

RowOf(leg, balance, initial, restoreOn) ==
    [key |-> leg.key, type |-> leg.type, base |-> leg.base, rate |-> leg.rate,
     before |-> balance,
     after |-> After(leg, balance, initial, restoreOn)]

Moves(row) == row.after # row.before

Logged(key) == \E row \in log : row.key = key

-----------------------------------------------------------------------------
(* Open transactions *)

Idle == [op |-> "idle"]

\* A mutation holds the row computed from its snapshot, the zero-change rows
\* its transaction has inserted before (done), and the leg that follows (rest).
Mutating == [op: {"mutate"}, row: Row, done: SUBSET Row, rest: SUBSET Leg]

\* A recovery holds the two absolute values it is going to write.
Recovering == [op: {"recover"}, before: Int, balance: Int, initial: Int]

RequestStatus == {"NONE", "PENDING", "APPROVED", "REJECTED"}

\* A resolution holds the status it saw before its own update.
Resolving == [op: {"resolve"}, request: Request, seen: RequestStatus,
              status: {"APPROVED", "REJECTED"}, amount: Nat]

TypeOK ==
    /\ creditBalance \in Int
    /\ reserveInitialAmount \in Int
    /\ reserveEnabled \in BOOLEAN
    /\ reserveRestoreEnabled \in BOOLEAN
    /\ log \subseteq Row
    /\ logNet \in Int
    /\ request \in [Request -> RequestStatus]
    /\ granted \in Nat
    /\ tx \in [Tx -> {Idle} \cup Mutating \cup Recovering \cup Resolving]

\* A platform row is created with both amounts 0, the hooks on and RESTORE off.
Init ==
    /\ creditBalance = 0
    /\ reserveInitialAmount = 0
    /\ reserveEnabled = TRUE
    /\ reserveRestoreEnabled = FALSE
    /\ log = {}
    /\ logNet = 0
    /\ request = [r \in Request |-> "NONE"]
    /\ granted = 0
    /\ tx = [t \in Tx |-> Idle]

-----------------------------------------------------------------------------
(* runMutation: the read step *)

\* An event whose key is logged is answered from its row and changes nothing;
\* otherwise the platform row is read and the new balance computed from it.
Snapshot(t, leg, rest) ==
    /\ tx[t] = Idle
    /\ ~Logged(leg.key)
    /\ tx' = [tx EXCEPT ![t] =
                [op |-> "mutate", done |-> {}, rest |-> rest,
                 row |-> RowOf(leg, creditBalance, reserveInitialAmount,
                               reserveRestoreEnabled)]]
    /\ UNCHANGED <<platformRow, switches, log, logNet, requests>>

LedgerType(kind) == IF kind = "BET" THEN "DEDUCT" ELSE "RESTORE"

\* A bet or a win of a casino callback.
ApplyLedgerEvent(t) ==
    /\ reserveEnabled
    /\ \E e \in Event, kind \in {"BET", "WIN"}, base \in Amounts, rate \in Rates :
          Snapshot(t, [key |-> <<e, 0>>, type |-> LedgerType(kind),
                       base |-> base, rate |-> rate], {})

\* A callback that carries stake and win, and a billing settlement: a DEDUCT
\* and a RESTORE in one transaction.
ApplyBetAndWin(t) ==
    /\ reserveEnabled
    /\ \E bet, win \in Event, stake, payout \in Amounts, rate \in Rates :
          /\ bet # win
          /\ Snapshot(t,
                [key |-> <<bet, 0>>, type |-> "DEDUCT", base |-> stake, rate |-> rate],
                {[key |-> <<win, 0>>, type |-> "RESTORE", base |-> payout, rate |-> rate]})

\* POST :platformId/events.  It does not look at the master switch, and only
\* an ADJUST may be negative.
PostEvent(t) ==
    \E e \in Event, type \in MutationType, base \in Amounts, rate \in Rates, sign \in {1, -1} :
        /\ sign = 1 \/ type = "ADJUST"
        /\ Snapshot(t, [key |-> <<e, 0>>, type |-> type,
                        base |-> sign * base, rate |-> rate], {})

\* The reverse type with the base and rate of the row.  A negative base is
\* refused, since the reverse of an ADJUST is a DEDUCT.
RollbackByEventKey(t) ==
    \E row \in log :
        /\ row.key[2] < MaxRollback
        /\ row.base >= 0
        /\ Snapshot(t, [key |-> <<row.key[1], row.key[2] + 1>>,
                        type |-> IF row.type = "DEDUCT" THEN "RESTORE" ELSE "DEDUCT",
                        base |-> row.base, rate |-> row.rate], {})

\* A first leg that moves nothing writes no platform row and so holds no
\* lock: the second leg reads the committed row again.
SnapshotRest(t) ==
    /\ tx[t].op = "mutate"
    /\ ~Moves(tx[t].row)
    /\ \E leg \in tx[t].rest :
          /\ ~Logged(leg.key)
          /\ tx' = [tx EXCEPT ![t] =
                      [op |-> "mutate", done |-> tx[t].done \cup {tx[t].row}, rest |-> {},
                       row |-> RowOf(leg, creditBalance, reserveInitialAmount,
                                     reserveRestoreEnabled)]]
    /\ UNCHANGED <<platformRow, switches, log, logNet, requests>>

-----------------------------------------------------------------------------
(* runMutation: the write, the log row and the commit *)

\* The balance after the row's own update; no update when nothing moves.
Written(row) == IF Moves(row) THEN row.after ELSE creditBalance

\* Mutant: the log has no unique key.
CommitMutationAnyKey(t) ==
    /\ tx[t].op = "mutate"
    /\ \A leg \in tx[t].rest : Logged(leg.key)
    /\ creditBalance' = Written(tx[t].row)
    /\ log' = log \cup tx[t].done \cup {tx[t].row}
    /\ logNet' = logNet + (tx[t].row.after - tx[t].row.before)
    /\ tx' = [tx EXCEPT ![t] = Idle]
    /\ UNCHANGED <<reserveInitialAmount, switches, requests>>

\* Mutant: the log keeps the computed amount, not what was moved.
CommitMutationLogsComputed(t) ==
    /\ tx[t].op = "mutate"
    /\ \A leg \in tx[t].rest : Logged(leg.key)
    /\ \A row \in tx[t].done \cup {tx[t].row} : ~Logged(row.key)
    /\ creditBalance' = Written(tx[t].row)
    /\ log' = log \cup tx[t].done \cup {tx[t].row}
    /\ logNet' = IF tx[t].row.type = "DEDUCT"
                 THEN logNet - tx[t].row.base * tx[t].row.rate
                 ELSE logNet + (tx[t].row.after - tx[t].row.before)
    /\ tx' = [tx EXCEPT ![t] = Idle]
    /\ UNCHANGED <<reserveInitialAmount, switches, requests>>

\* eventKey is unique: a row whose key was logged meanwhile aborts (Abort).
CommitMutation(t) ==
    /\ tx[t].op = "mutate"
    /\ \A leg \in tx[t].rest : Logged(leg.key)
    /\ \A row \in tx[t].done \cup {tx[t].row} : ~Logged(row.key)
    /\ creditBalance' = Written(tx[t].row)
    /\ log' = log \cup tx[t].done \cup {tx[t].row}
    /\ logNet' = logNet + (tx[t].row.after - tx[t].row.before)
    /\ tx' = [tx EXCEPT ![t] = Idle]
    /\ UNCHANGED <<reserveInitialAmount, switches, requests>>

\* The second leg reads the row its own transaction has written and locked.
CommitBetAndWin(t) ==
    /\ tx[t].op = "mutate"
    /\ Moves(tx[t].row)
    /\ ~Logged(tx[t].row.key)
    /\ \E leg \in tx[t].rest :
          LET win == RowOf(leg, tx[t].row.after, reserveInitialAmount, reserveRestoreEnabled)
          IN  /\ ~Logged(leg.key)
              /\ creditBalance' = win.after
              /\ log' = log \cup {tx[t].row, win}
              /\ logNet' = logNet + (win.after - tx[t].row.before)
    /\ tx' = [tx EXCEPT ![t] = Idle]
    /\ UNCHANGED <<reserveInitialAmount, switches, requests>>

\* The transaction rolls back: a duplicate key, an error in the caller that
\* opened it, or a lost connection.
Abort(t) ==
    /\ tx[t] # Idle
    /\ tx' = [tx EXCEPT ![t] = Idle]
    /\ UNCHANGED <<platformRow, switches, log, logNet, requests>>

-----------------------------------------------------------------------------
(* hqRecoverCredit *)

ReadRecover(t) ==
    /\ tx[t] = Idle
    /\ \E amount \in RecoverAmounts :
          LET take == IF amount > creditBalance THEN creditBalance ELSE amount
              balance == creditBalance - take
              initial == reserveInitialAmount - take
          IN  /\ take > 0
              /\ tx' = [tx EXCEPT ![t] =
                          [op |-> "recover", before |-> creditBalance, balance |-> balance,
                           initial |-> IF initial < balance THEN balance ELSE initial]]
    /\ UNCHANGED <<platformRow, switches, log, logNet, requests>>

\* The log row has a random key, so it can never collide: only its amount counts.
CommitRecover(t) ==
    /\ tx[t].op = "recover"
    /\ creditBalance' = tx[t].balance
    /\ reserveInitialAmount' = tx[t].initial
    /\ logNet' = logNet + (tx[t].balance - tx[t].before)
    /\ tx' = [tx EXCEPT ![t] = Idle]
    /\ UNCHANGED <<switches, log, requests>>

-----------------------------------------------------------------------------
(* credits.service.ts *)

CreateCreditRequest(r) ==
    /\ request[r] = "NONE"
    /\ request' = [request EXCEPT ![r] = "PENDING"]
    /\ UNCHANGED <<platformRow, switches, log, logNet, granted, tx>>

\* Any status may be resolved again; amount 0 stands for no approved amount.
ReadCreditRequest(t) ==
    /\ tx[t] = Idle
    /\ \E r \in Request, status \in {"APPROVED", "REJECTED"}, amount \in GrantAmounts \cup {0} :
          /\ request[r] # "NONE"
          /\ granted + amount <= MaxGranted
          /\ tx' = [tx EXCEPT ![t] = [op |-> "resolve", request |-> r, seen |-> request[r],
                                      status |-> status, amount |-> amount]]
    /\ UNCHANGED <<platformRow, switches, log, logNet, requests>>

\* The amount is added when the status read at the start was not APPROVED.
Grants(resolution) ==
    /\ resolution.status = "APPROVED"
    /\ resolution.amount > 0
    /\ resolution.seen # "APPROVED"

\* Mutant: a rejection takes the amount back, whether or not it was added.
CommitCreditRequestReverses(t) ==
    /\ tx[t].op = "resolve"
    /\ LET r == tx[t].request
           delta == IF Grants(tx[t]) THEN tx[t].amount
                    ELSE IF tx[t].status = "REJECTED" THEN 0 - tx[t].amount ELSE 0
       IN  /\ request' = [request EXCEPT ![r] = tx[t].status]
           /\ creditBalance' = creditBalance + delta
           /\ reserveInitialAmount' = reserveInitialAmount + delta
           /\ granted' = granted + delta
    /\ tx' = [tx EXCEPT ![t] = Idle]
    /\ UNCHANGED <<switches, log, logNet>>

CommitCreditRequest(t) ==
    /\ tx[t].op = "resolve"
    /\ LET r == tx[t].request
           delta == IF Grants(tx[t]) THEN tx[t].amount ELSE 0
       IN  /\ request' = [request EXCEPT ![r] = tx[t].status]
           /\ creditBalance' = creditBalance + delta
           /\ reserveInitialAmount' = reserveInitialAmount + delta
           /\ granted' = granted + delta
    /\ tx' = [tx EXCEPT ![t] = Idle]
    /\ UNCHANGED <<switches, log, logNet>>

-----------------------------------------------------------------------------
(* Settings *)

SetEnabled(enabled) ==
    /\ reserveEnabled' = enabled
    /\ UNCHANGED <<platformRow, reserveRestoreEnabled, log, logNet, requests, tx>>

SetRestoreEnabled(enabled) ==
    /\ reserveRestoreEnabled' = enabled
    /\ UNCHANGED <<platformRow, reserveEnabled, log, logNet, requests, tx>>

-----------------------------------------------------------------------------

Mutate(t) ==
    \/ ApplyLedgerEvent(t) \/ ApplyBetAndWin(t) \/ PostEvent(t)
    \/ RollbackByEventKey(t) \/ SnapshotRest(t)
    \/ CommitMutation(t) \/ CommitBetAndWin(t)

Next ==
    \/ \E t \in Tx : Mutate(t)
    \/ \E t \in Tx : ReadRecover(t) \/ CommitRecover(t)
    \/ \E t \in Tx : ReadCreditRequest(t) \/ CommitCreditRequest(t)
    \/ \E t \in Tx : Abort(t)
    \/ \E r \in Request : CreateCreditRequest(r)
    \/ \E enabled \in BOOLEAN : SetEnabled(enabled) \/ SetRestoreEnabled(enabled)

Spec == Init /\ [][Next]_vars

-----------------------------------------------------------------------------
(* Properties *)

\* The service never lets the balance fall below zero, whatever runs at the
\* same time (reserve-balance.service.ts, "0 <= current_amount").
NonNegative == creditBalance >= 0

\* ... nor above the initial amount ("current_amount <= initial_amount").
WithinInitial == creditBalance <= reserveInitialAmount

\* The invariant in the header of reserve-balance.service.ts.
Bounds == NonNegative /\ WithinInitial

\* The balance is what was granted plus what the log says was moved, so that
\* it can be recomputed from the log.
ReconcilesWithLog == creditBalance = granted + logNet

\* The same event is never logged twice, however its deliveries interleave.
UniqueKeys == \A r1, r2 \in log : r1.key = r2.key => r1 = r2

\* The service seen as an account with a limit.
Account == INSTANCE CreditAccount WITH
    EventKey <- Key,
    balance <- creditBalance,
    limit <- reserveInitialAmount,
    applied <- {row.key : row \in log}

\* Run one transaction at a time, the service implements that account.
ImplementsAccount == Account!Spec

=============================================================================
