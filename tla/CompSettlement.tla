---------------------------- MODULE CompSettlement ----------------------------
(***************************************************************************)
(* Comps of a platform (platforms.service.ts, executeCompSettlement and    *)
(* runAutoCompSettlementSweep): for a period a member gets a share of what *)
(* was deposited and not withdrawn in it, once.  An administrator settles  *)
(* any period by hand; a job settles the last days, the oldest first,      *)
(* every day.  The job is registered by a synchronisation with the policy, *)
(* which runs after each change of it (comp-settlement-scheduler).         *)
(*                                                                         *)
(* A settlement reads the policy, the sums and the existing rows first and *)
(* pays all members in one transaction: for each it inserts a row, reads   *)
(* the wallet and writes it.  A row that was inserted and a wallet that    *)
(* was written are locked until the transaction ends.  The comp is the     *)
(* base itself; the rate would only scale it.                              *)
(***************************************************************************)
EXTENDS Integers, FiniteSets, FiniteSetsExt

CONSTANTS
    Member,
    Run,            \* settlements that may be under way
    Sync,           \* synchronisations of the schedule that may be
    MaxDay,         \* the last day
    BackfillDays,   \* how many days a sweep settles
    Offset          \* how many days before today the latest of them is

ASSUME SettlementAssumption ==
    /\ MaxDay \in Nat \ {0}
    /\ BackfillDays \in Nat \ {0}
    /\ Offset \in Nat \ {0}

VARIABLES
    day,            \* today
    approved,       \* deposits less withdrawals of each member until the end of each day
    approval,       \* a request that is being approved, with the day it is resolved
    policy,         \* the comp policy of the platform
    settled,        \* CompSettlement: amount by period and member, 0 when there is no row
    comp,           \* compFree of each member's wallet
    run,            \* what each settlement is doing
    job,            \* the sweep is registered
    fired,          \* the day of the latest sweep
    sync,           \* what each synchronisation is doing
    stale,          \* the latest synchronisation to end was broken off
    swept,          \* days a sweep has settled
    late            \* days settled by hand before they were over, or with a request
                    \* whose approval ended on a later day

money == <<settled, comp>>
schedule == <<policy, job, sync, stale>>
vars == <<day, approved, approval, policy, settled, comp, run, job, fired, sync, stale,
          swept, late>>

-----------------------------------------------------------------------------

Day == 1..MaxDay

\* off: no comps; manual: no sweep; auto: with the sweep.
Policy == {"off", "manual", "auto"}

\* The periods an administrator settles.  A sweep may also look at a day that is
\* before the first.
Period == {p \in Day \X Day : p[1] <= p[2]}

Idle == [op |-> "idle"]

Approval == [member: Member, day: Day, amount: Int]

\* Before the lookup of a period; last is the last day of a sweep.
Looking == [op: {"look"}, sweep: BOOLEAN, period: Int \X Int, last: Int]

\* In the transaction: what is still due, and the wallets written so far with the
\* rows inserted for them.
Paying ==
    [op: {"pay"}, sweep: BOOLEAN, period: Int \X Int, last: Int,
     due: [Member -> Nat], rows: [Member -> Nat], wallet: [Member -> Nat]]

\* The row of one more member is inserted, its wallet read.
Writing ==
    [op: {"write"}, sweep: BOOLEAN, period: Int \X Int, last: Int,
     due: [Member -> Nat], rows: [Member -> Nat], wallet: [Member -> Nat],
     at: Member, value: Nat]

Syncing == [op: {"read", "add"}] \cup [op: {"clear"}, wanted: BOOLEAN]

TypeOK ==
    /\ day \in Day
    /\ approved \in [0..MaxDay -> [Member -> Int]]
    /\ approval \in Approval \cup {Idle}
    /\ policy \in Policy
    /\ settled \in [Period -> [Member -> Nat]]
    /\ comp \in [Member -> Nat]
    /\ run \in [Run -> Looking \cup Paying \cup Writing \cup {Idle}]
    /\ job \in BOOLEAN
    /\ fired \in 0..MaxDay
    /\ sync \in [Sync -> Syncing \cup {Idle}]
    /\ stale \in BOOLEAN
    /\ swept \in SUBSET Int
    /\ late \in SUBSET Day

-----------------------------------------------------------------------------
(* Requests, as far as they enter the sums. *)

Until(d, m) == IF d < 1 THEN 0 ELSE approved[d][m]

\* What m has deposited and not withdrawn in period p.
Base(p, m) == Until(p[2], m) - Until(p[1] - 1, m)

\* resolvedAt is taken before the transaction ends.
Approve(m, amount) ==
    /\ approval = Idle
    /\ approval' = [member |-> m, day |-> day, amount |-> amount]
    /\ UNCHANGED <<day, approved, schedule, money, run, fired, swept, late>>

EndApproval ==
    /\ approval # Idle
    /\ approved' = [d \in 0..MaxDay |-> [m \in Member |->
           approved[d][m] + IF m = approval.member /\ d >= approval.day
                            THEN approval.amount ELSE 0]]
    /\ late' = IF approval.day < day THEN late \cup {approval.day} ELSE late
    /\ approval' = Idle
    /\ UNCHANGED <<day, schedule, money, run, fired, swept>>

Tick ==
    /\ day < MaxDay
    /\ day' = day + 1
    /\ UNCHANGED <<approved, approval, schedule, money, run, fired, swept, late>>

-----------------------------------------------------------------------------
(* Settlements. *)

\* runCompSettlement
Manual(r, p) ==
    /\ run[r] = Idle
    /\ run' = [run EXCEPT ![r] = [op |-> "look", sweep |-> FALSE, period |-> p, last |-> p[2]]]
    /\ UNCHANGED <<day, approved, approval, schedule, money, fired, swept, late>>

\* Mutant: the offset is left out, and the sweep settles the day that has begun.
TargetToday(today, extra) == today - extra

\* The day a sweep settles that many days before its last one.
Target(today, extra) == today - (Offset + extra)

\* Mutant: yesterday only.
BackfillNone == 1

\* How many days a sweep settles.
Backfill == BackfillDays

\* The job is due: once a day, as long as it is registered.
Fire(r) ==
    /\ job /\ fired < day
    /\ run[r] = Idle
    /\ fired' = day
    /\ LET first == Target(day, Backfill - 1) IN
       run' = [run EXCEPT ![r] =
           IF policy = "auto"
           THEN [op |-> "look", sweep |-> TRUE, period |-> <<first, first>>,
                 last |-> Target(day, 0)]
           ELSE Idle]
    /\ UNCHANGED <<day, approved, approval, schedule, money, swept, late>>

\* The period of r is done; a sweep goes on with the next day.
Advance(r) ==
    LET d == run[r].period[1] IN
    /\ swept' = IF run[r].sweep THEN swept \cup {d} ELSE swept
    /\ run' = [run EXCEPT ![r] =
           IF run[r].sweep /\ d < run[r].last
           THEN [op |-> "look", sweep |-> TRUE, period |-> <<d + 1, d + 1>>, last |-> run[r].last]
           ELSE Idle]

\* Mutant: who has withdrawn more than deposited is not left out.
DueAny(p) ==
    [m \in Member |-> IF Base(p, m) # 0 /\ settled[p][m] = 0 THEN Base(p, m) ELSE 0]

\* What the lookup finds to be paid.
Due(p) ==
    [m \in Member |-> IF Base(p, m) > 0 /\ settled[p][m] = 0 THEN Base(p, m) ELSE 0]

\* The reads of executeCompSettlement; a comp policy that is off is an error.
Look(r) ==
    /\ run[r].op = "look"
    /\ LET p == run[r].period  due == Due(p) IN
       \/ /\ policy = "off"
          /\ run' = [run EXCEPT ![r] = Idle]
          /\ UNCHANGED <<swept, late>>
       \/ /\ policy # "off"
          /\ \A m \in Member : due[m] = 0
          /\ Advance(r)
          /\ UNCHANGED late
       \/ /\ policy # "off"
          /\ \E m \in Member : due[m] # 0
          /\ run' = [run EXCEPT ![r] =
                 [op |-> "pay", sweep |-> run[r].sweep, period |-> p, last |-> run[r].last,
                  due |-> due, rows |-> [m \in Member |-> 0], wallet |-> [m \in Member |-> 0]]]
          /\ late' = IF ~run[r].sweep /\ p[1] = p[2] /\ day <= p[2] THEN late \cup {p[1]} ELSE late
          /\ UNCHANGED swept
    /\ UNCHANGED <<day, approved, approval, schedule, money, fired>>

Open(r) == run[r].op \in {"pay", "write"}

\* The transaction of r has inserted the row of m.
Inserted(r, m) == Open(r) /\ (run[r].rows[m] # 0 \/ (run[r].op = "write" /\ run[r].at = m))

\* Mutant: no unique key.
CreateAgain(r, m) ==
    /\ run[r].op = "pay"
    /\ run[r].due[m] # 0 /\ \A n \in Member : run[r].due[n] <= run[r].due[m]
    /\ run' = [run EXCEPT ![r] =
           [op |-> "write", sweep |-> run[r].sweep, period |-> run[r].period,
            last |-> run[r].last, due |-> run[r].due, rows |-> run[r].rows,
            wallet |-> run[r].wallet, at |-> m, value |-> comp[m] + run[r].due[m]]]
    /\ UNCHANGED <<day, approved, approval, schedule, money, fired, swept, late>>

\* The row of m, the member with the highest amount left, and the read of the
\* wallet.  A row that is there already ends the transaction; one that another
\* transaction has inserted makes it wait.
Create(r, m) ==
    /\ run[r].op = "pay"
    /\ run[r].due[m] # 0 /\ \A n \in Member : run[r].due[n] <= run[r].due[m]
    /\ \A q \in Run \ {r} : Inserted(q, m) => run[q].period # run[r].period
    /\ run' = [run EXCEPT ![r] =
           IF settled[run[r].period][m] # 0 THEN Idle
           ELSE [op |-> "write", sweep |-> run[r].sweep, period |-> run[r].period,
                 last |-> run[r].last, due |-> run[r].due, rows |-> run[r].rows,
                 wallet |-> run[r].wallet, at |-> m, value |-> comp[m] + run[r].due[m]]]
    /\ UNCHANGED <<day, approved, approval, schedule, money, fired, swept, late>>

\* The write of the wallet, once no other transaction holds it.
Write(r) ==
    /\ run[r].op = "write"
    /\ LET m == run[r].at IN
       /\ \A q \in Run \ {r} : Open(q) => run[q].rows[m] = 0
       /\ run' = [run EXCEPT ![r] =
              [op |-> "pay", sweep |-> run[r].sweep, period |-> run[r].period,
               last |-> run[r].last, due |-> [run[r].due EXCEPT ![m] = 0],
               rows |-> [run[r].rows EXCEPT ![m] = run[r].due[m]],
               wallet |-> [run[r].wallet EXCEPT ![m] = run[r].value]]]
    /\ UNCHANGED <<day, approved, approval, schedule, money, fired, swept, late>>

\* Mutant: the rows alone.
CommitRows(r) ==
    /\ run[r].op = "pay"
    /\ \A m \in Member : run[r].due[m] = 0
    /\ settled' = [settled EXCEPT ![run[r].period] =
           [m \in Member |-> IF run[r].rows[m] # 0 THEN run[r].rows[m] ELSE @[m]]]
    /\ Advance(r)
    /\ UNCHANGED <<day, approved, approval, comp, schedule, fired, late>>

\* The end of the transaction.
Commit(r) ==
    /\ run[r].op = "pay"
    /\ \A m \in Member : run[r].due[m] = 0
    /\ settled' = [settled EXCEPT ![run[r].period] =
           [m \in Member |-> IF run[r].rows[m] # 0 THEN run[r].rows[m] ELSE @[m]]]
    /\ comp' = [m \in Member |-> IF run[r].rows[m] # 0 THEN run[r].wallet[m] ELSE comp[m]]
    /\ Advance(r)
    /\ UNCHANGED <<day, approved, approval, schedule, fired, late>>

\* An error, a deadlock or a crash: the rest of a sweep is left to the next one.
Abort(r) ==
    /\ run[r] # Idle
    /\ run' = [run EXCEPT ![r] = Idle]
    /\ UNCHANGED <<day, approved, approval, schedule, money, fired, swept, late>>

-----------------------------------------------------------------------------
(* The schedule. *)

SetSync(s, stage) == sync' = [sync EXCEPT ![s] = stage]

\* updateOperational, after which the controller synchronises the schedule.
SetPolicy(s, p) ==
    /\ sync[s] = Idle
    /\ policy' = p
    /\ SetSync(s, [op |-> "read"])
    /\ UNCHANGED <<day, approved, approval, money, run, job, fired, stale, swept, late>>

\* A process starts: syncAllPlatformSchedules.
Boot(s) ==
    /\ sync[s] = Idle
    /\ SetSync(s, [op |-> "read"])
    /\ UNCHANGED <<day, approved, approval, money, run, policy, job, fired, stale, swept, late>>

ReadPolicy(s) ==
    /\ sync[s].op = "read"
    /\ SetSync(s, [op |-> "clear", wanted |-> policy = "auto"])
    /\ UNCHANGED <<day, approved, approval, money, run, policy, job, fired, stale, swept, late>>

\* Mutant: the schedule stays where it is not wanted any more.
ClearWanted(s) ==
    /\ sync[s].op = "clear"
    /\ job' = (job /\ ~sync[s].wanted)
    /\ SetSync(s, IF sync[s].wanted THEN [op |-> "add"] ELSE Idle)
    /\ stale' = (stale /\ sync[s].wanted)
    /\ UNCHANGED <<day, approved, approval, money, run, policy, fired, swept, late>>

Clear(s) ==
    /\ sync[s].op = "clear"
    /\ job' = FALSE
    /\ SetSync(s, IF sync[s].wanted THEN [op |-> "add"] ELSE Idle)
    /\ stale' = (stale /\ sync[s].wanted)
    /\ UNCHANGED <<day, approved, approval, money, run, policy, fired, swept, late>>

Add(s) ==
    /\ sync[s].op = "add"
    /\ job' = TRUE
    /\ SetSync(s, Idle)
    /\ stale' = FALSE
    /\ UNCHANGED <<day, approved, approval, money, run, policy, fired, swept, late>>

\* Redis is not there; the error is logged and nothing else.
SyncFails(s) ==
    /\ sync[s] # Idle
    /\ SetSync(s, Idle)
    /\ stale' = TRUE
    /\ UNCHANGED <<day, approved, approval, money, run, policy, job, fired, swept, late>>

-----------------------------------------------------------------------------

\* The platform has had comps for a while, and its job is registered.
Init ==
    /\ day = 1
    /\ approved = [d \in 0..MaxDay |-> [m \in Member |-> 0]]
    /\ approval = Idle
    /\ policy = "auto" /\ job = TRUE /\ fired = 0
    /\ sync = [s \in Sync |-> Idle] /\ stale = FALSE
    /\ settled = [p \in Period |-> [m \in Member |-> 0]]
    /\ comp = [m \in Member |-> 0]
    /\ run = [r \in Run |-> Idle]
    /\ swept = {} /\ late = {}

Settle(r) == Look(r) \/ (\E m \in Member : Create(r, m)) \/ Write(r) \/ Commit(r)

Synchronise(s) == ReadPolicy(s) \/ Clear(s) \/ Add(s)

Next ==
    \/ Tick
    \/ EndApproval \/ \E m \in Member, amount \in Int : Approve(m, amount)
    \/ \E r \in Run : Fire(r) \/ Settle(r) \/ Abort(r) \/ \E p \in Period : Manual(r, p)
    \/ \E s \in Sync :
           Synchronise(s) \/ Boot(s) \/ SyncFails(s) \/ \E p \in Policy : SetPolicy(s, p)

Spec == Init /\ [][Next]_vars

-----------------------------------------------------------------------------

\* A day that a sweep has settled is settled for every member with exactly what
\* was deposited on it and not withdrawn, whatever settlements overlap, as long as
\* nobody settled it before it was over and no approval dragged on into the next
\* day (runAutoCompSettlementSweep).
SweptDaysExact ==
    \A d \in (swept \cap Day) \ late, m \in Member :
        settled[<<d, d>>][m] = IF Base(<<d, d>>, m) > 0 THEN Base(<<d, d>>, m) ELSE 0

\* What the rows of m add up to.
Paid(m) == SumFunction([p \in Period |-> settled[p][m]])

\* No member has more comps than the rows say, whatever overlaps (the unique key
\* of CompSettlement, and the transaction around the rows and the wallets).
CompWithinRows == \A m \in Member : comp[m] <= Paid(m)

CompIsRows == \A m \in Member : comp[m] = Paid(m)

\* Unless the latest synchronisation broke off, the job is registered exactly when
\* the policy wants it, as long as synchronisations follow each other
\* (syncPlatformSchedule).
ScheduleFollowsPolicy ==
    (~stale /\ \A s \in Sync : sync[s] = Idle) => (job <=> policy = "auto")

=============================================================================
