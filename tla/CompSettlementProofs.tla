------------------------- MODULE CompSettlementProofs -------------------------
(***************************************************************************)
(* Theorems about CompSettlement, for any members, settlements, days and   *)
(* backfill: types, that the days of the sweep are settled exactly, that   *)
(* the job follows the policy, and that the wallets are covered by the     *)
(* rows, exactly when settlements follow each other.                       *)
(***************************************************************************)
EXTENDS MCCompSettlement, FiniteSetTheorems, WellFoundedInduction, TLAPS

-----------------------------------------------------------------------------
(* The invariant *)

Doing == Looking \cup Paying \cup Writing \cup {Idle}

\* What m has deposited on day d and not withdrawn.
Net(d, m) == Base(<<d, d>>, m)

\* A sweep looks at finished days only.
Timely(r) ==
    run[r] # Idle =>
        /\ run[r].period[1] <= run[r].period[2] /\ run[r].period[2] <= MaxDay
        /\ run[r].sweep => /\ run[r].period[1] = run[r].period[2]
                          /\ run[r].period[2] <= run[r].last /\ run[r].last < day

\* What a settlement of day d has paid and will pay to m is right, and m is left
\* out only when there is a row.
Owes(r, d, m) ==
    /\ run[r].rows[m] # 0 => run[r].rows[m] = Net(d, m)
    /\ run[r].due[m] # 0 => run[r].due[m] = Net(d, m)
    /\ Net(d, m) > 0 => run[r].rows[m] # 0 \/ run[r].due[m] # 0 \/ settled[<<d, d>>][m] # 0

Sound(r) ==
    /\ Timely(r)
    /\ run[r].op \in {"pay", "write"} =>
           \A d \in Day \ late :
               run[r].period = <<d, d>> => d < day /\ \A m \in Member : Owes(r, d, m)
    /\ run[r].op = "write" => run[r].due[run[r].at] # 0

\* A row of a day that was not settled too early is right.
RowsRight ==
    \A d \in Day \ late, m \in Member :
        settled[<<d, d>>][m] # 0 => d < day /\ settled[<<d, d>>][m] = Net(d, m)

\* Whoever is to get a comp for a day that was swept has a row.
SweptHasRows ==
    \A d \in Day \ late, m \in Member :
        d \in swept => d < day /\ (Net(d, m) > 0 => settled[<<d, d>>][m] # 0)

IInv ==
    /\ TypeOK
    /\ approval # Idle => approval.day <= day
    /\ RowsRight
    /\ SweptHasRows
    /\ \A r \in Run : Sound(r)

\* What a settlement does says which values it holds.
LEMMA DoingCases ==
    ASSUME NEW x \in Doing
    PROVE  /\ x.op = "look" => x \in Looking
           /\ x.op = "pay" => x \in Paying
           /\ x.op = "write" => x \in Writing
           /\ x # Idle => x \in Looking \cup Paying \cup Writing
           /\ x # Idle => x.op \in {"look", "pay", "write"}
           /\ x = Idle => x.op = "idle"
BY DEF Doing, Looking, Paying, Writing, Idle

LEMMA IdleType == Idle \in Doing /\ Idle.op = "idle"
BY DEF Doing, Idle

-----------------------------------------------------------------------------
(* What was deposited *)

LEMMA Days == MaxDay \in Nat /\ MaxDay > 0 /\ Day = 1..MaxDay
BY SettlementAssumption DEF SettlementAssumption, Day

LEMMA BaseType ==
    ASSUME TypeOK, NEW p \in Int \X Int, p[1] <= p[2], p[2] <= MaxDay, NEW m \in Member
    PROVE  Base(p, m) \in Int
<1>1. ASSUME NEW d \in Int, d <= MaxDay PROVE Until(d, m) \in Int
  <2>1. CASE d < 1
    BY <2>1 DEF Until
  <2>2. CASE d >= 1
    <3>1. d \in 0..MaxDay /\ ~(d < 1)
      BY <1>1, <2>2, Days
    <3>2. QED
      BY <3>1 DEF Until, TypeOK
  <2>3. QED
    BY <2>1, <2>2
<1>2. Until(p[2], m) \in Int /\ Until(p[1] - 1, m) \in Int
  BY <1>1, Days
<1>3. QED
  BY <1>2 DEF Base

\* What is to be paid is a number, and for one day it is what was deposited.
LEMMA DueType ==
    ASSUME TypeOK, NEW p \in Int \X Int, p[1] <= p[2], p[2] <= MaxDay
    PROVE  Due(p) \in [Member -> Nat]
<1>1. \A m \in Member : Base(p, m) \in Int
  BY BaseType
<1>2. QED
  BY <1>1 DEF Due

-----------------------------------------------------------------------------
(* What a step leaves alone *)

\* Days pass and sums of days that are not late stay.
Settling ==
    /\ day' \in Day /\ day <= day'
    /\ late \subseteq late'
    /\ \A d \in Day \ late', m \in Member : d < day => Net(d, m)' = Net(d, m)

LEMMA StaySound ==
    ASSUME Settling, TypeOK, NEW r \in Run, run'[r] = run[r], Sound(r),
           \A d \in Day \ late', m \in Member : settled[<<d, d>>][m] # 0 => settled'[<<d, d>>][m] # 0
    PROVE  Sound(r)'
<1>0. day \in Int /\ day' \in Int /\ day <= day' /\ run[r] \in Doing
  BY Days DEF TypeOK, Settling, Doing
<1>1. Timely(r)'
  <2>1. CASE run[r] = Idle
    BY <2>1 DEF Timely
  <2>2. CASE run[r] # Idle
    <3>1. run[r].last \in Int
      BY <1>0, <2>2, DoingCases DEF Looking, Paying, Writing
    <3>2. QED
      BY <1>0, <2>2, <3>1 DEF Sound, Timely
  <2>3. QED
    BY <2>1, <2>2
<1>2. ASSUME run[r].op \in {"pay", "write"}, NEW d \in Day \ late', run[r].period = <<d, d>>
      PROVE  d < day' /\ \A m \in Member : Owes(r, d, m)'
  <2>1. d \in Day \ late /\ d \in Int
    BY <1>2, Days DEF Settling
  <2>2. d < day /\ \A m \in Member : Owes(r, d, m)
    BY <1>2, <2>1 DEF Sound
  <2>3. d < day'
    BY <1>0, <2>1, <2>2
  <2>4. \A m \in Member : Net(d, m)' = Net(d, m)
    BY <1>2, <2>2 DEF Settling
  <2>5. \A m \in Member : Owes(r, d, m)'
    BY <1>2, <2>2, <2>4 DEF Owes
  <2>6. QED
    BY <2>3, <2>5
<1>3. QED
  BY <1>1, <1>2 DEF Sound

\* Rows that are right stay right when nothing is paid.
LEMMA RowsStay ==
    ASSUME IInv, Settling, UNCHANGED <<settled, swept>>
    PROVE  RowsRight' /\ SweptHasRows'
<1>1. day \in Int /\ day' \in Int /\ day <= day'
  BY Days DEF IInv, TypeOK, Settling
<1>2. ASSUME NEW d \in Day \ late', NEW m \in Member
      PROVE  /\ settled'[<<d, d>>][m] # 0 => d < day' /\ settled'[<<d, d>>][m] = Net(d, m)'
             /\ d \in swept' => d < day' /\ (Net(d, m)' > 0 => settled'[<<d, d>>][m] # 0)
  <2>1. d \in Day \ late /\ d \in Int
    BY Days DEF Settling
  <2>2. d < day => Net(d, m)' = Net(d, m)
    BY DEF Settling
  <2>3. /\ settled[<<d, d>>][m] # 0 => d < day /\ settled[<<d, d>>][m] = Net(d, m)
        /\ d \in swept => d < day /\ (Net(d, m) > 0 => settled[<<d, d>>][m] # 0)
    BY <2>1 DEF IInv, RowsRight, SweptHasRows
  <2>4. d < day => d < day'
    BY <1>1, <2>1
  <2>5. QED
    BY <2>2, <2>3, <2>4
<1>3. QED
  BY <1>2 DEF RowsRight, SweptHasRows

\* Nothing is paid and no settlement moves.
LEMMA NoRunStep ==
    ASSUME IInv, Settling, TypeOK', approval' # Idle => approval'.day <= day',
           UNCHANGED <<settled, swept, run>>
    PROVE  IInv'
<1>1. RowsRight' /\ SweptHasRows'
  BY RowsStay
<1>2. \A r \in Run : Sound(r)'
  BY StaySound DEF IInv
<1>3. QED
  BY <1>1, <1>2 DEF IInv

\* When no approval ends, a day's sum is what it was.
LEMMA SameSums ==
    ASSUME TypeOK, UNCHANGED approved, day' \in Day, day <= day', late \subseteq late'
    PROVE  Settling /\ \A d \in Int, m \in Member : Net(d, m)' = Net(d, m)
BY DEF Settling, Net, Base, Until

\* Nothing is paid, and r goes on with v.
LEMMA GoOn ==
    ASSUME IInv, NEW r \in Run, NEW v \in Doing, Sound(r)', run' = [run EXCEPT ![r] = v],
           UNCHANGED <<day, approved, approval, schedule, money, swept>>,
           late \subseteq late', late' \in SUBSET Day, fired' \in 0..MaxDay
    PROVE  IInv'
<1>0. TypeOK /\ day' = day /\ day \in Int
  BY Days DEF IInv, TypeOK
<1>1. Settling
  BY <1>0, SameSums DEF TypeOK
<1>2. RowsRight' /\ SweptHasRows'
  BY <1>1, RowsStay DEF money
<1>3. TypeOK'
  BY <1>0 DEF TypeOK, Doing, schedule, money
<1>4. ASSUME NEW q \in Run PROVE Sound(q)'
  <2>1. CASE q # r
    BY <1>0, <1>1, <2>1, StaySound DEF IInv, TypeOK, money
  <2>2. QED
    BY <2>1
<1>5. QED
  BY <1>2, <1>3, <1>4 DEF IInv

-----------------------------------------------------------------------------
(* Requests and days *)

LEMMA ApproveStep ==
    ASSUME IInv, NEW m \in Member, NEW amount \in Int, Approve(m, amount)
    PROVE  IInv'
<1>1. TypeOK /\ day \in Day /\ day \in Int
  BY Days DEF IInv, TypeOK
<1>2. Settling
  BY <1>1, SameSums DEF Approve
<1>3. approval' \in Approval /\ approval'.day <= day'
  BY <1>1 DEF Approve, Approval
<1>4. TypeOK'
  BY <1>1, <1>3 DEF Approve, TypeOK, schedule, money
<1>5. QED
  BY <1>2, <1>3, <1>4, NoRunStep DEF Approve, money

LEMMA TickStep ==
    ASSUME IInv, Tick
    PROVE  IInv'
<1>1. TypeOK /\ day' \in Day /\ day <= day' /\ day \in Int /\ day' \in Int
  BY Days DEF IInv, TypeOK, Tick
<1>2. Settling
  BY <1>1, SameSums DEF Tick
<1>3. TypeOK'
  BY <1>1 DEF Tick, TypeOK, schedule, money
<1>4. approval' # Idle => approval'.day <= day'
  <2>1. CASE approval = Idle
    BY <2>1 DEF Tick
  <2>2. CASE approval # Idle
    <3>1. approval.day \in Int /\ approval.day <= day
      BY <1>1, <2>2, Days DEF IInv, TypeOK, Approval
    <3>2. QED
      BY <1>1, <3>1 DEF Tick
  <2>3. QED
    BY <2>1, <2>2
<1>5. QED
  BY <1>2, <1>3, <1>4, NoRunStep DEF Tick, money

\* An approval that ends changes the sum of its own day alone, and makes that day
\* late when it is over.
LEMMA EndApprovalStep ==
    ASSUME IInv, EndApproval
    PROVE  IInv'
<1>1. /\ TypeOK /\ day \in Day /\ day \in Int /\ day' = day
      /\ approval \in Approval /\ approval.day <= day
      /\ approval.day \in Int /\ approval.day \in Day /\ approval.amount \in Int
  BY Days DEF IInv, TypeOK, EndApproval, Approval
<1>2. approved' = [d \in 0..MaxDay |-> [m \in Member |->
          approved[d][m] + IF m = approval.member /\ d >= approval.day
                           THEN approval.amount ELSE 0]]
  BY DEF EndApproval
<1>3. ASSUME NEW d \in 0..MaxDay, NEW m \in Member
      PROVE  /\ approved[d][m] \in Int /\ approved'[d][m] \in Int
             /\ d < approval.day => approved'[d][m] = approved[d][m]
             /\ d >= approval.day =>
                    approved'[d][m] = approved[d][m]
                        + IF m = approval.member THEN approval.amount ELSE 0
  <2> DEFINE gain == IF m = approval.member /\ d >= approval.day THEN approval.amount ELSE 0
  <2>1. approved[d][m] \in Int /\ gain \in Int /\ d \in Int
    BY <1>1, Days DEF TypeOK
  <2>2. approved'[d][m] = approved[d][m] + gain
    BY <1>2
  <2>3. d < approval.day => gain = 0
    BY <1>1, <2>1
  <2>4. d >= approval.day => gain = IF m = approval.member THEN approval.amount ELSE 0
    OBVIOUS
  <2> HIDE DEF gain
  <2>5. QED
    BY <2>1, <2>2, <2>3, <2>4
<1>4. approved' \in [0..MaxDay -> [Member -> Int]]
  BY <1>2, <1>3
<1>5. ASSUME NEW d \in Day \ late', NEW m \in Member, d < day
      PROVE  Net(d, m)' = Net(d, m)
  <2>1. d \in Int /\ d # approval.day /\ 1 <= d /\ d <= MaxDay /\ d \in 0..MaxDay
    BY <1>1, <1>5, Days DEF EndApproval
  <2>2. Until(d, m) = approved[d][m] /\ Until(d, m)' = approved'[d][m]
    BY <2>1 DEF Until
  <2>3. CASE d = 1
    <3>1. Until(d - 1, m) = 0 /\ Until(d - 1, m)' = 0
      BY <2>3 DEF Until
    <3>2. d < approval.day
      BY <1>1, <2>1, <2>3, Days
    <3>3. QED
      BY <1>3, <2>1, <2>2, <3>1, <3>2 DEF Net, Base
  <2>4. CASE d > 1
    <3>1. d - 1 \in 0..MaxDay /\ ~(d - 1 < 1) /\ d - 1 \in Int
      BY <2>1, <2>4, Days
    <3>2. Until(d - 1, m) = approved[d - 1][m] /\ Until(d - 1, m)' = approved'[d - 1][m]
      BY <3>1 DEF Until
    <3>3. approved'[d][m] - approved'[d - 1][m] = approved[d][m] - approved[d - 1][m]
      <4>1. CASE d < approval.day
        BY <1>1, <1>3, <2>1, <3>1, <4>1
      <4>2. CASE d > approval.day
        BY <1>1, <1>3, <2>1, <3>1, <4>2
      <4>3. QED
        BY <1>1, <2>1, <4>1, <4>2
    <3>4. QED
      BY <2>2, <3>2, <3>3 DEF Net, Base
  <2>5. QED
    BY <2>1, <2>3, <2>4
<1>6. late \subseteq late' /\ late' \in SUBSET Day
  BY <1>1 DEF EndApproval, TypeOK
<1>7. Settling
  BY <1>1, <1>5, <1>6 DEF Settling
<1>8. TypeOK'
  BY <1>1, <1>4, <1>6 DEF EndApproval, TypeOK, schedule, money
<1>9. QED
  BY <1>7, <1>8, NoRunStep DEF EndApproval, money

-----------------------------------------------------------------------------
(* Settlements *)

\* A settlement that looks next is sound when its period is timely.
LEMMA LookSound ==
    ASSUME NEW r \in Run, run'[r].op = "look", Timely(r)'
    PROVE  Sound(r)'
BY DEF Sound

LEMMA EndSound ==
    ASSUME NEW r \in Run, run'[r] = Idle
    PROVE  Sound(r)'
BY IdleType DEF Sound, Timely

LEMMA ManualStep ==
    ASSUME IInv, NEW r \in Run, NEW p \in Period, Manual(r, p)
    PROVE  IInv'
<1> DEFINE v == [op |-> "look", sweep |-> FALSE, period |-> p, last |-> p[2]]
<1>1. p \in Int \X Int /\ p[1] <= p[2] /\ p[2] <= MaxDay /\ p[2] \in Int
  BY Days DEF Period
<1>2. v \in Doing /\ v.op = "look" /\ v.sweep = FALSE /\ v.period = p
  BY <1>1 DEF Doing, Looking
<1>3. run' = [run EXCEPT ![r] = v]
  BY DEF Manual
<1> HIDE DEF v
<1>4. run'[r] = v
  BY <1>3 DEF IInv, TypeOK
<1>5. Sound(r)'
  BY <1>1, <1>2, <1>4, LookSound DEF Timely
<1>6. QED
  BY <1>2, <1>3, <1>5, GoOn DEF Manual, IInv, TypeOK

LEMMA EndStep ==
    ASSUME IInv, NEW r \in Run, run' = [run EXCEPT ![r] = Idle],
           UNCHANGED <<day, approved, approval, schedule, money, swept, late>>, fired' \in 0..MaxDay
    PROVE  IInv'
<1>1. run'[r] = Idle
  BY DEF IInv, TypeOK
<1>2. QED
  BY <1>1, EndSound, IdleType, GoOn DEF IInv, TypeOK

LEMMA FireStep ==
    ASSUME IInv, NEW r \in Run, Fire(r)
    PROVE  IInv'
<1> DEFINE first == Target(day, Backfill - 1)
           last == Target(day, 0)
           v == [op |-> "look", sweep |-> TRUE, period |-> <<first, first>>, last |-> last]
<1>1. day \in Int /\ day <= MaxDay /\ fired' \in 0..MaxDay /\ day' = day
  BY Days DEF Fire, IInv, TypeOK
<1>2. first \in Int /\ last \in Int /\ first <= last /\ last < day /\ first <= MaxDay
  BY <1>1, SettlementAssumption, Days DEF SettlementAssumption, Target, Backfill
<1> HIDE DEF first, last
<1>3. CASE policy = "auto"
  <2>1. v \in Doing /\ v.op = "look" /\ v.period[1] = first /\ v.period[2] = first /\ v.last = last
    BY <1>2 DEF Doing, Looking
  <2>2. run' = [run EXCEPT ![r] = v]
    BY <1>3 DEF Fire, first, last
  <2> HIDE DEF v
  <2>3. run'[r] = v
    BY <2>2 DEF IInv, TypeOK
  <2>4. Sound(r)'
    BY <1>1, <1>2, <2>1, <2>3, LookSound DEF Timely
  <2>5. QED
    BY <1>1, <2>1, <2>2, <2>4, GoOn DEF Fire, IInv, TypeOK
<1>4. CASE policy # "auto"
  <2>1. run' = [run EXCEPT ![r] = Idle]
    BY <1>4 DEF Fire
  <2>2. QED
    BY <1>1, <2>1, EndStep DEF Fire
<1>5. QED
  BY <1>3, <1>4

\* What a settlement reads for one day is right then; who is left out has a row.
LEMMA DueSound ==
    ASSUME TypeOK, RowsRight, NEW d \in Day \ late, NEW m \in Member
    PROVE  /\ Due(<<d, d>>)[m] # 0 => Due(<<d, d>>)[m] = Net(d, m)
           /\ Net(d, m) > 0 => Due(<<d, d>>)[m] # 0 \/ settled[<<d, d>>][m] # 0
<1>1. Net(d, m) \in Int
  <2>1. <<d, d>> \in Int \X Int /\ d <= MaxDay /\ d \in Int
    BY Days
  <2>2. QED
    BY <2>1, BaseType DEF Net
<1>2. Due(<<d, d>>)[m] = IF Net(d, m) > 0 /\ settled[<<d, d>>][m] = 0 THEN Net(d, m) ELSE 0
  BY DEF Due, Net
<1>3. QED
  BY <1>1, <1>2

\* The period of r is done; when it was a sweep, whoever is to get a comp has a row.
LEMMA AdvanceStep ==
    ASSUME IInv, NEW r \in Run, run[r] # Idle, Advance(r), TypeOK',
           UNCHANGED <<day, approved, approval, late>>, RowsRight',
           \A d \in Day \ late, m \in Member :
               settled[<<d, d>>][m] # 0 => settled'[<<d, d>>][m] # 0,
           \A d \in Day \ late, m \in Member :
               run[r].sweep /\ run[r].period = <<d, d>> /\ Net(d, m) > 0
                   => settled'[<<d, d>>][m] # 0
    PROVE  IInv'
<1>0. TypeOK /\ day \in Int /\ day \in Day /\ run[r] \in Doing
  BY Days DEF IInv, TypeOK, Doing
<1>1. Settling /\ \A d \in Int, m \in Member : Net(d, m)' = Net(d, m)
  BY <1>0, SameSums
<1>2. /\ run[r].period \in Int \X Int /\ run[r].last \in Int /\ run[r].sweep \in BOOLEAN
      /\ run[r].sweep => /\ run[r].period[1] = run[r].period[2]
                         /\ run[r].period[2] <= run[r].last /\ run[r].last < day
  BY <1>0, DoingCases DEF IInv, Sound, Timely, Looking, Paying, Writing
<1>3. SweptHasRows'
  <2>1. ASSUME NEW d \in Day \ late, NEW m \in Member, d \in swept'
        PROVE  d < day' /\ (Net(d, m)' > 0 => settled'[<<d, d>>][m] # 0)
    <3>1. d \in Int /\ day' = day
      BY Days
    <3>0. Net(d, m)' = Net(d, m)
      BY <1>1, <3>1
    <3>2. CASE d \in swept
      BY <3>0, <3>1, <3>2 DEF IInv, SweptHasRows
    <3>3. CASE d \notin swept
      <4>1. run[r].sweep /\ d = run[r].period[1]
        BY <2>1, <3>3 DEF Advance
      <4>2. run[r].period = <<d, d>> /\ d < day
        <5>1. run[r].period = <<run[r].period[1], run[r].period[2]>>
          BY <1>2
        <5>2. run[r].period[2] = d /\ d <= run[r].last /\ run[r].last < day
          BY <1>2, <4>1
        <5>3. d < day
          BY <1>0, <1>2, <3>1, <5>2
        <5>4. QED
          BY <4>1, <5>1, <5>2, <5>3
      <4>3. QED
        BY <3>0, <3>1, <4>1, <4>2
    <3>4. QED
      BY <3>2, <3>3
  <2>2. QED
    BY <2>1 DEF SweptHasRows
<1>4. ASSUME NEW q \in Run PROVE Sound(q)'
  <2>1. CASE q # r
    <3>1. run'[q] = run[q]
      BY <1>0, <2>1 DEF Advance, TypeOK
    <3>2. QED
      BY <1>0, <1>1, <3>1, StaySound DEF IInv
  <2>2. CASE q = r
    <3> DEFINE d == run[r].period[1]
               v == [op |-> "look", sweep |-> TRUE, period |-> <<d + 1, d + 1>>,
                     last |-> run[r].last]
    <3>1. CASE run[r].sweep /\ d < run[r].last
      <4>1. d \in Int /\ d + 1 <= run[r].last /\ run[r].last < day /\ d + 1 <= MaxDay
        BY <1>0, <1>2, <3>1, Days
      <4>2. v.op = "look" /\ v.period[1] = d + 1 /\ v.period[2] = d + 1 /\ v.last = run[r].last
        OBVIOUS
      <4>3. run'[r] = v
        <5>1. run' = [run EXCEPT ![r] = v]
          <6>1. run[r].sweep = TRUE
            BY <1>2, <3>1
          <6>2. QED
            BY <3>1, <6>1 DEF Advance
        <5>2. QED
          BY <1>0, <5>1 DEF TypeOK
      <4> HIDE DEF v, d
      <4>4. Timely(r)'
        BY <4>1, <4>2, <4>3 DEF Timely
      <4>5. QED
        BY <2>2, <4>2, <4>3, <4>4, LookSound
    <3>2. CASE ~(run[r].sweep /\ d < run[r].last)
      <4>1. run'[r] = Idle
        BY <1>0, <3>2 DEF Advance, TypeOK
      <4>2. QED
        BY <2>2, <4>1, EndSound
    <3>3. QED
      BY <3>1, <3>2
  <2>3. QED
    BY <2>1, <2>2
<1>5. approval' # Idle => approval'.day <= day'
  BY DEF IInv
<1>6. QED
  BY <1>3, <1>4, <1>5 DEF IInv

\* The period of r is done; a sweep looks at its next day, and nothing else goes on.
LEMMA AdvanceRuns ==
    ASSUME TypeOK, NEW r \in Run, run[r] # Idle, Advance(r)
    PROVE  \E v \in Doing : run' = [run EXCEPT ![r] = v] /\ (v = Idle \/ (v.op = "look" /\ v.sweep))
<1> DEFINE d == run[r].period[1]
           v == [op |-> "look", sweep |-> TRUE, period |-> <<d + 1, d + 1>>, last |-> run[r].last]
<1>1. run[r] \in Doing
  BY DEF TypeOK, Doing
<1>2. run[r].period \in Int \X Int /\ run[r].last \in Int /\ run[r].sweep \in BOOLEAN /\ d \in Int
  BY <1>1, DoingCases DEF Looking, Paying, Writing
<1>3. v \in Doing /\ v.op = "look" /\ v.sweep
  BY <1>2 DEF Doing, Looking
<1>4. CASE run[r].sweep /\ d < run[r].last
  <2>1. run[r].sweep = TRUE
    BY <1>2, <1>4
  <2>2. run' = [run EXCEPT ![r] = v]
    BY <1>4, <2>1 DEF Advance
  <2> HIDE DEF v
  <2>3. v \in Doing /\ run' = [run EXCEPT ![r] = v] /\ v.op = "look" /\ v.sweep
    BY <1>3, <2>2
  <2>4. QED
    BY <2>3, Zenon
<1>5. CASE ~(run[r].sweep /\ d < run[r].last)
  <2>1. run' = [run EXCEPT ![r] = Idle]
    BY <1>5 DEF Advance
  <2>2. QED
    BY <2>1, IdleType
<1>6. QED
  BY <1>4, <1>5

LEMMA AdvanceType ==
    ASSUME TypeOK, NEW r \in Run, run[r] # Idle, Advance(r)
    PROVE  swept' \in SUBSET Int /\ run' \in [Run -> Doing]
<1>1. run[r] \in Doing /\ run \in [Run -> Doing]
  BY DEF TypeOK, Doing
<1>2. run[r].period \in Int \X Int
  BY <1>1, DoingCases DEF Looking, Paying, Writing
<1>3. run' \in [Run -> Doing]
  BY <1>1, AdvanceRuns
<1>4. swept' \in SUBSET Int
  BY <1>2 DEF Advance, TypeOK
<1>5. QED
  BY <1>3, <1>4

LEMMA LookStep ==
    ASSUME IInv, NEW r \in Run, Look(r)
    PROVE  IInv'
<1> DEFINE p == run[r].period
           due == Due(p)
           v == [op |-> "pay", sweep |-> run[r].sweep, period |-> p, last |-> run[r].last,
                 due |-> due, rows |-> [m \in Member |-> 0], wallet |-> [m \in Member |-> 0]]
<1>0. /\ TypeOK /\ RowsRight /\ run[r] \in Looking /\ run[r] # Idle
      /\ day \in Int /\ day \in Day /\ fired' \in 0..MaxDay
  BY DoingCases, IdleType, Days DEF Look, IInv, TypeOK, Doing
<1>1. /\ p \in Int \X Int /\ run[r].last \in Int /\ run[r].sweep \in BOOLEAN
      /\ p[1] <= p[2] /\ p[2] <= MaxDay
      /\ run[r].sweep => p[1] = p[2] /\ p[2] <= run[r].last /\ run[r].last < day
  BY <1>0 DEF Looking, IInv, Sound, Timely
<1>2. due \in [Member -> Nat]
  BY <1>0, <1>1, DueType
<1>3. /\ UNCHANGED <<day, approved, approval, schedule, money, fired>>
      /\ \/ run' = [run EXCEPT ![r] = Idle] /\ UNCHANGED <<swept, late>>
         \/ (\A m \in Member : due[m] = 0) /\ Advance(r) /\ UNCHANGED late
         \/ /\ run' = [run EXCEPT ![r] = v]
            /\ late' = IF ~run[r].sweep /\ p[1] = p[2] /\ day <= p[2] THEN late \cup {p[1]} ELSE late
            /\ UNCHANGED swept
  BY DEF Look
<1>4. CASE run' = [run EXCEPT ![r] = Idle] /\ UNCHANGED <<swept, late>>
  BY <1>0, <1>3, <1>4, EndStep
<1>5. CASE (\A m \in Member : due[m] = 0) /\ Advance(r) /\ UNCHANGED late
  <2>1. TypeOK'
    BY <1>0, <1>3, <1>5, AdvanceType DEF TypeOK, Doing, schedule, money
  <2>2. Settling
    BY <1>0, <1>3, <1>5, SameSums
  <2>3. RowsRight'
    <3>1. \A d \in Int, m \in Member : Net(d, m)' = Net(d, m)
      BY <1>0, <1>3, <1>5, SameSums
    <3>2. day' = day /\ late' = late /\ settled' = settled
      BY <1>3, <1>5 DEF money
    <3>3. \A d \in Day : d \in Int
      BY Days
    <3>4. QED
      BY <1>0, <3>1, <3>2, <3>3 DEF RowsRight
  <2>4. ASSUME NEW d \in Day \ late, NEW m \in Member, p = <<d, d>>, Net(d, m) > 0
        PROVE  settled'[<<d, d>>][m] # 0
    <3>1. Due(<<d, d>>)[m] = 0
      BY <1>5, <2>4
    <3>2. settled[<<d, d>>][m] # 0
      BY <1>0, <2>4, <3>1, DueSound
    <3>3. QED
      BY <1>3, <3>2 DEF money
  <2>5. QED
    BY <1>0, <1>3, <1>5, <2>1, <2>3, <2>4, AdvanceStep DEF money
<1>6. CASE /\ run' = [run EXCEPT ![r] = v]
           /\ late' = IF ~run[r].sweep /\ p[1] = p[2] /\ day <= p[2] THEN late \cup {p[1]} ELSE late
           /\ UNCHANGED swept
  <2>1. v \in Doing /\ v # Idle
    BY <1>1, <1>2, IdleType DEF Doing, Paying
  <2>2. /\ v.period = p /\ v.sweep = run[r].sweep /\ v.last = run[r].last
        /\ v.due = due /\ \A m \in Member : v.rows[m] = 0
    OBVIOUS
  <2>9. v.op = "pay"
    OBVIOUS
  <2>3. late \subseteq late' /\ late' \in SUBSET Day
    <3>1. CASE ~run[r].sweep /\ p[1] = p[2] /\ day <= p[2]
      <4>1. p[1] \in Day
        BY <1>0, <1>1, <3>1, Days
      <4>2. QED
        BY <1>0, <1>6, <3>1, <4>1 DEF TypeOK
    <3>2. CASE ~(~run[r].sweep /\ p[1] = p[2] /\ day <= p[2])
      BY <1>0, <1>6, <3>2 DEF TypeOK
    <3>3. QED
      BY <3>1, <3>2
  <2> HIDE DEF v
  <2>4. run'[r] = v
    BY <1>0, <1>6 DEF TypeOK
  <2>5. Timely(r)'
    BY <1>1, <1>3, <2>2, <2>4 DEF Timely
  <2>6. ASSUME NEW d \in Day \ late', v.period = <<d, d>>
        PROVE  d < day' /\ \A m \in Member : Owes(r, d, m)'
    <3>1. p = <<d, d>> /\ d \in Day \ late /\ d \in Int /\ p[1] = d /\ p[2] = d
      BY <2>2, <2>3, <2>6, Days
    <3>2. d < day
      <4>1. CASE run[r].sweep
        BY <1>0, <1>1, <3>1, <4>1
      <4>2. CASE ~run[r].sweep
        <5>1. ~(day <= d)
          BY <1>6, <2>6, <3>1, <4>2
        <5>2. QED
          BY <1>0, <3>1, <5>1
      <4>3. QED
        BY <4>1, <4>2
    <3>3. ASSUME NEW m \in Member PROVE Owes(r, d, m)'
      <4>1. v.rows[m] = 0 /\ v.due[m] = Due(<<d, d>>)[m]
        BY <2>2, <3>1
      <4>2. /\ v.due[m] # 0 => v.due[m] = Net(d, m)
            /\ Net(d, m) > 0 => v.due[m] # 0 \/ settled[<<d, d>>][m] # 0
        BY <1>0, <3>1, <4>1, DueSound
      <4>3. Net(d, m)' = Net(d, m)
        BY <1>0, <1>3, <2>3, <3>1, SameSums
      <4>4. QED
        BY <1>3, <2>4, <4>1, <4>2, <4>3 DEF Owes, money
    <3>4. QED
      BY <1>3, <3>2, <3>3
  <2>7. Sound(r)'
    BY <2>4, <2>5, <2>6, <2>9 DEF Sound
  <2>8. QED
    BY <1>0, <1>3, <1>6, <2>1, <2>3, <2>7, GoOn
<1>7. QED
  BY <1>3, <1>4, <1>5, <1>6

\* A transaction that goes on with the same period is sound when what it owes is.
LEMMA PaySound ==
    ASSUME IInv, NEW r \in Run, run[r].op \in {"pay", "write"}, NEW v \in Doing,
           v.op \in {"pay", "write"}, run' = [run EXCEPT ![r] = v],
           v.op = "write" => v.due[v.at] # 0,
           v.period = run[r].period, v.sweep = run[r].sweep, v.last = run[r].last,
           UNCHANGED <<day, approved, approval, schedule, money, swept, late, fired>>,
           \A m \in Member :
               \/ v.rows[m] = run[r].rows[m] /\ v.due[m] = run[r].due[m]
               \/ run[r].due[m] # 0 /\ v.rows[m] = run[r].due[m] /\ v.due[m] = 0
    PROVE  IInv'
<1>0. TypeOK /\ run'[r] = v /\ v # Idle /\ run[r] # Idle /\ Sound(r) /\ day \in Day
  BY IdleType DEF IInv, TypeOK
<1>1. Timely(r)'
  BY <1>0 DEF Sound, Timely
<1>2. ASSUME NEW d \in Day \ late, v.period = <<d, d>>, NEW m \in Member PROVE d < day /\ Owes(r, d, m)'
  <2>1. d < day /\ Owes(r, d, m)
    BY <1>0, <1>2 DEF Sound
  <2>2. Net(d, m)' = Net(d, m)
    BY DEF Net, Base, Until
  <2>3. QED
    BY <1>0, <2>1, <2>2 DEF Owes, money
<1>3. ASSUME NEW d \in Day \ late, v.period = <<d, d>> PROVE d < day
  BY <1>0, <1>3 DEF Sound
<1>4. Sound(r)'
  BY <1>0, <1>1, <1>2, <1>3 DEF Sound
<1>5. QED
  BY <1>0, <1>4, GoOn DEF IInv, TypeOK

LEMMA CreateStep ==
    ASSUME IInv, NEW r \in Run, NEW m \in Member, Create(r, m)
    PROVE  IInv'
<1> DEFINE v == [op |-> "write", sweep |-> run[r].sweep, period |-> run[r].period,
                 last |-> run[r].last, due |-> run[r].due, rows |-> run[r].rows,
                 wallet |-> run[r].wallet, at |-> m, value |-> comp[m] + run[r].due[m]]
<1>0. TypeOK /\ run[r] \in Paying /\ fired' \in 0..MaxDay
  BY DoingCases DEF Create, IInv, TypeOK, Doing
<1>1. comp[m] + run[r].due[m] \in Nat
  BY <1>0 DEF TypeOK, Paying
<1>2. v \in Doing
  BY <1>0, <1>1 DEF Doing, Paying, Writing
<1>3. /\ v.op = "write" /\ v.due[v.at] # 0
      /\ v.period = run[r].period /\ v.sweep = run[r].sweep /\ v.last = run[r].last
      /\ \A n \in Member : v.rows[n] = run[r].rows[n] /\ v.due[n] = run[r].due[n]
  BY DEF Create
<1>4. /\ UNCHANGED <<day, approved, approval, schedule, money, fired, swept, late>>
      /\ run' = [run EXCEPT ![r] = Idle] \/ run' = [run EXCEPT ![r] = v]
  BY DEF Create
<1>5. run[r].op = "pay"
  BY DEF Create
<1> HIDE DEF v
<1>6. CASE run' = [run EXCEPT ![r] = Idle]
  BY <1>0, <1>4, <1>6, EndStep
<1>7. CASE run' = [run EXCEPT ![r] = v]
  BY <1>2, <1>3, <1>4, <1>5, <1>7, PaySound
<1>8. QED
  BY <1>4, <1>6, <1>7

LEMMA WriteStep ==
    ASSUME IInv, NEW r \in Run, Write(r)
    PROVE  IInv'
<1> DEFINE m == run[r].at
           due == [run[r].due EXCEPT ![m] = 0]
           rows == [run[r].rows EXCEPT ![m] = run[r].due[m]]
           wallet == [run[r].wallet EXCEPT ![m] = run[r].value]
           v == [op |-> "pay", sweep |-> run[r].sweep, period |-> run[r].period,
                 last |-> run[r].last, due |-> due, rows |-> rows, wallet |-> wallet]
<1>0. TypeOK /\ run[r] \in Writing /\ run[r].op = "write" /\ run[r].due[m] # 0
  BY DoingCases DEF Write, IInv, TypeOK, Doing, Sound
<1>1. /\ m \in Member /\ run[r].value \in Nat
      /\ run[r].due \in [Member -> Nat] /\ run[r].rows \in [Member -> Nat]
      /\ run[r].wallet \in [Member -> Nat]
  BY <1>0 DEF Writing
<1>2. /\ due \in [Member -> Nat] /\ rows \in [Member -> Nat] /\ wallet \in [Member -> Nat]
      /\ \A n \in Member :
             \/ rows[n] = run[r].rows[n] /\ due[n] = run[r].due[n]
             \/ run[r].due[n] # 0 /\ rows[n] = run[r].due[n] /\ due[n] = 0
  BY <1>0, <1>1
<1> HIDE DEF due, rows, wallet
<1>3. v \in Doing
  BY <1>0, <1>2 DEF Doing, Paying, Writing
<1>4. /\ v.op = "pay" /\ v.rows = rows /\ v.due = due
      /\ v.period = run[r].period /\ v.sweep = run[r].sweep /\ v.last = run[r].last
  OBVIOUS
<1>5. /\ UNCHANGED <<day, approved, approval, schedule, money, fired, swept, late>>
      /\ run' = [run EXCEPT ![r] = v]
  BY DEF Write, due, rows, wallet
<1> HIDE DEF v, m
<1>6. \A n \in Member :
          \/ v.rows[n] = run[r].rows[n] /\ v.due[n] = run[r].due[n]
          \/ run[r].due[n] # 0 /\ v.rows[n] = run[r].due[n] /\ v.due[n] = 0
  BY <1>2, <1>4
<1>7. v.op \in {"pay", "write"} /\ (v.op = "write" => v.due[v.at] # 0)
      /\ run[r].op \in {"pay", "write"}
  BY <1>0, <1>4
<1>8. QED
  BY <1>3, <1>4, <1>5, <1>6, <1>7, PaySound

\* At the end of the transaction its rows are there, and they are right.
LEMMA CommitStep ==
    ASSUME IInv, NEW r \in Run, Commit(r)
    PROVE  IInv'
<1> DEFINE p == run[r].period
<1>0. /\ TypeOK /\ RowsRight /\ run[r] \in Paying /\ run[r] # Idle /\ Sound(r)
      /\ run[r].op = "pay" /\ day \in Day /\ day \in Int
  BY DoingCases, IdleType, Days DEF Commit, IInv, TypeOK, Doing
<1>1. run[r].rows \in [Member -> Nat] /\ run[r].wallet \in [Member -> Nat]
  BY <1>0 DEF Paying
<1>2. /\ UNCHANGED <<day, approved, approval, schedule, fired, late>> /\ Advance(r)
      /\ \A m \in Member : run[r].due[m] = 0
      /\ settled' = [settled EXCEPT ![p] =
             [m \in Member |-> IF run[r].rows[m] # 0 THEN run[r].rows[m] ELSE settled[p][m]]]
      /\ comp' = [m \in Member |-> IF run[r].rows[m] # 0 THEN run[r].wallet[m] ELSE comp[m]]
  BY DEF Commit
<1>3. /\ settled' \in [Period -> [Member -> Nat]]
      /\ \A q \in Period, m \in Member :
             settled'[q][m] = IF q = p /\ run[r].rows[m] # 0 THEN run[r].rows[m] ELSE settled[q][m]
  <2>1. CASE p \in Period
    BY <1>0, <1>1, <1>2, <2>1 DEF TypeOK
  <2>2. CASE p \notin Period
    BY <1>0, <1>1, <1>2, <2>2 DEF TypeOK
  <2>3. QED
    BY <2>1, <2>2
<1>4. comp' \in [Member -> Nat]
  BY <1>0, <1>1, <1>2 DEF TypeOK
<1>5. TypeOK'
  <2>1. swept' \in SUBSET Int /\ run' \in [Run -> Doing]
    BY <1>0, <1>2, AdvanceType
  <2>2. QED
    BY <1>0, <1>2, <1>3, <1>4, <2>1 DEF TypeOK, Doing, schedule
<1>6. \A d \in Day : d \in Int /\ <<d, d>> \in Period
  BY Days DEF Period
<1>7. \A d \in Int, m \in Member : Net(d, m)' = Net(d, m)
  BY <1>0, <1>2, SameSums
<1>8. ASSUME NEW d \in Day \ late, NEW m \in Member
      PROVE  /\ settled'[<<d, d>>][m] =
                    IF <<d, d>> = p /\ run[r].rows[m] # 0 THEN run[r].rows[m]
                    ELSE settled[<<d, d>>][m]
             /\ p = <<d, d>> => d < day /\ Owes(r, d, m)
  BY <1>0, <1>3, <1>6 DEF Sound
<1>9. RowsRight'
  <2>1. ASSUME NEW d \in Day \ late', NEW m \in Member, settled'[<<d, d>>][m] # 0
        PROVE  d < day' /\ settled'[<<d, d>>][m] = Net(d, m)'
    <3>1. d \in Day \ late /\ Net(d, m)' = Net(d, m) /\ day' = day
      BY <1>2, <1>6, <1>7
    <3>2. QED
      BY <1>0, <1>8, <2>1, <3>1 DEF Owes, RowsRight
  <2>2. QED
    BY <2>1 DEF RowsRight
<1>10. \A d \in Day \ late, m \in Member : settled[<<d, d>>][m] # 0 => settled'[<<d, d>>][m] # 0
  BY <1>8
<1>11. ASSUME NEW d \in Day \ late, NEW m \in Member, p = <<d, d>>, Net(d, m) > 0
       PROVE  settled'[<<d, d>>][m] # 0
  BY <1>2, <1>8, <1>11 DEF Owes
<1>12. \A d \in Day \ late, m \in Member :
           run[r].sweep /\ run[r].period = <<d, d>> /\ Net(d, m) > 0
               => settled'[<<d, d>>][m] # 0
  BY <1>11
<1>13. UNCHANGED <<day, approved, approval, late>> /\ Advance(r)
  BY <1>2
<1> HIDE DEF p
<1>14. QED
  BY <1>0, <1>5, <1>9, <1>10, <1>12, <1>13, AdvanceStep

-----------------------------------------------------------------------------
(* The schedule, and the theorems *)

LEMMA SyncStep ==
    ASSUME IInv, NEW s \in Sync,
           \/ Synchronise(s) \/ Boot(s) \/ SyncFails(s)
           \/ \E p \in Policy : SetPolicy(s, p)
    PROVE  IInv'
<1>1. TypeOK /\ day \in Day
  BY DEF IInv, TypeOK
<1>2. UNCHANGED <<day, approved, approval, money, run, fired, swept, late>>
  BY DEF Synchronise, ReadPolicy, Clear, Add, Boot, SyncFails, SetPolicy
<1>3. Settling
  BY <1>1, <1>2, SameSums, Days
<1>4. /\ sync' \in [Sync -> Syncing \cup {Idle}] /\ policy' \in Policy
      /\ job' \in BOOLEAN /\ stale' \in BOOLEAN
  <2>1. Idle \notin Syncing
    BY DEF Idle, Syncing
  <2>2. ASSUME NEW stage \in Syncing \cup {Idle}, SetSync(s, stage)
        PROVE  sync' \in [Sync -> Syncing \cup {Idle}]
    BY <1>1, <2>2 DEF SetSync, TypeOK
  <2>3. CASE ReadPolicy(s)
    <3>1. [op |-> "clear", wanted |-> policy = "auto"] \in Syncing
      BY DEF Syncing
    <3>2. QED
      BY <1>1, <2>2, <2>3, <3>1 DEF ReadPolicy, TypeOK
  <2>4. CASE Clear(s)
    <3>1. sync[s].wanted \in BOOLEAN
      BY <1>1, <2>4 DEF Clear, TypeOK, Syncing, Idle
    <3>2. [op |-> "add"] \in Syncing
      BY DEF Syncing
    <3>3. (stale /\ sync[s].wanted) \in BOOLEAN
      OBVIOUS
    <3>4. QED
      BY <1>1, <2>2, <2>4, <3>1, <3>2, <3>3 DEF Clear, TypeOK
  <2>5. CASE Add(s) \/ SyncFails(s)
    BY <1>1, <2>2, <2>5 DEF Add, SyncFails, TypeOK
  <2>6. CASE Boot(s) \/ \E p \in Policy : SetPolicy(s, p)
    <3>1. [op |-> "read"] \in Syncing
      BY DEF Syncing
    <3>2. QED
      BY <1>1, <2>2, <2>6, <3>1 DEF Boot, SetPolicy, TypeOK
  <2>7. QED
    BY <2>3, <2>4, <2>5, <2>6 DEF Synchronise
<1>5. TypeOK'
  BY <1>1, <1>2, <1>4 DEF TypeOK, money
<1>6. approval' # Idle => approval'.day <= day'
  BY <1>2 DEF IInv
<1>7. QED
  BY <1>2, <1>3, <1>5, <1>6, NoRunStep DEF money

LEMMA InitInv == Init => IInv
<1> SUFFICES ASSUME Init PROVE IInv
  OBVIOUS
<1>1. 1 \in Day /\ 0 \in 0..MaxDay
  BY Days
<1>2. TypeOK
  <2>1. /\ approved \in [0..MaxDay -> [Member -> Int]]
        /\ settled \in [Period -> [Member -> Nat]] /\ comp \in [Member -> Nat]
    BY DEF Init
  <2>2. run \in [Run -> Looking \cup Paying \cup Writing \cup {Idle}]
    BY DEF Init
  <2>3. sync \in [Sync -> Syncing \cup {Idle}]
    BY DEF Init
  <2>4. QED
    BY <1>1, <2>1, <2>2, <2>3 DEF Init, TypeOK, Policy
<1>3. RowsRight /\ SweptHasRows
  BY DEF Init, RowsRight, SweptHasRows, Period, Day
<1>4. \A r \in Run : Sound(r)
  BY IdleType DEF Init, Sound, Timely
<1>5. QED
  BY <1>2, <1>3, <1>4 DEF Init, IInv

LEMMA Inductive == IInv /\ [Next]_vars => IInv'
<1> SUFFICES ASSUME IInv, [Next]_vars PROVE IInv'
  OBVIOUS
<1>1. CASE UNCHANGED vars
  <2>1. TypeOK /\ day \in Day /\ day <= day' /\ TypeOK'
    BY <1>1, Days DEF vars, schedule, money, IInv, TypeOK
  <2>2. Settling
    BY <1>1, <2>1, SameSums DEF vars
  <2>3. approval' # Idle => approval'.day <= day'
    BY <1>1 DEF vars, IInv
  <2>4. QED
    BY <1>1, <2>1, <2>2, <2>3, NoRunStep DEF vars, money
<1>2. ASSUME NEW r \in Run, Abort(r) PROVE IInv'
  BY <1>2, EndStep DEF Abort, IInv, TypeOK
<1>3. ASSUME NEW r \in Run, Settle(r) PROVE IInv'
  BY <1>3, LookStep, CreateStep, WriteStep, CommitStep DEF Settle
<1>4. QED
  BY <1>1, <1>2, <1>3, TickStep, EndApprovalStep, ApproveStep, FireStep, ManualStep, SyncStep
  DEF Next

\* Every reachable state is well typed.
THEOREM SettlementTypeCorrect == Spec => []TypeOK
<1>1. IInv => TypeOK
  BY DEF IInv
<1>2. QED
  BY <1>1, InitInv, Inductive, PTL DEF Spec

\* Whatever settlements overlap and wherever they break off, a day that was swept,
\* and neither settled too early nor changed by a late approval, is settled for
\* every member with exactly what was deposited and not withdrawn
\* (runAutoCompSettlementSweep).
THEOREM SweptDaysAlwaysExact == Spec => []SweptDaysExact
<1>1. IInv => SweptDaysExact
  <2> SUFFICES ASSUME IInv, NEW d \in (swept \cap Day) \ late, NEW m \in Member
               PROVE  settled[<<d, d>>][m] = IF Net(d, m) > 0 THEN Net(d, m) ELSE 0
    BY DEF SweptDaysExact, Net
  <2>1. d \in Int /\ <<d, d>> \in Period /\ d <= MaxDay
    BY Days DEF Period
  <2>2. settled[<<d, d>>][m] \in Nat
    BY <2>1 DEF IInv, TypeOK
  <2>3. Net(d, m) \in Int
    <3>1. <<d, d>> \in Int \X Int
      BY <2>1
    <3>2. QED
      BY <2>1, <3>1, BaseType DEF IInv, Net
  <2>4. /\ settled[<<d, d>>][m] # 0 => settled[<<d, d>>][m] = Net(d, m)
        /\ Net(d, m) > 0 => settled[<<d, d>>][m] # 0
    BY DEF IInv, RowsRight, SweptHasRows
  <2>5. QED
    BY <2>2, <2>3, <2>4
<1>2. QED
  BY <1>1, InitInv, Inductive, PTL DEF Spec

\* What a synchronisation has read is still the policy, and once it has ended the
\* job is what the policy wants.
Follows(y) ==
    /\ sync[y].op = "clear" => (sync[y].wanted <=> policy = "auto")
    /\ sync[y].op = "add" => policy = "auto"
    /\ sync[y] = Idle /\ ~stale => (job <=> policy = "auto")

LEMMA FollowsStep ==
    ASSUME NEW y, Sync = {y}, TypeOK, Follows(y), [Next]_vars
    PROVE  Follows(y)'
<1>1. Idle.op = "idle" /\ Idle \notin Syncing
  BY DEF Idle, Syncing
<1>2. CASE UNCHANGED schedule
  BY <1>2 DEF schedule, Follows
<1>3. ASSUME NEW stage, SetSync(y, stage) PROVE sync'[y] = stage
  BY <1>3 DEF SetSync, TypeOK
<1>4. CASE ReadPolicy(y)
  <2> DEFINE wanted == policy = "auto"
  <2>1. sync'[y] = [op |-> "clear", wanted |-> wanted] /\ policy' = policy
    BY <1>3, <1>4 DEF ReadPolicy
  <2>2. sync'[y].op = "clear" /\ sync'[y].wanted = wanted /\ sync'[y] # Idle
    <3> HIDE DEF wanted
    <3>1. QED
      BY <1>1, <2>1
  <2>3. QED
    BY <2>1, <2>2 DEF Follows
<1>5. CASE Clear(y)
  <2>1. /\ policy' = policy /\ job' = FALSE
        /\ sync'[y] = IF sync[y].wanted THEN [op |-> "add"] ELSE Idle
        /\ sync[y].wanted <=> policy = "auto"
    BY <1>3, <1>5 DEF Clear, Follows
  <2>2. CASE sync[y].wanted
    <3>1. sync'[y].op = "add" /\ sync'[y] # Idle
      BY <1>1, <2>1, <2>2
    <3>2. QED
      BY <2>1, <2>2, <3>1 DEF Follows
  <2>3. CASE ~sync[y].wanted
    <3>1. sync'[y].op = "idle"
      BY <1>1, <2>1, <2>3
    <3>2. QED
      BY <2>1, <2>3, <3>1 DEF Follows
  <2>4. QED
    BY <2>2, <2>3
<1>6. CASE Add(y)
  <2>1. sync'[y].op = "idle" /\ job' = TRUE /\ policy' = "auto"
    BY <1>1, <1>3, <1>6 DEF Add, Follows
  <2>2. QED
    BY <2>1 DEF Follows
<1>7. CASE SyncFails(y)
  <2>1. sync'[y].op = "idle" /\ stale' = TRUE
    BY <1>1, <1>3, <1>7 DEF SyncFails
  <2>2. QED
    BY <2>1 DEF Follows
<1>8. CASE Boot(y) \/ \E p \in Policy : SetPolicy(y, p)
  <2>1. sync'[y].op = "read" /\ sync'[y] # Idle
    BY <1>1, <1>3, <1>8 DEF Boot, SetPolicy
  <2>2. QED
    BY <2>1 DEF Follows
<1>9. \/ UNCHANGED schedule
      \/ ReadPolicy(y) \/ Clear(y) \/ Add(y) \/ SyncFails(y) \/ Boot(y)
      \/ \E p \in Policy : SetPolicy(y, p)
  <2>1. CASE UNCHANGED vars
    BY <2>1 DEF vars, schedule
  <2>2. CASE Tick \/ EndApproval \/ \E m \in Member, amount \in Int : Approve(m, amount)
    <3>1. ASSUME NEW m \in Member, NEW amount \in Int, Approve(m, amount)
          PROVE  UNCHANGED schedule
      BY <3>1 DEF Approve
    <3>2. CASE Tick \/ EndApproval
      BY <3>2 DEF Tick, EndApproval
    <3>3. QED
      BY <2>2, <3>1, <3>2
  <2>3. ASSUME NEW r \in Run, Fire(r) \/ Settle(r) \/ Abort(r) \/ \E p \in Period : Manual(r, p)
        PROVE  UNCHANGED schedule
    BY <2>3 DEF Fire, Settle, Look, Create, Write, Commit, Abort, Manual
  <2>4. CASE \E s \in Sync :
                 Synchronise(s) \/ Boot(s) \/ SyncFails(s) \/ \E p \in Policy : SetPolicy(s, p)
    BY <2>4 DEF Synchronise
  <2>5. QED
    <3>1. [Next]_vars =>
              \/ UNCHANGED vars
              \/ Tick \/ EndApproval \/ \E m \in Member, amount \in Int : Approve(m, amount)
              \/ \E r \in Run :
                     Fire(r) \/ Settle(r) \/ Abort(r) \/ \E p \in Period : Manual(r, p)
              \/ \E s \in Sync :
                     Synchronise(s) \/ Boot(s) \/ SyncFails(s) \/ \E p \in Policy : SetPolicy(s, p)
      BY DEF Next
    <3>2. QED
      BY <2>1, <2>2, <2>3, <2>4, <3>1
<1>10. QED
  BY <1>2, <1>4, <1>5, <1>6, <1>7, <1>8, <1>9

\* As long as synchronisations follow each other, and the latest was not broken off,
\* the job is registered exactly when the policy wants it (syncPlatformSchedule).
THEOREM ScheduleAlwaysFollows ==
    ASSUME NEW y, Sync = {y}
    PROVE  Spec => []ScheduleFollowsPolicy
<1>1. Init => Follows(y)
  BY DEF Init, Follows, Idle
<1>2. TypeOK /\ Follows(y) /\ [Next]_vars => Follows(y)'
  BY FollowsStep
<1>3. Follows(y) => ScheduleFollowsPolicy
  BY DEF Follows, ScheduleFollowsPolicy
<1>4. QED
  BY <1>1, <1>2, <1>3, SettlementTypeCorrect, PTL DEF Spec

-----------------------------------------------------------------------------
(* Sums *)

\* The element of s that the sum takes first.
Pick(s) == CHOOSE x \in s : TRUE

\* The equation of the sums of f over the subsets of S.
Adds(g, f, S) ==
    g = [s \in SUBSET S |-> IF s = {} THEN 0 ELSE f[Pick(s)] + g[s \ {Pick(s)}]]

LEMMA PickIn ==
    ASSUME NEW s, s # {}
    PROVE  Pick(s) \in s
BY DEF Pick

\* Among subsets of a finite set there is one none of whose elements can be left out.
LEMMA LeastSet ==
    ASSUME NEW S, IsFiniteSet(S), NEW T \in SUBSET SUBSET S, T # {}
    PROVE  \E s \in T : \A x \in s : s \ {x} \notin T
<1>1. IsWellFoundedOn(StrictSubsetOrdering(S), FiniteSubsetsOf(S))
  BY FS_StrictSubsetOrderingWellFounded
<1>2. FiniteSubsetsOf(S) = SUBSET S
  BY FS_FiniteSubsetsOfFinite
<1>3. PICK s \in T : \A r \in T : <<r, s>> \notin StrictSubsetOrdering(S)
  BY <1>1, <1>2, WFMin
<1>4. ASSUME NEW x \in s PROVE s \ {x} \notin T
  BY <1>3 DEF StrictSubsetOrdering
<1>5. QED
  BY <1>4

\* A set of numbers that is not empty has one whose predecessor is not in it.
LEMMA FirstNumber ==
    ASSUME NEW N \in Nat, NEW T \in SUBSET (0..N), T # {}
    PROVE  \E n \in T : n - 1 \notin T
<1> DEFINE U == {1..n : n \in T}
<1>1. IsFiniteSet(1..N)
  BY FS_Interval
<1>2. U \in SUBSET SUBSET (1..N)
  <2>1. ASSUME NEW n \in T PROVE 1..n \subseteq 1..N
    OBVIOUS
  <2>2. QED
    BY <2>1
<1>3. U # {}
  OBVIOUS
<1> HIDE DEF U
<1>4. PICK s \in U : \A x \in s : s \ {x} \notin U
  BY <1>3, <1>1, <1>2, LeastSet
<1>5. PICK n \in T : s = 1..n
  BY <1>4 DEF U
<1>6. n - 1 \notin T
  <2> SUFFICES ASSUME n - 1 \in T PROVE FALSE
    OBVIOUS
  <2>1. n \in 1..n /\ 1..(n - 1) = s \ {n}
    BY <1>5
  <2>2. 1..(n - 1) \in U
    BY DEF U
  <2>3. QED
    BY <1>4, <1>5, <2>1, <2>2
<1>7. QED
  BY <1>6

LEMMA SumUnfold ==
    ASSUME NEW f, NEW S
    PROVE  SumFunctionOnSet(f, S) = (CHOOSE g : Adds(g, f, S))[S]
BY DEF SumFunctionOnSet, FoldFunctionOnSet, MapThenFoldSet, Adds, Pick

\* Sums that are right for subsets of up to n elements.
Upto(g, f, S, n) ==
    \A s \in SUBSET S : Cardinality(s) <= n =>
        g[s] = IF s = {} THEN 0 ELSE f[Pick(s)] + g[s \ {Pick(s)}]

\* They can be had for one element more.
LEMMA UptoNext ==
    ASSUME NEW S, IsFiniteSet(S), NEW f \in [S -> Int], NEW n \in Nat,
           NEW g \in [SUBSET S -> Int], Upto(g, f, S, n)
    PROVE  \E h \in [SUBSET S -> Int] : Upto(h, f, S, n + 1)
<1> DEFINE h == [s \in SUBSET S |-> IF s = {} THEN 0 ELSE f[Pick(s)] + g[s \ {Pick(s)}]]
<1>1. ASSUME NEW s \in SUBSET S, s # {} PROVE Pick(s) \in S /\ s \ {Pick(s)} \in SUBSET S
  BY <1>1, PickIn
<1>2. h \in [SUBSET S -> Int]
  BY <1>1
<1>3. ASSUME NEW s \in SUBSET S, Cardinality(s) <= n PROVE h[s] = g[s]
  BY <1>3 DEF Upto
<1>4. ASSUME NEW s \in SUBSET S, Cardinality(s) <= n + 1, s # {}
      PROVE  h[s] = f[Pick(s)] + h[s \ {Pick(s)}]
  <2>1. IsFiniteSet(s) /\ Cardinality(s) \in Nat
    BY FS_Subset, FS_CardinalityType
  <2>2. Pick(s) \in s
    BY <1>4, PickIn
  <2>3. Cardinality(s \ {Pick(s)}) = Cardinality(s) - 1
    BY <2>1, <2>2, FS_RemoveElement
  <2>4. h[s \ {Pick(s)}] = g[s \ {Pick(s)}]
    <3>1. s \ {Pick(s)} \in SUBSET S /\ Cardinality(s \ {Pick(s)}) <= n
      BY <1>4, <2>1, <2>3
    <3>2. QED
      BY <1>3, <3>1
  <2>5. QED
    BY <1>4, <2>4
<1>5. h[{}] = 0
  OBVIOUS
<1> HIDE DEF h
<1>6. Upto(h, f, S, n + 1)
  BY <1>4, <1>5 DEF Upto
<1>7. QED
  BY <1>2, <1>6

LEMMA SumExists ==
    ASSUME NEW S, IsFiniteSet(S), NEW f \in [S -> Int]
    PROVE  \E g \in [SUBSET S -> Int] : Adds(g, f, S)
<1> DEFINE N == Cardinality(S)
           Right(n) == \E g \in [SUBSET S -> Int] : Upto(g, f, S, n)
           Wrong == {n \in 0..N : ~Right(n)}
<1>1. N \in Nat
  BY FS_CardinalityType
<1>2. Right(0)
  <2>1. \A s \in SUBSET S : IsFiniteSet(s) /\ Cardinality(s) \in Nat /\ (Cardinality(s) = 0 <=> s = {})
    BY FS_Subset, FS_CardinalityType, FS_EmptySet
  <2> DEFINE zeros == [s \in SUBSET S |-> 0]
  <2>2. zeros \in [SUBSET S -> Int] /\ Upto(zeros, f, S, 0)
    BY <2>1 DEF Upto
  <2> HIDE DEF zeros
  <2>3. QED
    BY <2>2
<1>3. \A n \in Nat : Right(n) => Right(n + 1)
  BY UptoNext
<1> HIDE DEF N, Right
<1>4. Wrong = {}
  <2> SUFFICES ASSUME Wrong # {} PROVE FALSE
    OBVIOUS
  <2>1. PICK n \in Wrong : n - 1 \notin Wrong
    BY <1>1, FirstNumber
  <2>2. n \in 0..N /\ ~Right(n) /\ n # 0
    BY <1>2
  <2>3. n - 1 \in 0..N
    BY <1>1, <2>2
  <2>4. Right(n - 1)
    BY <2>1, <2>3
  <2>5. QED
    BY <1>3, <2>2, <2>3, <2>4
<1>5. Right(N)
  BY <1>1, <1>4
<1>6. PICK g \in [SUBSET S -> Int] : Upto(g, f, S, N)
  BY <1>5 DEF Right
<1>7. \A s \in SUBSET S : Cardinality(s) <= N
  BY FS_Subset DEF N
<1>8. Adds(g, f, S)
  BY <1>6, <1>7 DEF Adds, Upto
<1>9. QED
  BY <1>8

\* The sum over S obeys the equation, and so does the sum over each of its subsets.
LEMMA SumAdds ==
    ASSUME NEW S, IsFiniteSet(S), NEW f \in [S -> Int]
    PROVE  \E g \in [SUBSET S -> Int] : Adds(g, f, S) /\ SumFunctionOnSet(f, S) = g[S]
<1>1. PICK h \in [SUBSET S -> Int] : Adds(h, f, S)
  BY SumExists
<1> DEFINE g == CHOOSE g : Adds(g, f, S)
<1>2. Adds(g, f, S)
  BY <1>1
<1>3. SumFunctionOnSet(f, S) = g[S]
  BY SumUnfold
<1> HIDE DEF g
<1>4. g \in [SUBSET S -> Int]
  <2> DEFINE Wrong == {s \in SUBSET S : g[s] \notin Int}
  <2>1. ASSUME NEW s \in Wrong, \A x \in s : s \ {x} \notin Wrong PROVE FALSE
    <3>1. g[s] = IF s = {} THEN 0 ELSE f[Pick(s)] + g[s \ {Pick(s)}]
      BY <1>2 DEF Adds
    <3>2. s # {} /\ Pick(s) \in s
      BY <2>1, <3>1, PickIn
    <3>3. g[s \ {Pick(s)}] \in Int
      BY <2>1, <3>2
    <3>4. QED
      BY <2>1, <3>1, <3>2, <3>3
  <2>2. Wrong = {}
    <3> HIDE DEF Wrong
    <3>1. Wrong \in SUBSET SUBSET S
      BY DEF Wrong
    <3>2. QED
      BY <2>1, <3>1, LeastSet
  <2>3. g = [s \in SUBSET S |-> g[s]]
    BY <1>2 DEF Adds
  <2>4. QED
    BY <2>2, <2>3
<1>5. QED
  BY <1>2, <1>3, <1>4

\* What one value contributes to a sum.
LEMMA SumChange ==
    ASSUME NEW S, IsFiniteSet(S), NEW f \in [S -> Int], NEW e \in [S -> Int], NEW x \in S,
           \A y \in S : y # x => e[y] = f[y]
    PROVE  /\ SumFunctionOnSet(f, S) \in Int
           /\ SumFunctionOnSet(e, S) = SumFunctionOnSet(f, S) - f[x] + e[x]
<1> DEFINE v == e[x]
<1>1. e[x] = v /\ v \in Int
  OBVIOUS
<1> HIDE DEF v
<1>2. PICK g \in [SUBSET S -> Int] : Adds(g, f, S) /\ SumFunctionOnSet(f, S) = g[S]
  BY SumAdds
<1>3. PICK h \in [SUBSET S -> Int] : Adds(h, e, S) /\ SumFunctionOnSet(e, S) = h[S]
  BY <1>1, SumAdds
<1> DEFINE Right(s) == h[s] = IF x \in s THEN g[s] - f[x] + v ELSE g[s]
           Wrong == {s \in SUBSET S : ~Right(s)}
<1>4. ASSUME NEW s \in SUBSET S, \A y \in s : Right(s \ {y}) PROVE Right(s)
  <2>1. /\ g[s] = IF s = {} THEN 0 ELSE f[Pick(s)] + g[s \ {Pick(s)}]
        /\ h[s] = IF s = {} THEN 0 ELSE e[Pick(s)] + h[s \ {Pick(s)}]
    BY <1>2, <1>3 DEF Adds
  <2>2. CASE s = {}
    BY <2>1, <2>2
  <2>3. CASE s # {}
    <3> DEFINE y == Pick(s)
               r == s \ {y}
    <3>1. y \in s /\ y \in S /\ r \in SUBSET S
      BY <2>3, PickIn
    <3>2. /\ g[s] = f[y] + g[r] /\ h[s] = e[y] + h[r]
          /\ h[r] = IF x \in r THEN g[r] - f[x] + v ELSE g[r]
          /\ f[x] \in Int /\ f[y] \in Int /\ g[r] \in Int /\ v \in Int
          /\ e[y] = IF y = x THEN v ELSE f[y]
          /\ x \in r <=> (x \in s /\ x # y)
      BY <1>1, <1>4, <2>1, <2>3, <3>1
    <3> HIDE DEF y, r
    <3>3. QED
      BY <3>1, <3>2
  <2>4. QED
    BY <2>2, <2>3
<1>5. Wrong = {}
  <2>1. ASSUME NEW s \in Wrong, \A y \in s : s \ {y} \notin Wrong PROVE FALSE
    BY <1>4, <2>1
  <2> HIDE DEF Wrong
  <2>2. Wrong \in SUBSET SUBSET S
    BY DEF Wrong
  <2>3. QED
    BY <2>1, <2>2, LeastSet
<1>6. h[S] = g[S] - f[x] + v /\ g[S] \in Int
  BY <1>5
<1>7. QED
  BY <1>1, <1>2, <1>3, <1>6

\* Zeros add up to zero.
LEMMA SumZeros ==
    ASSUME NEW S, IsFiniteSet(S)
    PROVE  SumFunctionOnSet([y \in S |-> 0], S) = 0
<1> DEFINE f == [y \in S |-> 0]
<1>1. f \in [S -> Int] /\ \A y \in S : f[y] = 0
  OBVIOUS
<1> HIDE DEF f
<1>2. PICK g \in [SUBSET S -> Int] : Adds(g, f, S) /\ SumFunctionOnSet(f, S) = g[S]
  BY <1>1, SumAdds
<1> DEFINE Wrong == {s \in SUBSET S : g[s] # 0}
<1>3. ASSUME NEW s \in Wrong, \A y \in s : s \ {y} \notin Wrong PROVE FALSE
  <2>1. g[s] = IF s = {} THEN 0 ELSE f[Pick(s)] + g[s \ {Pick(s)}]
    BY <1>2 DEF Adds
  <2>2. s # {} /\ Pick(s) \in s
    BY <1>3, <2>1, PickIn
  <2>3. g[s \ {Pick(s)}] = 0 /\ f[Pick(s)] = 0
    BY <1>1, <1>3, <2>2
  <2>4. QED
    BY <1>3, <2>1, <2>2, <2>3
<1>4. Wrong = {}
  <2> HIDE DEF Wrong
  <2>1. Wrong \in SUBSET SUBSET S
    BY DEF Wrong
  <2>2. QED
    BY <1>3, <2>1, LeastSet
<1>5. QED
  BY <1>2, <1>4 DEF f

-----------------------------------------------------------------------------
(* Comps and rows *)

LEMMA PeriodFinite == IsFiniteSet(Period)
<1>1. IsFiniteSet(Day)
  BY Days, FS_Interval
<1>2. IsFiniteSet(Day \X Day)
  BY <1>1, FS_Product
<1>3. QED
  BY <1>2, FS_Subset DEF Period

LEMMA PeriodSum ==
    ASSUME NEW f \in [Period -> Int], NEW e \in [Period -> Int], NEW p \in Period,
           \A q \in Period : q # p => e[q] = f[q]
    PROVE  /\ SumFunctionOnSet(f, Period) \in Int
           /\ SumFunctionOnSet(e, Period) = SumFunctionOnSet(f, Period) - f[p] + e[p]
BY PeriodFinite, SumChange

\* What the rows of one period add to what a member was paid.
LEMMA PaidAfter ==
    ASSUME TypeOK, NEW p \in Period, NEW rows \in [Member -> Nat],
           \A q \in Period, m \in Member :
               settled'[q][m] = IF q = p /\ rows[m] # 0 THEN rows[m] ELSE settled[q][m],
           NEW m \in Member
    PROVE  /\ Paid(m) \in Int /\ settled[p][m] \in Nat
           /\ Paid(m)' = IF rows[m] # 0 THEN Paid(m) - settled[p][m] + rows[m] ELSE Paid(m)
<1> DEFINE f == [q \in Period |-> settled[q][m]]
           e == [q \in Period |-> settled'[q][m]]
<1>1. /\ f \in [Period -> Int] /\ f[p] = settled[p][m] /\ f[p] \in Nat
      /\ e \in [Period -> Int] /\ e[p] = IF rows[m] # 0 THEN rows[m] ELSE settled[p][m]
      /\ \A q \in Period : q # p => e[q] = f[q]
  BY DEF TypeOK
<1>2. Paid(m) = SumFunctionOnSet(f, Period) /\ Paid(m)' = SumFunctionOnSet(e, Period)
  BY DEF Paid, SumFunction
<1> HIDE DEF f, e
<1>3. /\ SumFunctionOnSet(f, Period) \in Int
      /\ SumFunctionOnSet(e, Period) = SumFunctionOnSet(f, Period) - f[p] + e[p]
  BY <1>1, PeriodSum
<1>4. QED
  BY <1>1, <1>2, <1>3

LEMMA PaidType ==
    ASSUME TypeOK, NEW m \in Member
    PROVE  Paid(m) \in Int
<1> DEFINE f == [q \in Period |-> settled[q][m]]
<1>1. f \in [Period -> Int]
  BY DEF TypeOK
<1>2. Paid(m) = SumFunctionOnSet(f, Period)
  BY DEF Paid, SumFunction
<1>3. <<1, 1>> \in Period
  BY Days DEF Period
<1> HIDE DEF f
<1>4. QED
  BY <1>1, <1>2, <1>3, PeriodSum

\* A transaction pays for periods there are, and holds rows that were not there; what
\* it writes is covered by the rows it will have added.
Backed(r) ==
    /\ run[r] # Idle /\ ~run[r].sweep => run[r].period \in Period
    /\ Open(r) => run[r].period \in Period
    /\ \A m \in Member :
           /\ Inserted(r, m) => settled[run[r].period][m] = 0
           /\ Open(r) /\ run[r].rows[m] # 0 => run[r].wallet[m] <= Paid(m) + run[r].rows[m]
    /\ run[r].op = "write" => run[r].value <= Paid(run[r].at) + run[r].due[run[r].at]

\* No two transactions hold the row of a member for one period.
Apart ==
    \A q, r \in Run, m \in Member :
        q # r /\ Inserted(q, m) /\ Inserted(r, m) => run[q].period # run[r].period

PaidInv == CompWithinRows /\ Apart /\ \A r \in Run : Backed(r)

\* Nothing is paid, and r goes on with v.
LEMMA OneRun ==
    ASSUME TypeOK, PaidInv, NEW r \in Run, NEW v, run' = [run EXCEPT ![r] = v], UNCHANGED money,
           Backed(r)',
           \A m \in Member, q \in Run \ {r} :
               Inserted(r, m)' /\ Inserted(q, m) => run[q].period # v.period
    PROVE  PaidInv'
<1>1. run'[r] = v /\ \A q \in Run : q # r => run'[q] = run[q]
  BY DEF TypeOK
<1>2. settled' = settled /\ comp' = comp /\ \A m \in Member : Paid(m)' = Paid(m)
  BY DEF money, Paid
<1>3. CompWithinRows'
  BY <1>2 DEF PaidInv, CompWithinRows
<1>4. ASSUME NEW q \in Run PROVE Backed(q)'
  <2>1. CASE q # r
    <3>1. run'[q] = run[q] /\ Backed(q)
      BY <1>1, <2>1 DEF PaidInv
    <3>2. Paid(run[q].at)' = Paid(run[q].at)
      BY <1>2, <3>1 DEF Paid
    <3>3. QED
      BY <1>2, <3>1, <3>2 DEF Backed, Open, Inserted
  <2>2. QED
    BY <2>1
<1>5. \A q \in Run, m \in Member : q # r => (Inserted(q, m)' <=> Inserted(q, m))
  BY <1>1 DEF Inserted, Open
<1>6. ASSUME NEW a \in Run, NEW b \in Run, NEW m \in Member, a # b,
             Inserted(a, m)', Inserted(b, m)'
      PROVE  run'[a].period # run'[b].period
  <2>1. CASE a # r /\ b # r
    BY <1>1, <1>5, <1>6, <2>1 DEF PaidInv, Apart
  <2>2. CASE a = r
    BY <1>1, <1>5, <1>6, <2>2
  <2>3. CASE b = r
    BY <1>1, <1>5, <1>6, <2>3
  <2>4. QED
    BY <2>1, <2>2, <2>3
<1>7. QED
  BY <1>3, <1>4, <1>6 DEF PaidInv, Apart

\* A settlement that has ended, or looks next, holds nothing.
Empty(v) == v \in Doing /\ (v # Idle => v.op = "look" /\ (~v.sweep => v.period \in Period))

LEMMA EmptyBacked ==
    ASSUME NEW r \in Run, Empty(run[r])
    PROVE  Backed(r) /\ ~Open(r) /\ \A m \in Member : ~Inserted(r, m)
<1>1. run[r].op \in {"look", "idle"}
  BY IdleType DEF Empty
<1>2. QED
  BY <1>1 DEF Empty, Backed, Open, Inserted

LEMMA EmptyRun ==
    ASSUME TypeOK, PaidInv, NEW r \in Run, NEW v, Empty(v), run' = [run EXCEPT ![r] = v],
           UNCHANGED money
    PROVE  PaidInv'
<1>1. run'[r] = v
  BY DEF TypeOK
<1>2. run'[r].op \in {"look", "idle"}
  BY <1>1, IdleType DEF Empty
<1>3. Backed(r)' /\ \A m \in Member : ~Inserted(r, m)'
  BY <1>1, <1>2 DEF Empty, Backed, Open, Inserted
<1>4. QED
  BY <1>3, OneRun

LEMMA IdleEmpty == Empty(Idle)
BY IdleType DEF Empty

LEMMA DuePeriod ==
    ASSUME TypeOK, NEW p \in Int \X Int, p[1] = p[2], p[2] <= MaxDay,
           NEW m \in Member, Due(p)[m] # 0
    PROVE  p \in Period
<1>1. Base(p, m) > 0
  BY DEF Due
<1>2. ~(p[2] < 1)
  <2> SUFFICES ASSUME p[2] < 1 PROVE FALSE
    OBVIOUS
  <2>1. p[2] \in Int /\ p[1] - 1 < 1
    OBVIOUS
  <2>2. Base(p, m) = 0
    BY <2>1 DEF Base, Until
  <2>3. QED
    BY <1>1, <2>2
<1>3. QED
  BY <1>2, Days DEF Period

\* A lookup opens a transaction on one of the periods, with nothing paid yet, or goes on.
LEMMA LookGoes ==
    ASSUME IInv, PaidInv, NEW r \in Run, Look(r)
    PROVE  /\ UNCHANGED money
           /\ \E v : /\ run' = [run EXCEPT ![r] = v]
                     /\ \/ Empty(v)
                        \/ /\ v.op = "pay" /\ v.period \in Period
                           /\ \A m \in Member : v.rows[m] = 0
<1> DEFINE p == run[r].period
           due == Due(p)
           v == [op |-> "pay", sweep |-> run[r].sweep, period |-> p, last |-> run[r].last,
                 due |-> due, rows |-> [m \in Member |-> 0], wallet |-> [m \in Member |-> 0]]
<1>0. TypeOK /\ run[r] \in Looking /\ run[r] # Idle /\ Backed(r) /\ UNCHANGED money
  BY DoingCases, IdleType DEF Look, IInv, TypeOK, Doing, PaidInv
<1>1. /\ p \in Int \X Int /\ run[r].sweep \in BOOLEAN
      /\ p[1] <= p[2] /\ p[2] <= MaxDay /\ (run[r].sweep => p[1] = p[2])
  BY <1>0 DEF Looking, IInv, Sound, Timely
<1>2. \/ run' = [run EXCEPT ![r] = Idle]
      \/ Advance(r)
      \/ run' = [run EXCEPT ![r] = v] /\ \E m \in Member : due[m] # 0
  BY DEF Look
<1>3. CASE run' = [run EXCEPT ![r] = Idle]
  BY <1>0, <1>3, IdleEmpty
<1>4. CASE Advance(r)
  <2>1. PICK w \in Doing : run' = [run EXCEPT ![r] = w] /\ (w = Idle \/ (w.op = "look" /\ w.sweep))
    BY <1>0, <1>4, AdvanceRuns
  <2>2. Empty(w)
    BY <2>1 DEF Empty
  <2>3. QED
    BY <1>0, <2>1, <2>2
<1>5. CASE run' = [run EXCEPT ![r] = v] /\ \E m \in Member : due[m] # 0
  <2>1. p \in Period
    <3>1. CASE run[r].sweep
      BY <1>0, <1>1, <1>5, <3>1, DuePeriod
    <3>2. CASE ~run[r].sweep
      BY <1>0, <3>2 DEF Backed
    <3>3. QED
      BY <3>1, <3>2
  <2>2. v.op = "pay" /\ v.period = p /\ \A m \in Member : v.rows[m] = 0
    OBVIOUS
  <2> HIDE DEF v, due
  <2>3. QED
    BY <1>0, <1>5, <2>1, <2>2
<1>6. QED
  BY <1>2, <1>3, <1>4, <1>5

LEMMA LookPaid ==
    ASSUME IInv, PaidInv, NEW r \in Run, Look(r)
    PROVE  PaidInv'
<1>1. PICK v : /\ run' = [run EXCEPT ![r] = v]
               /\ \/ Empty(v)
                  \/ /\ v.op = "pay" /\ v.period \in Period
                     /\ \A m \in Member : v.rows[m] = 0
  BY LookGoes
<1>2. TypeOK /\ UNCHANGED money /\ run'[r] = v
  BY <1>1, LookGoes DEF IInv, TypeOK
<1>3. CASE Empty(v)
  BY <1>1, <1>2, <1>3, EmptyRun
<1>4. CASE v.op = "pay" /\ v.period \in Period /\ \A m \in Member : v.rows[m] = 0
  <2>1. Backed(r)' /\ \A m \in Member : ~Inserted(r, m)'
    BY <1>2, <1>4 DEF Backed, Open, Inserted
  <2>2. QED
    BY <1>1, <1>2, <2>1, OneRun
<1>5. QED
  BY <1>1, <1>3, <1>4

LEMMA CreatePaid ==
    ASSUME IInv, PaidInv, NEW r \in Run, NEW m \in Member, Create(r, m)
    PROVE  PaidInv'
<1> DEFINE v == [op |-> "write", sweep |-> run[r].sweep, period |-> run[r].period,
                 last |-> run[r].last, due |-> run[r].due, rows |-> run[r].rows,
                 wallet |-> run[r].wallet, at |-> m, value |-> comp[m] + run[r].due[m]]
<1>0. /\ TypeOK /\ run[r] \in Paying /\ Backed(r) /\ Open(r) /\ UNCHANGED money
      /\ run[r].op = "pay" /\ run[r].due[m] \in Nat /\ comp[m] \in Nat /\ Paid(m) \in Int
  <2>1. TypeOK /\ run[r] \in Paying /\ run[r].op = "pay"
    BY DoingCases DEF Create, IInv, TypeOK, Doing
  <2>2. Backed(r) /\ Open(r) /\ run[r].period \in Period
    BY <2>1 DEF PaidInv, Backed, Open
  <2>3. Paid(m) \in Int
    BY <2>1, PaidType
  <2>4. QED
    BY <2>1, <2>2, <2>3 DEF Create, TypeOK, Paying
<1>1. /\ v.op = "write" /\ v.period = run[r].period /\ v.rows = run[r].rows
      /\ v.due = run[r].due /\ v.wallet = run[r].wallet /\ v.at = m
      /\ v.value = comp[m] + run[r].due[m]
  OBVIOUS
<1>2. /\ \A q \in Run \ {r} : Inserted(q, m) => run[q].period # run[r].period
      /\ \/ run' = [run EXCEPT ![r] = Idle]
         \/ run' = [run EXCEPT ![r] = v] /\ settled[run[r].period][m] = 0
  BY DEF Create
<1> HIDE DEF v
<1>3. CASE run' = [run EXCEPT ![r] = Idle]
  BY <1>0, <1>3, IdleEmpty, EmptyRun
<1>4. CASE run' = [run EXCEPT ![r] = v] /\ settled[run[r].period][m] = 0
  <2>1. run'[r] = v /\ settled' = settled /\ \A n \in Member : Paid(n)' = Paid(n)
    BY <1>0, <1>4 DEF TypeOK, money, Paid
  <2>2. \A n \in Member : Inserted(r, n)' => n = m \/ Inserted(r, n)
    BY <1>0, <1>1, <2>1 DEF Inserted
  <2>3. v.value <= Paid(m) + v.due[m]
    BY <1>0, <1>1 DEF PaidInv, CompWithinRows
  <2>4. Backed(r)'
    <3>1. run'[r].period \in Period
      BY <1>0, <1>1, <2>1 DEF Backed
    <3>2. ASSUME NEW n \in Member
          PROVE  /\ Inserted(r, n)' => settled'[run'[r].period][n] = 0
                 /\ run'[r].rows[n] # 0 => run'[r].wallet[n] <= Paid(n)' + run'[r].rows[n]
      BY <1>0, <1>1, <1>4, <2>1, <2>2 DEF Backed
    <3>3. run'[r].at = m /\ Paid(m)' = Paid(m)
      BY <1>1, <2>1
    <3>4. (run[r].value <= Paid(run[r].at) + run[r].due[run[r].at])'
      BY <1>1, <2>1, <2>3, <3>3 DEF Paid
    <3>5. QED
      BY <3>1, <3>2, <3>4 DEF Backed, Open
  <2>5. \A n \in Member, q \in Run \ {r} :
            Inserted(r, n)' /\ Inserted(q, n) => run[q].period # v.period
    BY <1>1, <1>2, <2>2 DEF PaidInv, Apart
  <2>6. QED
    BY <1>0, <1>4, <2>4, <2>5, OneRun
<1>5. QED
  BY <1>2, <1>3, <1>4

LEMMA WritePaid ==
    ASSUME IInv, PaidInv, NEW r \in Run, Write(r)
    PROVE  PaidInv'
<1> DEFINE m == run[r].at
           due == [run[r].due EXCEPT ![m] = 0]
           rows == [run[r].rows EXCEPT ![m] = run[r].due[m]]
           wallet == [run[r].wallet EXCEPT ![m] = run[r].value]
           v == [op |-> "pay", sweep |-> run[r].sweep, period |-> run[r].period,
                 last |-> run[r].last, due |-> due, rows |-> rows, wallet |-> wallet]
<1>0. /\ TypeOK /\ run[r] \in Writing /\ run[r].op = "write" /\ Backed(r) /\ Open(r)
      /\ UNCHANGED money
  BY DoingCases DEF Write, IInv, TypeOK, Doing, PaidInv, Open
<1>1. /\ m \in Member /\ run[r].value <= Paid(m) + run[r].due[m]
      /\ run[r].rows \in [Member -> Nat] /\ run[r].wallet \in [Member -> Nat]
      /\ Inserted(r, m)
  BY <1>0 DEF Writing, Backed, Inserted
<1>2. /\ rows[m] = run[r].due[m] /\ wallet[m] = run[r].value
      /\ \A n \in Member : n # m => rows[n] = run[r].rows[n] /\ wallet[n] = run[r].wallet[n]
  BY <1>1
<1>3. run' = [run EXCEPT ![r] = v]
  BY DEF Write
<1> HIDE DEF due, rows, wallet
<1>4. v.op = "pay" /\ v.rows = rows /\ v.wallet = wallet /\ v.period = run[r].period
  OBVIOUS
<1> HIDE DEF v, m
<1>5. run'[r] = v /\ settled' = settled /\ \A n \in Member : Paid(n)' = Paid(n)
  BY <1>0, <1>3 DEF TypeOK, money, Paid
<1>6. \A n \in Member : Inserted(r, n)' => Inserted(r, n)
  BY <1>0, <1>1, <1>2, <1>4, <1>5 DEF Inserted
<1>7. Backed(r)'
  <2>1. run'[r].period \in Period
    BY <1>0, <1>4, <1>5 DEF Backed
  <2>2. ASSUME NEW n \in Member
        PROVE  /\ Inserted(r, n)' => settled'[run'[r].period][n] = 0
               /\ run'[r].rows[n] # 0 => run'[r].wallet[n] <= Paid(n)' + run'[r].rows[n]
    BY <1>0, <1>1, <1>2, <1>4, <1>5, <1>6 DEF Backed
  <2>3. run'[r].op # "write"
    BY <1>4, <1>5
  <2>4. QED
    BY <2>1, <2>2, <2>3 DEF Backed, Open
<1>8. \A n \in Member, q \in Run \ {r} :
          Inserted(r, n)' /\ Inserted(q, n) => run[q].period # v.period
  BY <1>4, <1>6 DEF PaidInv, Apart
<1>9. QED
  BY <1>0, <1>3, <1>7, <1>8, OneRun

\* What a transaction that ends adds to the rows, and what it leaves alone.
LEMMA CommitRow ==
    ASSUME IInv, PaidInv, NEW r \in Run, Commit(r)
    PROVE  /\ run[r].rows \in [Member -> Nat] /\ run[r].period \in Period
           /\ \A q \in Period, m \in Member :
                  settled'[q][m] = IF q = run[r].period /\ run[r].rows[m] # 0 THEN run[r].rows[m]
                                   ELSE settled[q][m]
           /\ \A m \in Member :
                  /\ Paid(m) \in Int
                  /\ Paid(m)' = Paid(m) + run[r].rows[m]
                  /\ comp'[m] = IF run[r].rows[m] # 0 THEN run[r].wallet[m] ELSE comp[m]
<1> DEFINE p == run[r].period
           rows == run[r].rows
<1>1. TypeOK /\ run[r] \in Paying /\ run[r].op = "pay" /\ Backed(r) /\ Open(r)
  BY DoingCases DEF Commit, IInv, TypeOK, Doing, PaidInv, Open
<1>2. rows \in [Member -> Nat] /\ p \in Period
  BY <1>1 DEF Paying, Backed
<1>3. /\ settled' = [settled EXCEPT ![p] =
             [m \in Member |-> IF rows[m] # 0 THEN rows[m] ELSE settled[p][m]]]
      /\ comp' = [m \in Member |-> IF rows[m] # 0 THEN run[r].wallet[m] ELSE comp[m]]
  BY DEF Commit
<1>4. \A m \in Member : rows[m] # 0 => settled[p][m] = 0
  BY <1>1 DEF Backed, Inserted
<1> HIDE DEF p, rows
<1>5. \A q \in Period, m \in Member :
          settled'[q][m] = IF q = p /\ rows[m] # 0 THEN rows[m] ELSE settled[q][m]
  BY <1>1, <1>2, <1>3 DEF TypeOK
<1>6. ASSUME NEW m \in Member
      PROVE  Paid(m) \in Int /\ Paid(m)' = Paid(m) + rows[m]
  <2>1. /\ Paid(m) \in Int /\ settled[p][m] \in Nat /\ rows[m] \in Nat
        /\ Paid(m)' = IF rows[m] # 0 THEN Paid(m) - settled[p][m] + rows[m] ELSE Paid(m)
    BY <1>1, <1>2, <1>5, PaidAfter
  <2>2. QED
    BY <1>4, <2>1
<1>7. QED
  BY <1>2, <1>3, <1>5, <1>6 DEF p, rows

LEMMA CommitPaid ==
    ASSUME IInv, PaidInv, NEW r \in Run, Commit(r)
    PROVE  PaidInv'
<1>1. /\ TypeOK /\ run[r] # Idle /\ Backed(r) /\ Open(r) /\ Advance(r)
      /\ run[r].rows \in [Member -> Nat]
  BY IdleType, CommitRow DEF Commit, IInv, PaidInv, Open
<1>2. PICK v \in Doing : run' = [run EXCEPT ![r] = v] /\ (v = Idle \/ (v.op = "look" /\ v.sweep))
  BY <1>1, AdvanceRuns
<1>3. run'[r] = v /\ \A q \in Run : q # r => run'[q] = run[q]
  BY <1>1, <1>2 DEF TypeOK
<1>4. Backed(r)' /\ \A m \in Member : ~Inserted(r, m)'
  <2>1. run'[r].op \in {"look", "idle"}
    BY <1>2, <1>3, IdleType
  <2>2. QED
    BY <1>2, <1>3, <2>1 DEF Backed, Open, Inserted
<1>5. \A q \in Run, m \in Member : q # r => (Inserted(q, m)' <=> Inserted(q, m))
  BY <1>3 DEF Inserted, Open
<1>6. \A m \in Member : Paid(m) \in Int /\ Paid(m)' \in Int /\ Paid(m) <= Paid(m)'
  BY <1>1, CommitRow
<1>7. CompWithinRows'
  <2>1. ASSUME NEW m \in Member PROVE comp'[m] <= Paid(m)'
    <3>1. run[r].rows[m] # 0 => run[r].wallet[m] <= Paid(m) + run[r].rows[m]
      BY <1>1 DEF Backed
    <3>2. comp[m] <= Paid(m) /\ comp[m] \in Int
      BY <1>1 DEF PaidInv, CompWithinRows, TypeOK
    <3>3. QED
      BY <1>6, <3>1, <3>2, CommitRow
  <2>2. QED
    BY <2>1 DEF CompWithinRows
<1>8. ASSUME NEW q \in Run, q # r PROVE Backed(q)'
  <2>1. run'[q] = run[q] /\ Backed(q) /\ run[q] \in Doing
    BY <1>1, <1>3, <1>8 DEF PaidInv, TypeOK, Doing
  <2>2. Open(q)' <=> Open(q)
    BY <2>1 DEF Open
  <2>3. ASSUME NEW m \in Member, Inserted(q, m)
        PROVE  settled'[run[q].period][m] = 0
    <3>1. run[q].period \in Period /\ settled[run[q].period][m] = 0
      BY <2>1, <2>3 DEF Backed, Inserted
    <3>2. ~(run[q].period = run[r].period /\ run[r].rows[m] # 0)
      BY <1>1, <1>8, <2>3 DEF PaidInv, Apart, Inserted
    <3>3. QED
      BY <3>1, <3>2, CommitRow
  <2>4. ASSUME NEW m \in Member, Open(q), run[q].rows[m] # 0
        PROVE  run[q].wallet[m] <= Paid(m)' + run[q].rows[m]
    <3>1. run[q].wallet[m] \in Nat /\ run[q].rows[m] \in Nat
      BY <2>1, <2>4, DoingCases DEF Open, Paying, Writing
    <3>2. run[q].wallet[m] <= Paid(m) + run[q].rows[m]
      BY <2>1, <2>4 DEF Backed
    <3>3. QED
      BY <1>6, <3>1, <3>2
  <2>5. ASSUME run[q].op = "write"
        PROVE  (run[q].value <= Paid(run[q].at) + run[q].due[run[q].at])'
    <3>1. run[q].at \in Member /\ run[q].value \in Nat
      BY <2>1, <2>5, DoingCases DEF Writing
    <3>2. PICK m \in Member : m = run[q].at
      BY <3>1
    <3>3. run[q].value <= Paid(m) + run[q].due[m] /\ run[q].due[m] \in Nat
      BY <2>1, <2>5, <3>2, DoingCases DEF Backed, Writing
    <3>4. run[q].value <= Paid(m)' + run[q].due[m]
      BY <1>6, <3>1, <3>3
    <3>5. QED
      BY <2>1, <3>2, <3>4 DEF Paid
  <2>6. QED
    BY <1>5, <1>8, <2>1, <2>2, <2>3, <2>4, <2>5 DEF Backed
<1>9. Apart'
  <2>1. ASSUME NEW a \in Run, NEW b \in Run, NEW m \in Member, a # b,
               Inserted(a, m)', Inserted(b, m)'
        PROVE  run'[a].period # run'[b].period
    <3>1. a # r /\ b # r
      BY <1>4, <2>1
    <3>2. QED
      BY <1>3, <1>5, <2>1, <3>1 DEF PaidInv, Apart
  <2>2. QED
    BY <2>1 DEF Apart
<1>10. \A q \in Run : Backed(q)'
  BY <1>4, <1>8
<1>11. QED
  BY <1>7, <1>9, <1>10 DEF PaidInv

LEMMA PaidSame ==
    ASSUME PaidInv, UNCHANGED <<money, run>>
    PROVE  PaidInv'
BY DEF PaidInv, CompWithinRows, Apart, Backed, Open, Inserted, Paid, money

\* A step is one of a settlement, or leaves the money and the settlements alone.
LEMMA StepCases ==
    ASSUME [Next]_vars
    PROVE  \/ UNCHANGED <<money, run>>
           \/ \E r \in Run : Fire(r) \/ Settle(r) \/ Abort(r) \/ \E p \in Period : Manual(r, p)
<1>1. CASE UNCHANGED vars
  BY <1>1 DEF vars, money
<1>2. ASSUME NEW m \in Member, NEW amount \in Int, Approve(m, amount)
      PROVE  UNCHANGED <<money, run>>
  BY <1>2 DEF Approve
<1>3. CASE Tick \/ EndApproval
  BY <1>3 DEF Tick, EndApproval
<1>4. ASSUME NEW s \in Sync,
             \/ Synchronise(s) \/ Boot(s) \/ SyncFails(s)
             \/ \E p \in Policy : SetPolicy(s, p)
      PROVE  UNCHANGED <<money, run>>
  BY <1>4 DEF Synchronise, ReadPolicy, Clear, Add, Boot, SyncFails, SetPolicy
<1>5. QED
  BY <1>1, <1>2, <1>3, <1>4 DEF Next

\* What starts or ends a settlement leaves it with nothing in hand.
LEMMA TurnsEmpty ==
    ASSUME IInv, NEW r \in Run, Fire(r) \/ Abort(r) \/ \E p \in Period : Manual(r, p)
    PROVE  UNCHANGED money /\ \E v : Empty(v) /\ run' = [run EXCEPT ![r] = v]
<1>1. CASE Abort(r)
  BY <1>1, IdleEmpty DEF Abort
<1>2. CASE Fire(r)
  <2> DEFINE first == Target(day, Backfill - 1)
             last == Target(day, 0)
             v == [op |-> "look", sweep |-> TRUE, period |-> <<first, first>>, last |-> last]
  <2>1. first \in Int /\ last \in Int
    BY Days, SettlementAssumption DEF IInv, TypeOK, SettlementAssumption, Target, Backfill
  <2>2. UNCHANGED money /\ (run' = [run EXCEPT ![r] = v] \/ run' = [run EXCEPT ![r] = Idle])
    BY <1>2 DEF Fire
  <2> HIDE DEF first, last
  <2>3. Empty(v)
    BY <2>1 DEF Empty, Doing, Looking
  <2> HIDE DEF v
  <2>4. QED
    BY <2>2, <2>3, IdleEmpty
<1>3. ASSUME NEW p \in Period, Manual(r, p)
      PROVE  UNCHANGED money /\ \E v : Empty(v) /\ run' = [run EXCEPT ![r] = v]
  <2> DEFINE v == [op |-> "look", sweep |-> FALSE, period |-> p, last |-> p[2]]
  <2>1. p \in Int \X Int /\ p[2] \in Int
    BY Days DEF Period
  <2>2. Empty(v)
    BY <2>1 DEF Empty, Doing, Looking
  <2>3. UNCHANGED money /\ run' = [run EXCEPT ![r] = v]
    BY <1>3 DEF Manual
  <2> HIDE DEF v
  <2>4. QED
    BY <2>2, <2>3
<1>4. QED
  BY <1>1, <1>2, <1>3

LEMMA PaidInductive == IInv /\ PaidInv /\ [Next]_vars => PaidInv'
<1> SUFFICES ASSUME IInv, PaidInv, [Next]_vars PROVE PaidInv'
  OBVIOUS
<1>1. ASSUME NEW r \in Run, Fire(r) \/ Abort(r) \/ \E p \in Period : Manual(r, p) PROVE PaidInv'
  BY <1>1, TurnsEmpty, EmptyRun DEF IInv
<1>2. ASSUME NEW r \in Run, Settle(r) PROVE PaidInv'
  BY <1>2, LookPaid, CreatePaid, WritePaid, CommitPaid DEF Settle
<1>3. QED
  BY <1>1, <1>2, PaidSame, StepCases

LEMMA InitPaid == Init => PaidInv
<1> SUFFICES ASSUME Init PROVE PaidInv
  OBVIOUS
<1>1. \A m \in Member : Paid(m) = 0
  <2>1. ASSUME NEW m \in Member
        PROVE  [p \in Period |-> settled[p][m]] = [p \in Period |-> 0]
    BY DEF Init
  <2>2. QED
    BY <2>1, PeriodFinite, SumZeros DEF Paid, SumFunction
<1>2. CompWithinRows
  BY <1>1 DEF Init, CompWithinRows
<1>3. ASSUME NEW r \in Run PROVE Backed(r) /\ \A m \in Member : ~Inserted(r, m)
  BY EmptyBacked, IdleEmpty DEF Init
<1>4. QED
  BY <1>2, <1>3 DEF PaidInv, Apart

\* Whatever settlements overlap and wherever they break off, no member ever has more
\* comps than the rows say (executeCompSettlement: the unique key of CompSettlement,
\* and the transaction around the rows and the wallets).
THEOREM CompsWithinRows == Spec => []CompWithinRows
<1>1. PaidInv => CompWithinRows
  BY DEF PaidInv
<1>2. QED
  BY <1>1, InitInv, Inductive, InitPaid, PaidInductive, PTL DEF Spec

-----------------------------------------------------------------------------
(* Settlements one after the other *)

\* What a transaction writes is what the wallet will have with its rows.
Exact(r) ==
    /\ run[r].op = "write" => run[r].value = comp[run[r].at] + run[r].due[run[r].at]
    /\ \A m \in Member :
           Open(r) /\ run[r].rows[m] # 0 => run[r].wallet[m] = comp[m] + run[r].rows[m]

\* Only one settlement is ever under way, and the wallets are the rows.
InTurn ==
    serial => CompIsRows /\ \A r \in Run : (r # First => run[r] = Idle) /\ Exact(r)

\* A step of the instance is a step, and only the first settlement is started.
LEMMA MCStep ==
    ASSUME Run # {}, [MCNext]_mcvars
    PROVE  /\ [Next]_vars /\ serial' = serial
           /\ \/ UNCHANGED <<money, run>>
              \/ \E r \in Run : /\ serial => r = First \/ run[r] # Idle
                                /\ \/ Fire(r) \/ Settle(r) \/ Abort(r)
                                   \/ \E p \in Period : Manual(r, p)
<1>1. First \in Run
  BY DEF First
<1>2. \A r \in Run : Settle(r) \/ Abort(r) => run[r] # Idle
  BY IdleType DEF Settle, Look, Create, Write, Commit, Abort
<1>3. CASE UNCHANGED mcvars
  BY <1>3 DEF mcvars, vars, money
<1>4. CASE MCNext
  <2>1. serial' = serial /\ (Ordinary \/ Input \/ Failure)
    BY <1>4 DEF MCNext
  <2>2. CASE Ordinary
    <3>1. CASE Pass \/ EndApproval
      BY <2>1, <3>1 DEF Pass, Tick, EndApproval, Next
    <3>2. CASE Fire(First) \/ \E r \in Run : Settle(r)
      BY <1>1, <1>2, <2>1, <3>2 DEF Next
    <3>3. CASE \E s \in Sync : Synchronise(s)
      BY <2>1, <3>3 DEF Next, Synchronise, ReadPolicy, Clear, Add
    <3>4. QED
      BY <2>2, <3>1, <3>2, <3>3 DEF Ordinary
  <2>3. CASE Input
    <3>1. CASE \E m \in Member, amount \in Amounts : Approve(m, amount)
      <4>1. PICK m \in Member, amount \in Amounts : Approve(m, amount)
        BY <3>1
      <4>2. amount \in Int
        BY DEF Amounts
      <4>3. QED
        BY <2>1, <4>1, <4>2 DEF Next, Approve
    <3>2. CASE \E r \in Run, p \in Period : MayStart(r) /\ Manual(r, p)
      BY <2>1, <3>2 DEF Next, MayStart
    <3>3. CASE \E s \in Sync : Boot(s) \/ \E p \in Policy : SetPolicy(s, p)
      BY <2>1, <3>3 DEF Next, Boot, SetPolicy
    <3>4. QED
      BY <2>3, <3>1, <3>2, <3>3 DEF Input
  <2>4. CASE Failure
    <3>1. CASE \E r \in Run : Abort(r)
      BY <1>2, <2>1, <3>1 DEF Next
    <3>2. CASE \E s \in Sync : SyncFails(s)
      BY <2>1, <3>2 DEF Next, SyncFails
    <3>3. QED
      BY <2>4, <3>1, <3>2 DEF Failure
  <2>5. QED
    BY <2>1, <2>2, <2>3, <2>4
<1>5. QED
  BY <1>3, <1>4

\* Nothing is paid, and the settlement under way goes on with v.
LEMMA TurnGoesOn ==
    ASSUME IInv, InTurn, serial, serial' = serial, First \in Run,
           NEW v, run' = [run EXCEPT ![First] = v], UNCHANGED money, Exact(First)'
    PROVE  InTurn'
<1>1. \A r \in Run : r # First => run'[r] = Idle
  BY DEF IInv, TypeOK, InTurn
<1>2. CompIsRows'
  BY DEF InTurn, CompIsRows, Paid, money
<1>3. ASSUME NEW r \in Run PROVE Exact(r)'
  <2>1. CASE r # First
    BY <1>1, <2>1, IdleType DEF Exact, Open
  <2>2. QED
    BY <2>1
<1>4. QED
  BY <1>1, <1>2, <1>3 DEF InTurn

LEMMA TurnStarts ==
    ASSUME IInv, InTurn, serial, serial' = serial, First \in Run,
           NEW v, Empty(v), run' = [run EXCEPT ![First] = v], UNCHANGED money
    PROVE  InTurn'
<1>1. run'[First] = v
  BY DEF IInv, TypeOK
<1>2. run'[First].op \in {"look", "idle"}
  BY <1>1, IdleType DEF Empty
<1>3. Exact(First)'
  BY <1>2 DEF Exact, Open
<1>4. QED
  BY <1>3, TurnGoesOn

LEMMA LookTurn ==
    ASSUME IInv, PaidInv, InTurn, serial, serial' = serial, First \in Run, Look(First)
    PROVE  InTurn'
<1>1. PICK v : /\ run' = [run EXCEPT ![First] = v]
               /\ \/ Empty(v)
                  \/ /\ v.op = "pay" /\ v.period \in Period
                     /\ \A m \in Member : v.rows[m] = 0
  BY LookGoes
<1>2. UNCHANGED money /\ run'[First] = v
  BY <1>1, LookGoes DEF IInv, TypeOK
<1>3. CASE Empty(v)
  BY <1>1, <1>2, <1>3, TurnStarts
<1>4. CASE v.op = "pay" /\ \A m \in Member : v.rows[m] = 0
  <2>1. Exact(First)'
    BY <1>2, <1>4 DEF Exact, Open
  <2>2. QED
    BY <1>1, <1>2, <2>1, TurnGoesOn
<1>5. QED
  BY <1>1, <1>3, <1>4

LEMMA CreateTurn ==
    ASSUME IInv, InTurn, serial, serial' = serial, First \in Run,
           NEW m \in Member, Create(First, m)
    PROVE  InTurn'
<1> DEFINE x == run[First]
           v == [op |-> "write", sweep |-> x.sweep, period |-> x.period, last |-> x.last,
                 due |-> x.due, rows |-> x.rows, wallet |-> x.wallet, at |-> m,
                 value |-> comp[m] + x.due[m]]
<1>1. /\ UNCHANGED money /\ x.op = "pay"
      /\ run' = [run EXCEPT ![First] = Idle] \/ run' = [run EXCEPT ![First] = v]
  BY DEF Create
<1>2. /\ v.op = "write" /\ v.rows = x.rows /\ v.due = x.due /\ v.wallet = x.wallet
      /\ v.at = m /\ v.value = comp[m] + x.due[m]
  OBVIOUS
<1> HIDE DEF v
<1>3. CASE run' = [run EXCEPT ![First] = Idle]
  BY <1>1, <1>3, IdleEmpty, TurnStarts
<1>4. CASE run' = [run EXCEPT ![First] = v]
  <2>1. run'[First] = v /\ comp' = comp
    BY <1>1, <1>4 DEF IInv, TypeOK, money
  <2>2. \A n \in Member : x.rows[n] # 0 => x.wallet[n] = comp[n] + x.rows[n]
    BY <1>1 DEF InTurn, Exact, Open
  <2>3. Exact(First)'
    BY <1>2, <2>1, <2>2 DEF Exact, Open
  <2>4. QED
    BY <1>1, <1>4, <2>3, TurnGoesOn
<1>5. QED
  BY <1>1, <1>3, <1>4

LEMMA WriteTurn ==
    ASSUME IInv, InTurn, serial, serial' = serial, First \in Run, Write(First)
    PROVE  InTurn'
<1> DEFINE x == run[First]
           m == x.at
           due == [x.due EXCEPT ![m] = 0]
           rows == [x.rows EXCEPT ![m] = x.due[m]]
           wallet == [x.wallet EXCEPT ![m] = x.value]
           v == [op |-> "pay", sweep |-> x.sweep, period |-> x.period,
                 last |-> x.last, due |-> due, rows |-> rows, wallet |-> wallet]
<1>1. UNCHANGED money /\ x.op = "write" /\ x \in Writing /\ run' = [run EXCEPT ![First] = v]
  BY DoingCases DEF Write, IInv, TypeOK, Doing
<1>2. /\ x.value = comp[m] + x.due[m]
      /\ \A n \in Member : x.rows[n] # 0 => x.wallet[n] = comp[n] + x.rows[n]
  BY <1>1 DEF InTurn, Exact, Open
<1>3. \A n \in Member : rows[n] # 0 => wallet[n] = comp[n] + rows[n]
  BY <1>1, <1>2 DEF Writing
<1> HIDE DEF due, rows, wallet
<1>4. v.op = "pay" /\ v.rows = rows /\ v.wallet = wallet
  OBVIOUS
<1> HIDE DEF v
<1>5. run'[First] = v /\ comp' = comp
  BY <1>1 DEF IInv, TypeOK, money
<1>6. Exact(First)'
  BY <1>3, <1>4, <1>5 DEF Exact, Open
<1>7. QED
  BY <1>1, <1>6, TurnGoesOn

LEMMA CommitTurn ==
    ASSUME IInv, PaidInv, InTurn, serial, serial' = serial, First \in Run, Commit(First)
    PROVE  InTurn'
<1>1. TypeOK /\ run[First] # Idle /\ run[First].op = "pay" /\ Open(First) /\ Advance(First)
  BY IdleType DEF Commit, IInv, Open
<1>2. PICK v \in Doing :
          run' = [run EXCEPT ![First] = v] /\ (v = Idle \/ (v.op = "look" /\ v.sweep))
  BY <1>1, AdvanceRuns
<1>3. run'[First] = v /\ \A r \in Run : r # First => run'[r] = Idle
  BY <1>1, <1>2 DEF InTurn, TypeOK
<1>4. ASSUME NEW r \in Run PROVE Exact(r)'
  <2>1. run'[r].op \in {"look", "idle"}
    BY <1>2, <1>3, IdleType
  <2>2. QED
    BY <2>1 DEF Exact, Open
<1>5. CompIsRows'
  <2>1. ASSUME NEW m \in Member PROVE comp'[m] = Paid(m)'
    <3>1. comp[m] = Paid(m)
      BY DEF InTurn, CompIsRows
    <3>2. run[First].rows[m] # 0 => run[First].wallet[m] = comp[m] + run[First].rows[m]
      BY <1>1 DEF InTurn, Exact
    <3>3. /\ run[First].rows[m] \in Nat /\ Paid(m) \in Int
          /\ Paid(m)' = Paid(m) + run[First].rows[m]
          /\ comp'[m] = IF run[First].rows[m] # 0 THEN run[First].wallet[m] ELSE comp[m]
      BY CommitRow
    <3>4. QED
      BY <3>1, <3>2, <3>3
  <2>2. QED
    BY <2>1 DEF CompIsRows
<1>6. QED
  BY <1>3, <1>4, <1>5 DEF InTurn

LEMMA TurnInductive ==
    ASSUME Run # {}
    PROVE  IInv /\ PaidInv /\ InTurn /\ [MCNext]_mcvars => InTurn'
<1> SUFFICES ASSUME IInv, PaidInv, InTurn, [MCNext]_mcvars PROVE InTurn'
  OBVIOUS
<1>1. First \in Run
  BY DEF First
<1>2. serial' = serial
  BY MCStep
<1>3. CASE ~serial
  BY <1>2, <1>3 DEF InTurn
<1>4. CASE serial
  <2>1. CASE UNCHANGED <<money, run>>
    <3>1. comp' = comp /\ settled' = settled /\ run' = run
      BY <2>1 DEF money
    <3>2. CompIsRows' /\ \A r \in Run : (r # First => run'[r] = Idle) /\ Exact(r)'
      BY <1>4, <3>1 DEF InTurn, CompIsRows, Paid, Exact, Open
    <3>3. QED
      BY <3>2 DEF InTurn
  <2>2. CASE Fire(First) \/ Abort(First) \/ \E p \in Period : Manual(First, p)
    BY <1>1, <1>2, <1>4, <2>2, TurnsEmpty, TurnStarts
  <2>3. CASE Settle(First)
    BY <1>1, <1>2, <1>4, <2>3, LookTurn, CreateTurn, WriteTurn, CommitTurn DEF Settle
  <2>4. \A r \in Run : r = First \/ run[r] # Idle => r = First
    BY <1>4 DEF InTurn
  <2>5. QED
    BY <1>4, <2>1, <2>2, <2>3, <2>4, MCStep
<1>5. QED
  BY <1>3, <1>4

LEMMA InitTurn == Init => InTurn
<1> SUFFICES ASSUME Init PROVE InTurn
  OBVIOUS
<1>1. ASSUME NEW m \in Member PROVE comp[m] = Paid(m)
  <2>1. [p \in Period |-> settled[p][m]] = [p \in Period |-> 0]
    BY DEF Init
  <2>2. Paid(m) = 0
    BY <2>1, PeriodFinite, SumZeros DEF Paid, SumFunction
  <2>3. QED
    BY <2>2 DEF Init
<1>2. \A r \in Run : run[r] = Idle /\ Exact(r)
  BY IdleType DEF Init, Exact, Open
<1>3. QED
  BY <1>1, <1>2 DEF InTurn, CompIsRows

\* Settled one after the other, wherever a settlement breaks off and whatever else
\* happens between its steps, the comps of every member are exactly what the rows add
\* up to (compFree and CompSettlement in executeCompSettlement).
THEOREM SerialCompsAreRows ==
    ASSUME Run # {}
    PROVE  MCSpec => []SerialCompIsRows
<1>1. [MCNext]_mcvars => [Next]_vars
  BY MCStep
<1>2. IInv /\ PaidInv /\ InTurn /\ [MCNext]_mcvars => InTurn'
  BY TurnInductive
<1>3. InTurn => SerialCompIsRows
  BY DEF InTurn, SerialCompIsRows
<1>4. QED
  BY <1>1, <1>2, <1>3, InitInv, Inductive, InitPaid, PaidInductive, InitTurn, PTL DEF MCSpec, MCInit

=============================================================================
