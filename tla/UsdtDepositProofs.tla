-------------------------- MODULE UsdtDepositProofs --------------------------
(***************************************************************************)
(* What holds of the USDT polls for any numbers of polls and transfers,    *)
(* any limit of TronGrid's answer and any bound on requests.               *)
(***************************************************************************)
EXTENDS UsdtDeposit, TLAPS

Active(p) == poll[p] # Idle

\* A poll about to record a transfer whose request it has made.
Asked(t) == \E p \in Poller :
    poll[p].op = "record" /\ poll[p].as = "PENDING" /\ poll[p].transfer = t

\* What a poll may be doing.
PollState == {Idle} \cup Listing \cup Handling

\* What is listed or recorded is confirmed, what is handled is listed, and block
\* timestamps do not pass the chain.
ListsConfirmed ==
    /\ \A t \in Transfer : time[t] <= height
    /\ \A t \in Transfer : Recorded(t) => Confirmed(t)
    /\ \A p \in Poller : Active(p) => \A t \in poll[p].list : Confirmed(t)
    /\ \A p \in Poller : poll[p].op \in {"record", "request"} => poll[p].transfer \in poll[p].list

\* Until something goes wrong one poll runs at a time, ...
OneActive == quiet => \A p, q \in Poller : Active(p) /\ Active(q) => p = q

\* ... whose list holds every unrecorded transfer up to the latest on it, ...
ListClosed ==
    quiet => \A p \in Poller : Active(p) =>
        \A x \in poll[p].list, t \in Transfer :
            Confirmed(t) /\ ~Recorded(t) /\ time[t] <= time[x] => t \in poll[p].list

\* ... and what it handles is not recorded.
HandledFresh ==
    quiet => \A p \in Poller : poll[p].op \in {"record", "request"} => ~Recorded(poll[p].transfer)

\* One request about a transfer that is recorded as PENDING, or about to be;
\* none about any other.
RequestsMatch ==
    quiet => \A t \in Transfer :
        /\ waiting[t] + granted[t] <= 1
        /\ ~Asked(t) /\ row[t] # "PENDING" => waiting[t] + granted[t] = 0

IInv ==
    /\ TypeOK
    /\ CreditedWithRow
    /\ ListsConfirmed
    /\ OneActive
    /\ ListClosed
    /\ HandledFresh
    /\ RequestsMatch
    /\ QuietLeavesNothing

-----------------------------------------------------------------------------
(* Small facts *)

\* What a poll is doing is told by its op.
LEMMA OpCases ==
    ASSUME TypeOK, NEW p \in Poller
    PROVE  /\ poll[p].op = "list" => poll[p] \in Listing /\ Active(p)
           /\ poll[p].op \in {"record", "request"} => poll[p] \in Handling /\ Active(p)
           /\ Active(p) => /\ poll[p] \in Listing \cup Handling
                           /\ poll[p].list \subseteq Transfer
BY DEF TypeOK, Idle, Listing, Handling, Active

\* A step of one poll leaves what the others do well typed.
LEMMA PollType ==
    ASSUME TypeOK, NEW p \in Poller, NEW v \in PollState, poll' = [poll EXCEPT ![p] = v]
    PROVE  poll' \in [Poller -> PollState]
BY DEF TypeOK, PollState

\* What is left of a poll after a transfer.
LEMMA RestType ==
    ASSUME NEW p \in Poller, poll[p].list \subseteq Transfer, NEW t
    PROVE  /\ Rest(p, t) \in PollState
           /\ Rest(p, t) = Idle \/ (Rest(p, t) \in Listing /\ Rest(p, t).list = poll[p].list \ {t})
           /\ Rest(p, t) = Idle => poll[p].list \subseteq {t}
           /\ Rest(p, t).op \in {"idle", "list"}
BY DEF Rest, PollState, Listing, Idle

LEMMA InitIInv == Init => IInv
<1> SUFFICES ASSUME Init PROVE IInv
  OBVIOUS
<1>1. \A p \in Poller : poll[p] = Idle
  BY DEF Init
<1>2. TypeOK
  BY DEF Init, TypeOK, Status
<1>3. CreditedWithRow
  BY DEF Init, CreditedWithRow
<1>4. ListsConfirmed /\ OneActive /\ ListClosed
  BY <1>1 DEF Init, ListsConfirmed, OneActive, ListClosed, Active, Recorded, Idle
<1>5. HandledFresh
  BY <1>1 DEF HandledFresh, Idle
<1>6. RequestsMatch
  BY DEF Init, RequestsMatch
<1>7. QuietLeavesNothing
  BY DEF Init, QuietLeavesNothing, Confirmed
<1>8. QED
  BY <1>2, <1>3, <1>4, <1>5, <1>6, <1>7 DEF IInv

\* Once something went wrong only the first three parts say anything.
LEMMA NotQuiet ==
    ASSUME ~quiet', TypeOK', CreditedWithRow', ListsConfirmed' PROVE IInv'
BY DEF IInv, OneActive, ListClosed, HandledFresh, RequestsMatch, QuietLeavesNothing

-----------------------------------------------------------------------------
(* The chain and the administrator *)

LEMMA BlockStep == ASSUME IInv, NEW txs \in SUBSET Transfer, Block(txs) PROVE IInv'
<1> USE DEF IInv
<1>1. /\ height \in Nat /\ time \in [Transfer -> Nat] /\ height' = height + 1
      /\ UNCHANGED <<row, waiting, credited, granted, poll, quiet>>
      /\ \A t \in Transfer : time'[t] = IF t \in txs THEN height + 1 ELSE time[t]
      /\ \A t \in txs : time[t] = 0
  BY DEF Block, TypeOK, records, Confirmed
<1>2. TypeOK'
  <2>1. time' \in [Transfer -> Nat]
    BY <1>1 DEF Block
  <2>2. QED
    BY <1>1, <2>1 DEF TypeOK
<1>3. CreditedWithRow'
  BY <1>1 DEF CreditedWithRow
<1>4. ListsConfirmed'
  <2>1. \A t \in Transfer : time'[t] <= height'
    BY <1>1 DEF ListsConfirmed
  <2>2. \A p \in Poller : Active(p) => \A t \in poll[p].list : time'[t] > 0
    BY <1>1, OpCases DEF ListsConfirmed, Confirmed
  <2>3. \A t \in Transfer : row[t] # "none" => time'[t] > 0
    BY <1>1 DEF ListsConfirmed, Confirmed, Recorded
  <2>4. QED
    BY <1>1, <2>1, <2>2, <2>3 DEF ListsConfirmed, Confirmed, Active, Recorded
<1>5. OneActive' /\ HandledFresh' /\ RequestsMatch'
  BY <1>1 DEF OneActive, HandledFresh, RequestsMatch, Active, Recorded, Asked
<1>6. ListClosed'
  <2> SUFFICES ASSUME quiet', NEW p \in Poller, Active(p)', NEW x \in poll'[p].list,
                      NEW t \in Transfer, Confirmed(t)', ~Recorded(t)', time'[t] <= time'[x]
               PROVE  t \in poll'[p].list
    BY DEF ListClosed
  <2>1. x \in poll[p].list /\ x \in Transfer /\ Active(p) /\ quiet /\ ~Recorded(t)
    BY <1>1, OpCases DEF Active, Recorded
  <2>2. time[x] > 0 /\ x \notin txs /\ time'[x] = time[x] /\ time[x] <= height
    BY <1>1, <2>1 DEF ListsConfirmed, Confirmed
  <2>3. time'[t] <= height
    <3>1. time'[t] <= time[x] /\ time'[t] \in Nat /\ time[x] \in Nat
      BY <1>1, <1>2, <2>1, <2>2 DEF TypeOK
    <3>2. QED
      BY <1>1, <2>2, <3>1
  <2>4. t \notin txs
    <3>1. t \in txs => time'[t] = height + 1
      BY <1>1
    <3>2. QED
      BY <1>1, <2>3, <3>1
  <2>5. time[t] = time'[t]
    BY <1>1, <2>4
  <2>6. QED
    BY <1>1, <2>1, <2>2, <2>5 DEF ListClosed, Confirmed
<1>7. QuietLeavesNothing'
  <2> SUFFICES ASSUME quiet', NEW t \in Transfer, Confirmed(t)', ~Recorded(t)'
               PROVE  Reachable(t)'
    BY DEF QuietLeavesNothing
  <2>1. quiet /\ ~Recorded(t)
    BY <1>1 DEF Recorded
  <2>2. \A r \in Transfer : Recorded(r)' => Recorded(r) /\ r \notin txs /\ time'[r] = time[r]
    BY <1>1 DEF Recorded, ListsConfirmed, Confirmed
  <2>3. CASE t \in txs
    <3>1. \A r \in Transfer : Recorded(r)' => time'[t] > time'[r]
      BY <2>2, <2>3, <1>1 DEF ListsConfirmed
    <3>2. QED
      BY <3>1 DEF New, Reachable
  <2>4. CASE t \notin txs
    <3>1. time'[t] = time[t] /\ Confirmed(t) /\ Reachable(t)
      BY <1>1, <2>1, <2>4 DEF QuietLeavesNothing, Confirmed
    <3>2. CASE t \in New
      <4>1. t \in New'
        BY <2>2, <3>1, <3>2 DEF New
      <4>2. QED
        BY <4>1 DEF Reachable
    <3>3. CASE \E p \in Poller : poll[p] # Idle /\ t \in poll[p].list
      BY <1>1, <3>3 DEF Reachable
    <3>4. QED
      BY <3>1, <3>2, <3>3 DEF Reachable
  <2>5. QED
    BY <2>3, <2>4
<1>8. QED
  BY <1>2, <1>3, <1>4, <1>5, <1>6, <1>7

\* Approving a request moves it from waiting to granted, rejecting drops it.
LEMMA DecideStep == ASSUME IInv, NEW t \in Transfer, Approve(t) \/ Reject(t) PROVE IInv'
<1> USE DEF IInv
<1>1. /\ UNCHANGED <<height, time, row, credited, poll, quiet>>
      /\ waiting' \in [Transfer -> Nat] /\ granted' \in [Transfer -> Nat]
      /\ \A u \in Transfer : waiting'[u] + granted'[u] <= waiting[u] + granted[u]
  <2>1. waiting \in [Transfer -> Nat] /\ granted \in [Transfer -> Nat] /\ waiting[t] > 0
    BY DEF TypeOK, Approve, Reject
  <2>2. CASE Approve(t)
    BY <2>1, <2>2 DEF Approve, chain
  <2>3. CASE Reject(t)
    BY <2>1, <2>3 DEF Reject, chain
  <2>4. QED
    BY <2>2, <2>3
<1>2. TypeOK' /\ CreditedWithRow'
  BY <1>1 DEF TypeOK, CreditedWithRow
<1>3. ListsConfirmed' /\ OneActive' /\ ListClosed' /\ HandledFresh'
  BY <1>1 DEF ListsConfirmed, OneActive, ListClosed, HandledFresh, Active, Recorded, Confirmed
<1>4. RequestsMatch'
  <2> SUFFICES ASSUME quiet', NEW u \in Transfer
               PROVE  /\ waiting'[u] + granted'[u] <= 1
                      /\ ~Asked(u)' /\ row'[u] # "PENDING" => waiting'[u] + granted'[u] = 0
    BY DEF RequestsMatch
  <2>1. /\ waiting[u] \in Nat /\ granted[u] \in Nat /\ waiting'[u] \in Nat /\ granted'[u] \in Nat
        /\ waiting'[u] + granted'[u] <= waiting[u] + granted[u]
    BY <1>1 DEF TypeOK
  <2>2. (Asked(u)' <=> Asked(u)) /\ row'[u] = row[u] /\ quiet
    BY <1>1 DEF Asked
  <2>3. waiting[u] + granted[u] <= 1
    BY <2>2 DEF RequestsMatch
  <2>4. ~Asked(u) /\ row[u] # "PENDING" => waiting[u] + granted[u] = 0
    BY <2>2 DEF RequestsMatch
  <2>5. waiting'[u] + granted'[u] <= 1
    BY <2>1, <2>3
  <2>6. waiting[u] + granted[u] = 0 => waiting'[u] + granted'[u] = 0
    BY <2>1
  <2>7. QED
    BY <2>2, <2>4, <2>5, <2>6
<1>5. QuietLeavesNothing'
  BY <1>1 DEF QuietLeavesNothing, Reachable, New, Recorded, Confirmed
<1>6. QED
  BY <1>2, <1>3, <1>4, <1>5

-----------------------------------------------------------------------------
(* The polls *)

\* A poll between two transfers drops recorded ones from its list or turns to an
\* unrecorded one.
LEMMA WalkStep ==
    ASSUME IInv, NEW p \in Poller, NEW v \in PollState, poll[p].op = "list",
           poll' = [poll EXCEPT ![p] = v], UNCHANGED <<chain, records, quiet>>,
           v # Idle => v.list \subseteq poll[p].list,
           \A t \in poll[p].list : ~Recorded(t) => v # Idle /\ t \in v.list,
           v.op \in {"record", "request"} => v.transfer \in v.list /\ ~Recorded(v.transfer),
           v.op = "record" => v.as # "PENDING"
    PROVE  IInv'
<1> USE DEF IInv
<1>1. /\ UNCHANGED <<height, time, row, waiting, credited, granted, quiet>>
      /\ poll'[p] = v /\ \A q \in Poller \ {p} : poll'[q] = poll[q]
      /\ Active(p) /\ poll[p].list \subseteq Transfer
  BY OpCases DEF chain, records, TypeOK
<1>2. TypeOK' /\ CreditedWithRow'
  <2>1. poll' \in [Poller -> PollState]
    BY PollType
  <2>2. QED
    BY <1>1, <2>1 DEF TypeOK, PollState, CreditedWithRow
<1>3. ListsConfirmed'
  <2>1. ASSUME NEW q \in Poller, Active(q)', NEW t \in poll'[q].list PROVE Confirmed(t)'
    <3>1. CASE q = p
      <4>1. t \in poll[p].list
        BY <1>1, <2>1, <3>1 DEF Active
      <4>2. QED
        BY <1>1, <4>1 DEF ListsConfirmed, Confirmed
    <3>2. CASE q # p
      BY <1>1, <2>1, <3>2 DEF ListsConfirmed, Confirmed, Active
    <3>3. QED
      BY <3>1, <3>2
  <2>2. \A q \in Poller : poll'[q].op \in {"record", "request"}
                            => poll'[q].transfer \in poll'[q].list
    BY <1>1 DEF ListsConfirmed
  <2>3. /\ \A t \in Transfer : time'[t] <= height'
        /\ \A t \in Transfer : Recorded(t)' => Confirmed(t)'
    BY <1>1 DEF ListsConfirmed, Recorded, Confirmed
  <2>4. QED
    BY <2>1, <2>2, <2>3 DEF ListsConfirmed
<1>4. \A q \in Poller : Active(q)' => Active(q)
  BY <1>1 DEF Active
<1>5. OneActive'
  BY <1>1, <1>4 DEF OneActive
<1>6. ListClosed'
  <2> SUFFICES ASSUME quiet', NEW q \in Poller, Active(q)', NEW x \in poll'[q].list,
                      NEW t \in Transfer, Confirmed(t)', ~Recorded(t)', time'[t] <= time'[x]
               PROVE  t \in poll'[q].list
    BY DEF ListClosed
  <2>1. quiet /\ Active(q) /\ Confirmed(t) /\ ~Recorded(t) /\ time[t] <= time[x]
    BY <1>1, <1>4 DEF Confirmed, Recorded
  <2>2. x \in poll[q].list
    BY <1>1 DEF Active
  <2>3. t \in poll[q].list
    BY <2>1, <2>2 DEF ListClosed
  <2>4. QED
    BY <1>1, <2>1, <2>3
<1>7. HandledFresh'
  BY <1>1 DEF HandledFresh, Recorded
<1>8. RequestsMatch'
  <2>1. \A t \in Transfer : Asked(t) => Asked(t)'
    BY <1>1 DEF Asked
  <2>2. QED
    BY <1>1, <2>1 DEF RequestsMatch
<1>9. QuietLeavesNothing'
  <2> SUFFICES ASSUME quiet', NEW t \in Transfer, Confirmed(t)', ~Recorded(t)'
               PROVE  Reachable(t)'
    BY DEF QuietLeavesNothing
  <2>1. Reachable(t) /\ ~Recorded(t) /\ New' = New
    BY <1>1 DEF QuietLeavesNothing, Confirmed, Recorded, New
  <2>2. CASE \E q \in Poller : poll[q] # Idle /\ t \in poll[q].list
    BY <1>1, <2>1, <2>2 DEF Reachable
  <2>3. QED
    BY <2>1, <2>2 DEF Reachable
<1>10. QED
  BY <1>2, <1>3, <1>5, <1>6, <1>7, <1>8, <1>9

LEMMA PassOverStep == ASSUME IInv, NEW p \in Poller, PassOver(p) PROVE IInv'
<1>1. poll[p].op = "list" /\ TypeOK /\ poll[p].list \subseteq Transfer
  BY OpCases DEF PassOver, IInv
<1>2. PICK t \in poll[p].list : Recorded(t) /\ poll' = [poll EXCEPT ![p] = Rest(p, t)]
  BY DEF PassOver
<1>3. /\ Rest(p, t) \in PollState
      /\ Rest(p, t) = Idle \/ Rest(p, t).list = poll[p].list \ {t}
      /\ Rest(p, t) = Idle => poll[p].list \subseteq {t}
      /\ Rest(p, t).op \in {"idle", "list"}
  BY <1>1, RestType
<1>4. UNCHANGED <<chain, records, quiet>>
  BY DEF PassOver
<1> DEFINE v == Rest(p, t)
<1>5. /\ v \in PollState /\ poll' = [poll EXCEPT ![p] = v]
      /\ v # Idle => v.list \subseteq poll[p].list
      /\ \A u \in poll[p].list : ~Recorded(u) => v # Idle /\ u \in v.list
      /\ v.op \notin {"record", "request"}
  BY <1>2, <1>3
<1> HIDE DEF v
<1>6. QED
  BY <1>1, <1>4, <1>5, WalkStep

LEMMA LookStep == ASSUME IInv, NEW p \in Poller, Look(p) PROVE IInv'
<1>1. poll[p].op = "list" /\ TypeOK /\ poll[p].list \subseteq Transfer
  BY OpCases DEF Look, IInv
<1>2. PICK t \in poll[p].list, as \in {"UNMATCHED", "PENDING", "AUTO_CREDITED"} :
          /\ ~Recorded(t)
          /\ poll' = [poll EXCEPT ![p] =
                        [op |-> IF as = "PENDING" THEN "request" ELSE "record",
                         list |-> poll[p].list, transfer |-> t, as |-> as]]
  BY DEF Look
<1> DEFINE v == [op |-> IF as = "PENDING" THEN "request" ELSE "record",
                 list |-> poll[p].list, transfer |-> t, as |-> as]
<1>3. v \in PollState
  BY <1>1, <1>2 DEF PollState, Handling, Status
<1>4. v # Idle /\ v.list = poll[p].list /\ v.transfer = t
  BY DEF Idle
<1>5. v.op = "record" => v.as # "PENDING"
  OBVIOUS
<1>6. poll' = [poll EXCEPT ![p] = v] /\ UNCHANGED <<chain, records, quiet>>
  BY <1>2 DEF Look
<1> HIDE DEF v
<1>7. QED
  BY <1>1, <1>2, <1>3, <1>4, <1>5, <1>6, WalkStep

\* A poll that ends early ends the quiet.
LEMMA BreakStep ==
    ASSUME IInv, NEW p \in Poller, Duplicate(p) \/ Crash(p) PROVE IInv'
<1> USE DEF IInv
<1>1. /\ UNCHANGED <<height, time, row, waiting, credited, granted>> /\ quiet' = FALSE
      /\ poll' = [poll EXCEPT ![p] = Idle]
  BY DEF Duplicate, Crash, chain, records
<1>2. poll' \in [Poller -> PollState]
  BY <1>1, PollType DEF PollState
<1>3. TypeOK' /\ CreditedWithRow'
  BY <1>1, <1>2 DEF TypeOK, PollState, CreditedWithRow
<1>4. poll'[p] = Idle /\ \A q \in Poller \ {p} : poll'[q] = poll[q]
  BY <1>1 DEF TypeOK
<1>5. ListsConfirmed'
  BY <1>1, <1>4 DEF ListsConfirmed, Active, Idle, Confirmed, Recorded
<1>6. QED
  BY <1>1, <1>3, <1>5, NotQuiet

\* A quiet poll starts alone, so that whatever is not recorded is new.
LEMMA PollStep == ASSUME IInv, NEW p \in Poller, Poll(p) PROVE IInv'
<1> USE DEF IInv
<1>1. PICK list \in SUBSET New :
          /\ poll' = [poll EXCEPT ![p] = [op |-> "list", list |-> list]]
          /\ quiet' = (quiet /\ list = New /\ \A q \in Poller : poll[q] = Idle)
  BY DEF Poll
<1> DEFINE v == [op |-> "list", list |-> list]
<1>2. v \in PollState /\ v # Idle /\ v.op = "list" /\ v.list = list
  BY DEF PollState, Listing, Idle, New
<1>3. poll' = [poll EXCEPT ![p] = v]
  BY <1>1
<1> HIDE DEF v
<1>4. /\ UNCHANGED <<height, time, row, waiting, credited, granted>>
      /\ poll'[p] = v /\ \A q \in Poller \ {p} : poll'[q] = poll[q]
  BY <1>3 DEF Poll, chain, records, TypeOK
<1>5. TypeOK' /\ CreditedWithRow'
  <2>1. poll' \in [Poller -> PollState]
    BY <1>2, <1>3, PollType
  <2>2. quiet' \in BOOLEAN
    BY <1>1 DEF TypeOK
  <2>3. QED
    BY <1>4, <2>1, <2>2 DEF TypeOK, PollState, CreditedWithRow
<1>6. ListsConfirmed'
  <2>1. \A t \in list : Confirmed(t)
    BY DEF New
  <2>2. QED
    BY <1>2, <1>4, <2>1 DEF ListsConfirmed, Active, Confirmed, Recorded
<1>7. CASE quiet'
  <2>1. quiet /\ list = New /\ \A q \in Poller : poll[q] = Idle
    BY <1>1, <1>7
  <2>2. \A q \in Poller : Active(q)' => q = p
    BY <1>4, <2>1 DEF Active
  <2>3. \A t \in Transfer : Confirmed(t) /\ ~Recorded(t) => t \in list
    BY <2>1 DEF QuietLeavesNothing, Reachable
  <2>4. OneActive' /\ ListClosed'
    BY <1>2, <1>4, <2>2, <2>3 DEF OneActive, ListClosed, Confirmed, Recorded
  <2>5. HandledFresh'
    BY <1>2, <1>4, <2>1 DEF HandledFresh, Idle
  <2>6. \A t \in Transfer : ~Asked(t)
    BY <2>1 DEF Asked, Idle
  <2>7. RequestsMatch'
    BY <1>4, <2>1, <2>6 DEF RequestsMatch
  <2>8. QuietLeavesNothing'
    BY <1>2, <1>4, <2>3 DEF QuietLeavesNothing, Reachable, Confirmed, Recorded
  <2>9. QED
    BY <1>5, <1>6, <2>4, <2>5, <2>7, <2>8
<1>8. CASE ~quiet'
  BY <1>5, <1>6, <1>8, NotQuiet
<1>9. QED
  BY <1>7, <1>8

\* The request makes the transfer the one that is about to be recorded as PENDING.
LEMMA MakeRequestStep == ASSUME IInv, NEW p \in Poller, MakeRequest(p) PROVE IInv'
<1> USE DEF IInv
<1>1. poll[p] \in Handling /\ poll[p].op = "request" /\ Active(p)
  BY OpCases DEF MakeRequest
<1> DEFINE v == [poll[p] EXCEPT !.op = "record"]
           tr == poll[p].transfer
<1>2. /\ v \in PollState /\ v # Idle /\ v.op = "record" /\ v.list = poll[p].list
      /\ v.transfer = tr /\ v.as = poll[p].as /\ tr \in Transfer
  <2>1. poll[p] \in [op: {"request"}, list: SUBSET Transfer, transfer: Transfer, as: {"PENDING"}]
    BY <1>1 DEF Handling
  <2>2. v \in [op: {"record"}, list: SUBSET Transfer, transfer: Transfer, as: {"PENDING"}]
    BY <2>1
  <2>3. v \in Handling
    BY <2>2 DEF Handling, Status
  <2>4. v.op = "record" /\ v.list = poll[p].list /\ v.transfer = tr /\ v.as = poll[p].as
    BY <2>1
  <2>5. v # Idle
    BY <2>4 DEF Idle
  <2>6. QED
    BY <2>1, <2>3, <2>4, <2>5 DEF PollState
<1>3. poll' = [poll EXCEPT ![p] = v]
  BY DEF MakeRequest, TypeOK
<1> HIDE DEF v
<1>4. /\ UNCHANGED <<height, time, row, credited, granted, quiet>>
      /\ poll'[p] = v /\ \A q \in Poller \ {p} : poll'[q] = poll[q]
      /\ waiting' = [waiting EXCEPT ![tr] = @ + 1]
  BY <1>3 DEF MakeRequest, chain, TypeOK
<1>5. TypeOK' /\ CreditedWithRow'
  <2>1. poll' \in [Poller -> PollState]
    BY <1>2, <1>3, PollType
  <2>2. waiting' \in [Transfer -> Nat]
    BY <1>2, <1>4 DEF TypeOK
  <2>3. QED
    BY <1>4, <2>1, <2>2 DEF TypeOK, PollState, CreditedWithRow
<1>6. ListsConfirmed'
  BY <1>1, <1>2, <1>4 DEF ListsConfirmed, Active, Confirmed, Recorded
<1>7. OneActive' /\ ListClosed' /\ HandledFresh'
  BY <1>1, <1>2, <1>4 DEF OneActive, ListClosed, HandledFresh, Active, Confirmed, Recorded
<1>8. QuietLeavesNothing'
  <2>1. New' = New
    BY <1>4 DEF New, Confirmed, Recorded
  <2>2. QED
    BY <1>1, <1>2, <1>4, <2>1
    DEF QuietLeavesNothing, Reachable, Confirmed, Recorded, Active
<1>9. RequestsMatch'
  <2> SUFFICES ASSUME quiet', NEW t \in Transfer
               PROVE  /\ waiting'[t] + granted'[t] <= 1
                      /\ ~Asked(t)' /\ row'[t] # "PENDING" => waiting'[t] + granted'[t] = 0
    BY DEF RequestsMatch
  <2>1. CASE t = tr
    <3>1. ~Recorded(t) /\ quiet
      BY <1>1, <1>4, <2>1 DEF HandledFresh
    <3>2. \A q \in Poller : Active(q) => q = p
      BY <1>1, <3>1 DEF OneActive
    <3>3. \A q \in Poller : poll[q].op = "record" => q = p
      BY <3>2, OpCases
    <3>4. ~Asked(t)
      BY <1>1, <3>3 DEF Asked
    <3>5. waiting[t] + granted[t] = 0
      BY <3>1, <3>4 DEF RequestsMatch, Recorded
    <3>6. waiting'[t] = waiting[t] + 1 /\ granted'[t] = granted[t]
      BY <1>4, <2>1 DEF TypeOK
    <3>7. waiting[t] \in Nat /\ granted[t] \in Nat
      BY DEF TypeOK
    <3>8. waiting'[t] + granted'[t] = 1
      BY <3>5, <3>6, <3>7
    <3>9. Asked(t)'
      <4>1. poll[p].as = "PENDING"
        BY <1>1 DEF Handling
      <4>2. QED
        BY <1>2, <1>4, <2>1, <4>1 DEF Asked
    <3>10. QED
      BY <3>8, <3>9
  <2>2. CASE t # tr
    <3>1. waiting'[t] = waiting[t] /\ granted'[t] = granted[t]
      BY <1>4, <2>2 DEF TypeOK
    <3>2. Asked(t) => Asked(t)'
      BY <1>1, <1>2, <1>4, <2>2 DEF Asked
    <3>3. QED
      BY <1>4, <3>1, <3>2 DEF RequestsMatch
  <2>3. QED
    BY <2>1, <2>2
<1>10. QED
  BY <1>5, <1>6, <1>7, <1>8, <1>9

\* A recorded transfer leaves the list; one it outdates is on the list too.
LEMMA RecordStep == ASSUME IInv, NEW p \in Poller, Record(p) PROVE IInv'
<1> USE DEF IInv
<1>1. poll[p] \in Handling /\ poll[p].op = "record" /\ Active(p)
  BY OpCases DEF Record
<1> DEFINE x == poll[p].transfer
           v == Rest(p, x)
<1>2. /\ v \in PollState
      /\ v = Idle \/ v.list = poll[p].list \ {x}
      /\ v = Idle => poll[p].list \subseteq {x}
      /\ v.op \in {"idle", "list"}
  BY <1>1, RestType DEF Handling
<1>3. /\ x \in Transfer /\ x \in poll[p].list /\ poll[p].list \subseteq Transfer
      /\ poll[p].as \in Status \ {"none"}
  BY <1>1 DEF Handling, ListsConfirmed
<1>4. poll' = [poll EXCEPT ![p] = v]
  BY DEF Record
<1>5. /\ ~Recorded(x)
      /\ row' = [row EXCEPT ![x] = poll[p].as]
      /\ credited' = [credited EXCEPT ![x] = IF poll[p].as = "AUTO_CREDITED" THEN @ + 1 ELSE @]
      /\ UNCHANGED <<height, time, waiting, granted, quiet>>
  BY DEF Record, chain
<1> HIDE DEF v, x
<1>6. /\ poll'[p] = v /\ \A q \in Poller \ {p} : poll'[q] = poll[q]
      /\ row'[x] = poll[p].as /\ \A t \in Transfer \ {x} : row'[t] = row[t]
  BY <1>3, <1>4, <1>5 DEF TypeOK
<1>7. TypeOK' /\ CreditedWithRow'
  <2>1. poll' \in [Poller -> PollState]
    BY <1>2, <1>4, PollType
  <2>2. row' \in [Transfer -> Status]
    BY <1>3, <1>5 DEF TypeOK
  <2>3. credited' \in [Transfer -> Nat]
    BY <1>3, <1>5 DEF TypeOK
  <2>4. CreditedWithRow'
    BY <1>3, <1>5, <1>6 DEF TypeOK, CreditedWithRow, Recorded
  <2>5. QED
    BY <1>5, <2>1, <2>2, <2>3, <2>4 DEF TypeOK, PollState
<1>8. ListsConfirmed'
  <2>1. \A t \in Transfer : Recorded(t)' => Confirmed(t)'
    BY <1>1, <1>3, <1>5, <1>6 DEF ListsConfirmed, Recorded, Confirmed
  <2>2. ASSUME NEW q \in Poller, Active(q)', NEW t \in poll'[q].list PROVE Confirmed(t)'
    BY <1>1, <1>2, <1>5, <1>6, <2>2 DEF ListsConfirmed, Active, Confirmed
  <2>3. \A q \in Poller : poll'[q].op \in {"record", "request"}
                            => poll'[q].transfer \in poll'[q].list
    BY <1>2, <1>6 DEF ListsConfirmed
  <2>4. QED
    BY <1>5, <2>1, <2>2, <2>3 DEF ListsConfirmed
<1>9. ASSUME quiet
      PROVE  OneActive' /\ ListClosed' /\ HandledFresh' /\ RequestsMatch' /\ QuietLeavesNothing'
  <2>1. \A q \in Poller : Active(q) => q = p
    BY <1>1, <1>9 DEF OneActive
  <2>2. \A q \in Poller : Active(q)' => q = p
    BY <1>6, <2>1 DEF Active
  <2>3. \A t \in Transfer : ~Recorded(t)' => ~Recorded(t) /\ t # x
    BY <1>3, <1>6 DEF Recorded
  <2>4. OneActive'
    BY <2>2 DEF OneActive
  <2>5. ListClosed'
    <3> SUFFICES ASSUME NEW y \in v.list, v # Idle, NEW t \in Transfer,
                        Confirmed(t)', ~Recorded(t)', time'[t] <= time'[y]
                 PROVE  t \in v.list
      BY <1>6, <2>2 DEF ListClosed, Active
    <3>1. Confirmed(t) /\ ~Recorded(t) /\ t # x /\ time[t] <= time[y] /\ y \in poll[p].list
      BY <1>2, <1>5, <2>3 DEF Confirmed
    <3>2. t \in poll[p].list
      BY <1>1, <1>9, <3>1 DEF ListClosed
    <3>3. QED
      BY <1>2, <3>1, <3>2
  <2>6. HandledFresh'
    <3>1. \A q \in Poller : poll'[q].op \notin {"record", "request"}
      BY <1>2, <1>6, <2>1, OpCases
    <3>2. QED
      BY <3>1 DEF HandledFresh
  <2>7. RequestsMatch'
    <3> SUFFICES ASSUME NEW t \in Transfer
                 PROVE  /\ waiting[t] + granted[t] <= 1
                        /\ row'[t] # "PENDING" => waiting[t] + granted[t] = 0
      BY <1>5 DEF RequestsMatch
    <3>1. \A q \in Poller : poll[q].op = "record" => q = p
      BY <2>1, OpCases
    <3>2. ASSUME row'[t] # "PENDING" PROVE ~Asked(t) /\ row[t] # "PENDING"
      <4>1. CASE t = x
        BY <1>5, <1>6, <3>1, <3>2, <4>1 DEF Asked, Recorded
      <4>2. CASE t # x
        BY <1>6, <3>1, <3>2, <4>2 DEF Asked, x
      <4>3. QED
        BY <4>1, <4>2
    <3>3. QED
      BY <1>9, <3>2 DEF RequestsMatch
  <2>8. QuietLeavesNothing'
    <3> SUFFICES ASSUME NEW t \in Transfer, Confirmed(t)', ~Recorded(t)' PROVE Reachable(t)'
      BY DEF QuietLeavesNothing
    <3>1. Confirmed(t) /\ ~Recorded(t) /\ t # x /\ Reachable(t)
      BY <1>5, <1>9, <2>3 DEF Confirmed, QuietLeavesNothing
    <3>2. CASE t \in poll[p].list
      BY <1>2, <1>6, <3>1, <3>2 DEF Reachable
    <3>3. CASE t \notin poll[p].list
      <4>1. t \in New
        BY <2>1, <3>1, <3>3 DEF Reachable, Active
      <4>2. ~(time[t] <= time[x])
        BY <1>1, <1>3, <1>9, <3>1, <3>3 DEF ListClosed
      <4>3. time[t] > time[x]
        BY <1>3, <4>2 DEF TypeOK
      <4>4. t \in New'
        BY <1>5, <1>6, <4>1, <4>3 DEF New, Confirmed, Recorded
      <4>5. QED
        BY <4>4 DEF Reachable
    <3>4. QED
      BY <3>2, <3>3
  <2>9. QED
    BY <2>4, <2>5, <2>6, <2>7, <2>8
<1>10. CASE quiet
  BY <1>7, <1>8, <1>9, <1>10
<1>11. CASE ~quiet
  BY <1>5, <1>7, <1>8, <1>11, NotQuiet
<1>12. QED
  BY <1>10, <1>11

\* A transfer whose member has no wallet ends the quiet too.
LEMMA NoWalletStep ==
    ASSUME IInv, NEW p \in Poller, NoWallet(p) PROVE IInv'
<1> USE DEF IInv
<1>1. /\ TypeOK /\ poll[p] \in Handling /\ Active(p) /\ ListsConfirmed
  BY OpCases DEF NoWallet
<1> DEFINE x == poll[p].transfer
           v == Rest(p, x)
<1>2. /\ v \in PollState
      /\ v = Idle \/ v.list = poll[p].list \ {x}
      /\ v.op \in {"idle", "list"}
  BY <1>1, RestType DEF Handling, ListsConfirmed
<1>3. /\ UNCHANGED <<height, time, row, waiting, credited, granted>> /\ quiet' = FALSE
      /\ poll' = [poll EXCEPT ![p] = v]
  BY DEF NoWallet, chain, records
<1> HIDE DEF v, x
<1>4. poll' \in [Poller -> PollState]
  BY <1>2, <1>3, PollType
<1>5. TypeOK' /\ CreditedWithRow'
  BY <1>3, <1>4 DEF TypeOK, PollState, CreditedWithRow
<1>6. poll'[p] = v /\ \A q \in Poller \ {p} : poll'[q] = poll[q]
  BY <1>3 DEF TypeOK
<1>7. ListsConfirmed'
  <2>1. ASSUME NEW q \in Poller, Active(q)', NEW t \in poll'[q].list PROVE Confirmed(t)'
    BY <1>1, <1>2, <1>3, <1>6, <2>1 DEF ListsConfirmed, Active, Confirmed
  <2>2. \A q \in Poller : poll'[q].op \in {"record", "request"}
                            => poll'[q].transfer \in poll'[q].list
    BY <1>2, <1>6 DEF ListsConfirmed
  <2>3. QED
    BY <1>3, <2>1, <2>2 DEF ListsConfirmed, Confirmed, Recorded
<1>8. QED
  BY <1>3, <1>5, <1>7, NotQuiet

LEMMA NextIInv == IInv /\ [Next]_vars => IInv'
<1> SUFFICES ASSUME IInv, [Next]_vars PROVE IInv'
  OBVIOUS
<1>1. ASSUME NEW p \in Poller, Handle(p) \/ Crash(p) PROVE IInv'
  BY <1>1, PollStep, PassOverStep, LookStep, MakeRequestStep, RecordStep,
     NoWalletStep, BreakStep DEF Handle
<1>2. CASE UNCHANGED vars
  BY <1>2 DEF vars, IInv, TypeOK, CreditedWithRow, ListsConfirmed, OneActive, ListClosed,
              HandledFresh, RequestsMatch, QuietLeavesNothing, Active, Asked, Confirmed,
              Recorded, Reachable, New
<1>3. QED
  BY <1>1, <1>2, BlockStep, DecideStep DEF Next

LEMMA AlwaysIInv == Spec => []IInv
BY InitIInv, NextIInv, PTL DEF Spec

-----------------------------------------------------------------------------
(* What follows *)

\* Every reachable state is well typed.
THEOREM DepositsTypeCorrect == Spec => []TypeOK
<1>1. IInv => TypeOK
  BY DEF IInv
<1>2. QED
  BY <1>1, AlwaysIInv, PTL

\* However many polls overlap and wherever they crash, a transfer is credited
\* exactly when its row says so, and once (processTx).
THEOREM CreditsFollowRows == Spec => []CreditedWithRow
<1>1. IInv => CreditedWithRow
  BY DEF IInv
<1>2. QED
  BY <1>1, AlwaysIInv, PTL

\* Polls that are quiet (neither overlap nor break off, have all of TronGrid's answer, and
\* meet no member without a wallet) can always still reach what they have not recorded,
\* in whatever order TronGrid lists it (pollPlatform).
THEOREM QuietPollsLeaveNothing == Spec => []QuietLeavesNothing
<1>1. IInv => QuietLeavesNothing
  BY DEF IInv
<1>2. QED
  BY <1>1, AlwaysIInv, PTL

\* Polls that neither overlap nor break off handle a transfer once (processTx).
THEOREM QuietPollsHandleOnce == Spec => []QuietHandledOnce
<1>1. IInv => QuietHandledOnce
  <2> SUFFICES ASSUME IInv, quiet, NEW t \in Transfer
               PROVE  credited[t] + granted[t] + waiting[t] <= 1
    BY DEF QuietHandledOnce, HandledOnce
  <2>1. /\ credited[t] \in Nat /\ granted[t] \in Nat /\ waiting[t] \in Nat
        /\ credited[t] = IF row[t] = "AUTO_CREDITED" THEN 1 ELSE 0
    BY DEF IInv, TypeOK, CreditedWithRow
  <2>2. waiting[t] + granted[t] <= 1
    BY DEF IInv, RequestsMatch
  <2>3. Asked(t) => row[t] = "none"
    BY DEF IInv, Asked, HandledFresh, Recorded
  <2>4. row[t] = "AUTO_CREDITED" => waiting[t] + granted[t] = 0
    BY <2>3 DEF IInv, RequestsMatch
  <2>5. QED
    BY <2>1, <2>2, <2>4
<1>2. QED
  BY <1>1, AlwaysIInv, PTL

=============================================================================
