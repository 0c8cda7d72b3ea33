-------------------------- MODULE MCSportsReservation --------------------------
(***************************************************************************)
(* Instances of SportsReservation for TLC.  As in MCCasinoCallback one run *)
(* covers callbacks that are handled one after the other (serial) and      *)
(* callbacks that overlap; besides, in some runs all changes name their    *)
(* bet by its transaction (byTransaction).                                 *)
(***************************************************************************)
EXTENDS SportsReservation, FiniteSetsExt, TLC

CONSTANT MaxOverlapping   \* how many transactions there may be when callbacks overlap

VARIABLES serial, byTransaction

mcvars == <<vars, serial, byTransaction>>

MCInit == Init /\ serial \in BOOLEAN /\ byTransaction \in BOOLEAN

\* May c take a step?
MayStep(c) == serial => \A d \in Conn \ {c} : conn[d] = Idle

\* The transactions a callback being handled is about.
About(pending) == IF pending.op \in {"idle", "order"} THEN {} ELSE {pending.tid, pending.bet}

Known == {t \in Tid : Exists(t)} \cup UNION {About(conn[c]) : c \in Conn}

\* Overlapping callbacks share fewer transactions than serial ones.
FewTransactions == serial \/ Cardinality(Known) <= MaxOverlapping

\* Is no callback looking for its bet by request?
NamesTransaction ==
    \A c \in Conn : conn[c].op = "change" /\ conn[c].place = NoPlace => ~OnReservation(conn[c].bet)

MCNext ==
    /\ \/ \E rid \in Rid : Reserve(rid) \/ Confirm(rid)
       \/ \E c \in Conn : MayStep(c) /\ (Find(c) \/ Read(c) \/ Commit(c) \/ Abort(c))
    /\ UNCHANGED <<serial, byTransaction>>
    /\ FewTransactions'
    /\ serial /\ byTransaction => NamesTransaction'

MCSpec == MCInit /\ [][MCNext]_mcvars

\* Handled one after the other, callbacks leave the balance there was plus what
\* the ledger says (LedgerEntry in schema.prisma).
SerialReconciles == serial => Reconciles

\* What transaction t adds to the bets on reservation r.
Counted(t, r) == IF OnReservation(t) /\ actual[t].place[1] = r THEN actual[t].amount ELSE 0

BetsOn(r) == SumFunction([t \in Tid |-> Counted(t, r)])

\* Handled one after the other, the bets on a reservation add up to what counts
\* as consumed, so that they stay within the reservation (vinus.service.ts:1055).
SerialConsumedIsSum == serial => \A r \in Rid : reservation[r].consumed = BetsOn(r)

\* Handled one after the other and with every change naming its bet by its
\* transaction, a bet that was neither refunded nor cancelled has cost its stake, and
\* its two rows agree (sportsBetChangeProd).
SerialBetsCostTheirStake == serial /\ byTransaction => BetsCostTheirStake

\* One result pays, one takes.
SomePayouts == {-2, 3}

\* Callbacks, transaction ids and request ids are interchangeable.
Symmetry == Permutations(Conn) \cup Permutations(Tid) \cup Permutations(ReqId)

=============================================================================
