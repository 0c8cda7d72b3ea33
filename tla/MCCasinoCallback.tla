--------------------------- MODULE MCCasinoCallback ---------------------------
(***************************************************************************)
(* Instances of CasinoCallback for TLC.  One run covers two situations: in *)
(* one the callbacks are handled one after the other (serial), in the      *)
(* other they overlap.  What holds of the first alone is stated with       *)
(* serial as its premise.                                                  *)
(***************************************************************************)
EXTENDS CasinoCallback, TLC

CONSTANT MaxOverlapping   \* how many transactions there may be when callbacks overlap

VARIABLE serial

mcvars == <<vars, serial>>

MCInit == Init /\ serial \in BOOLEAN

\* May c take a step?
MayStep(c) == serial => \A d \in Conn \ {c} : conn[d] = Idle

\* The transactions a callback being handled is about.
About(pending) ==
    CASE pending.op = "idle" -> {}
      [] pending.op = "post" -> {pending.tid}
      [] OTHER -> {pending.tid, pending.refundTid}

Known == {t \in Tid : Exists(t)} \cup UNION {About(conn[c]) : c \in Conn}

\* Overlapping callbacks share fewer transactions than serial ones.
FewTransactions == serial \/ Cardinality(Known) <= MaxOverlapping

MCNext ==
    /\ \/ \E c \in Conn : MayStep(c) /\ (Post(c) \/ Undo(c) \/ Abort(c))
       \/ \E tid \in Tid : Confirm(tid)
    /\ UNCHANGED serial
    /\ FewTransactions'

MCSpec == MCInit /\ [][MCNext]_mcvars

\* Handled one after the other, callbacks leave the wallet with the money there
\* was plus what the ledger says (LedgerEntry in schema.prisma).
SerialReconciles == serial => LedgerReconciles

\* Handled one after the other, a bet spends the free amounts before the locked
\* ones and takes exactly its stake (deductStake).
SerialSpendingOrder == [][serial => SpendingOrderStep]_vars

\* Callbacks and transaction ids are interchangeable.
Symmetry == Permutations(Conn) \cup Permutations(Tid)

=============================================================================
