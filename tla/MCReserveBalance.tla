--------------------------- MODULE MCReserveBalance ---------------------------
(***************************************************************************)
(* Instances of ReserveBalance for TLC.  One run covers two situations: in *)
(* one the transactions are carried out one after the other (serial), in   *)
(* the other they overlap, with smaller amounts, and the head office takes *)
(* no credit back.                                                         *)
(***************************************************************************)
EXTENDS ReserveBalance, TLC

CONSTANTS
    SmallAmount,   \* the amount of events that overlap
    SmallGranted   \* bound on the credit granted while transactions overlap

VARIABLE serial

mcvars == <<vars, serial>>

MCInit == Init /\ serial \in BOOLEAN

\* May t take a step?
MayStep(t) == serial => \A u \in Tx \ {t} : tx[u] = Idle

\* Overlapping events have one amount.
Small ==
    /\ granted <= SmallGranted
    /\ \A t \in Tx : tx[t].op = "mutate" =>
          \A leg \in {tx[t].row} \cup tx[t].rest : leg.base \in {SmallAmount, -SmallAmount}

MCNext ==
    /\ \/ \E t \in Tx :
             /\ MayStep(t)
             /\ \/ Mutate(t) \/ ReadCreditRequest(t) \/ CommitCreditRequest(t) \/ Abort(t)
                \/ serial /\ (ReadRecover(t) \/ CommitRecover(t))
       \/ \E r \in Request : CreateCreditRequest(r)
       \/ \E enabled \in BOOLEAN : SetEnabled(enabled) \/ SetRestoreEnabled(enabled)
    /\ UNCHANGED serial
    /\ serial \/ Small'

MCSpec == MCInit /\ [][MCNext]_mcvars

\* One after the other, the balance is what was granted plus what the log says was
\* moved, so that it can be recomputed from PlatformReserveLog.
SerialReconciles == serial => ReconcilesWithLog

\* Connections, events and requests are interchangeable.
Symmetry == Permutations(Tx) \cup Permutations(Event) \cup Permutations(Request)

=============================================================================
