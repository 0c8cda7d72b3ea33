--------------------------- MODULE MCWalletRequests ---------------------------
(***************************************************************************)
(* Instances of WalletRequests for TLC.  One run covers two situations: in *)
(* one the transactions run one after the other (serial), in the other     *)
(* they overlap, and text messages arrive.  What holds of the first alone  *)
(* is stated with serial as its premise.                                   *)
(***************************************************************************)
EXTENDS WalletRequests, TLC

CONSTANT MaxOverlapping   \* how many requests there may be when transactions overlap

VARIABLE serial

mcvars == <<vars, serial>>

MCInit == Init /\ serial \in BOOLEAN

\* May c take a step?
MayStep(c) == serial => \A d \in Conn \ {c} : conn[d] = Idle

\* Messages arrive when transactions overlap.
NoMessage == \A s \in Sms : smsRow[s] = "none" /\ \A c \in Conn : conn[c].op # "match"

\* Overlapping transactions share fewer requests than serial ones.
FewRequests == serial \/ \A r \in Req : r > MaxOverlapping => request'[r].status = "NONE"

MCNext ==
    /\ \/ \E c \in Conn : MayStep(c) /\ Step(c)
       \/ \E r \in Req : HourPasses(r)
       \/ \E s \in Sms : Store(s)
    /\ FewRequests
    /\ UNCHANGED serial
    /\ serial => NoMessage'

MCSpec == MCInit /\ [][MCNext]_mcvars

\* One after the other, requests and bets leave the member with the money there
\* was plus what the ledger says (approve, LedgerEntry in schema.prisma).
SerialReconciles == serial => LedgerReconciles

\* One after the other, an approved request has moved its money once and no
\* other request has moved any (approve, reject, cancelMine).
SerialStatusTellsMoney == serial => StatusTellsMoney

\* One after the other, two deposits of the last hour never wait at once
\* (createForUser).
SerialOneRecentDeposit == serial => OneRecentDeposit

\* Transactions are interchangeable, and so are text messages.
Symmetry == Permutations(Conn) \cup Permutations(Sms)

=============================================================================
