--------------------------- MODULE MCCompSettlement ---------------------------
(***************************************************************************)
(* Instances of CompSettlement for TLC.  One run covers two situations: in *)
(* one settlements follow each other and the policy changes (serial), in   *)
(* the other settlements overlap on fewer days.                            *)
(***************************************************************************)
EXTENDS CompSettlement, TLC

CONSTANTS
    MaxInputs,      \* requests, settlements by hand, changes of the policy and boots
    MaxFailures,    \* how many settlements and synchronisations break off
    OverlapDays     \* how many days there are when settlements overlap

VARIABLES serial, inputs, failures

mcvars == <<vars, serial, inputs, failures>>

MCInit == Init /\ serial \in BOOLEAN /\ inputs = 0 /\ failures = 0

\* A withdrawal and deposits.
Amounts == {-1, 1, 2}

\* One after the other, settlements need not be told apart.
First == CHOOSE r \in Run : TRUE

MayStart(r) == serial => r = First

\* The sweep of a day starts and ends on that day.
Punctual == ~(job /\ policy = "auto" /\ fired < day) /\ \A r \in Run : run[r] = Idle

Input ==
    \/ \E m \in Member, amount \in Amounts : Approve(m, amount)
    \/ \E r \in Run, p \in Period : MayStart(r) /\ p[1] <= day /\ Manual(r, p)
    \/ serial /\ \E s \in Sync : Boot(s) \/ \E p \in Policy \ {policy} : SetPolicy(s, p)

Failure == (\E r \in Run : Abort(r)) \/ (\E s \in Sync : SyncFails(s))

Pass == Tick /\ (IF serial THEN Punctual ELSE day < OverlapDays)

Ordinary ==
    \/ Pass \/ EndApproval \/ Fire(First)
    \/ \E r \in Run : Settle(r)
    \/ \E s \in Sync : Synchronise(s)

MCNext ==
    /\ UNCHANGED serial
    /\ \/ Ordinary /\ UNCHANGED <<inputs, failures>>
       \/ inputs < MaxInputs /\ Input /\ inputs' = inputs + 1 /\ UNCHANGED failures
       \/ failures < MaxFailures /\ Failure /\ failures' = failures + 1 /\ UNCHANGED inputs

\* Days pass, the job is started when it is due, and a settlement goes on.
Fairness ==
    /\ WF_mcvars(Pass /\ UNCHANGED <<serial, inputs, failures>>)
    /\ WF_mcvars((Fire(First) \/ Settle(First)) /\ UNCHANGED <<serial, inputs, failures>>)

MCSpec == MCInit /\ [][MCNext]_mcvars /\ Fairness

\* Settled one after the other, the comps of a member are what the rows say
\* (compFree and CompSettlement in executeCompSettlement).
SerialCompIsRows == serial => CompIsRows

\* While the sweep is wanted and scheduled, every day is swept in the end, although
\* fewer sweeps than the days of a backfill break off (backfillDays).
SerialEventuallySwept ==
    serial /\ [](policy = "auto" /\ job)
        => \A d \in 1..(MaxDay - Offset - BackfillDays + 1) : <>(d \in swept)

=============================================================================
