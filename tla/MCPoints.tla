------------------------------- MODULE MCPoints -------------------------------
(***************************************************************************)
(* Instances of Points for TLC.  One run covers two situations: in one     *)
(* transactions are carried out one after the other (serial), in the other *)
(* they overlap.                                                           *)
(***************************************************************************)
EXTENDS Points, TLC

CONSTANTS
    Referring1, Referred1,   \* the members: one has referred the other
    MaxSerial,               \* how many transactions there are one after the other
    MaxOverlapping           \* and how many that may overlap

VARIABLES serial, started

mcvars == <<vars, serial, started>>

MCReferrer == [u \in Member |-> IF u = Referred1 THEN Referring1 ELSE Nobody]

MCInit == Init /\ serial \in BOOLEAN /\ started = 0

MayStart(c) ==
    IF serial THEN started < MaxSerial /\ \A d \in Conn : conn[d] = Idle
    ELSE started < MaxOverlapping

MCNext ==
    /\ UNCHANGED serial
    /\ \/ NextDay /\ (serial => \A c \in Conn : conn[c] = Idle) /\ UNCHANGED started
       \/ \E c \in Conn : Proceed(c) /\ UNCHANGED started
       \/ \E c \in Conn : MayStart(c) /\ (Start(c) \/ ReadAll(c)) /\ started' = started + 1
       \/ \E e \in Event : Ignore(e) /\ UNCHANGED started

MCSpec == MCInit /\ [][MCNext]_mcvars

\* One after the other, points and money are what the ledgers say (PointLedgerEntry
\* and LedgerEntry).
SerialReconciles == serial => Reconciles

\* One after the other, a member attends once a day (attend).
SerialAttendedOnce == serial => AttendedOnce

Symmetry == Permutations(Conn) \cup Permutations(Deposits) \cup Permutations(Key)

=============================================================================
