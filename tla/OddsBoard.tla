------------------------------- MODULE OddsBoard -------------------------------
(***************************************************************************)
(* What a reader of the live odds is promised.  Messages about pairs of an *)
(* event and a bookmaker arrive in the order of the feed; the board shows  *)
(* for a pair the last message taken about it, or nothing.  A message may  *)
(* be passed over only while the board shows nothing about its pair, a     *)
(* pair may be dropped at any time, and so may the whole board.            *)
(***************************************************************************)
EXTENDS Integers, Sequences

CONSTANT Message      \* records with at least the fields type, event and bookie

VARIABLES
    feed,             \* the messages sent so far; the n-th has seq n
    seen,             \* seq of the last message taken
    board             \* seq of the message shown about each pair; 0 when there is none

vars == <<feed, seen, board>>

PairOf(m) == <<m.event, m.bookie>>

Pair == {PairOf(m) : m \in Message}

Empty == [p \in Pair |-> 0]

\* What message n leaves on the board.
Shows(n) == IF feed[n].type = "deleted" THEN 0 ELSE n

-----------------------------------------------------------------------------

Init == feed = <<>> /\ seen = 0 /\ board = Empty

Publish(m) == feed' = Append(feed, m) /\ UNCHANGED <<seen, board>>

\* Message n is next; with it the board may drop any pairs.
Take(n) ==
    /\ n \in (seen + 1)..Len(feed)
    /\ \A k \in (seen + 1)..(n - 1) : board[PairOf(feed[k])] = 0
    /\ seen' = n
    /\ \E dropped \in SUBSET Pair :
           board' = [p \in Pair |-> IF p \in dropped THEN 0
                                    ELSE IF p = PairOf(feed[n]) THEN Shows(n) ELSE board[p]]
    /\ UNCHANGED feed

Reset == seen' = 0 /\ board' = Empty /\ UNCHANGED feed

Next ==
    \/ \E m \in Message : Publish(m)
    \/ \E n \in (seen + 1)..Len(feed) : Take(n)
    \/ Reset

Spec == Init /\ [][Next]_vars

-----------------------------------------------------------------------------

\* No message up to n is later about p than message k is.
IsLast(k, p, n) ==
    /\ k \in 1..n
    /\ PairOf(feed[k]) = p
    /\ \A j \in (k + 1)..n : PairOf(feed[j]) # p

\* What the board shows about a pair is the last message about it, and that
\* message is not a deletion (stateMap of OddsApiWsService).
ShowsLast ==
    \A p \in Pair :
        board[p] # 0 => IsLast(board[p], p, seen) /\ feed[board[p]].type # "deleted"

=============================================================================
