----------------------------- MODULE MCOddsStream -----------------------------
(***************************************************************************)
(* Instances of OddsStream for TLC.  One run covers two situations: in one *)
(* every message says the sport of its event, in the other it need not.    *)
(* What holds of the first alone is stated with allTell as its premise.    *)
(***************************************************************************)
EXTENDS OddsStream

CONSTANTS
    MaxUntold,     \* how many messages there are when not all say their sport
    MaxTroubles    \* how often in all a socket ends, a resync is asked for, the
                   \* process restarts or an administrator interferes

VARIABLES allTell, troubles

mcvars == <<vars, allTell, troubles>>

\* Each event has a sport of its own, named like it.
OwnSport == [e \in Event |-> e]

MCInit == Init /\ allTell \in BOOLEAN /\ troubles = 0

Ordinary ==
    \/ \E m \in Message : (IF allTell THEN m.tells ELSE Len(feed) < MaxUntold) /\ Publish(m)
    \/ \E k \in Socket : Open(k) \/ handleMessage(k) \/ (~sock[k].listening /\ Close(k))
    \/ Reconnect
    \/ ~allTell /\ (Promote \/ \E s \in Sport : Learn(s))

Trouble ==
    \/ \E k \in Socket : Resync(k) \/ (sock[k].listening /\ Close(k))
    \/ Restart
    \/ reconnectNow
    \/ \E chosen \in SUBSET Sport, automatic \in BOOLEAN : applyConfig(chosen, automatic)

MCNext ==
    /\ UNCHANGED allTell
    /\ \/ Ordinary /\ UNCHANGED troubles
       \/ troubles < MaxTroubles /\ Trouble /\ troubles' = troubles + 1

\* Timers fire, a handshake ends, a dropped socket is closed, and what the
\* vendor sends arrives.
Fairness ==
    /\ WF_mcvars(Reconnect /\ UNCHANGED <<allTell, troubles>>)
    /\ \A k \in Socket :
        /\ WF_mcvars((Open(k) \/ handleMessage(k)) /\ UNCHANGED <<allTell, troubles>>)
        /\ WF_mcvars(~sock[k].listening /\ Close(k) /\ UNCHANGED <<allTell, troubles>>)

MCSpec == MCInit /\ [][MCNext]_mcvars /\ Fairness

\* When every message says its sport, the client implements the board: no message
\* is passed over that would change what is shown, across reconnects, resyncs and
\* changes of the configuration (stateMap of OddsApiWsService), so that the board
\* shows the last message received about each pair (OddsBoard, ShowsLast).
ImplementsBoard == (allTell => Board!Init) /\ [][allTell => Board!Next]_(Board!vars)

Wanted == auto /\ sports # {}

CaughtUp == ws # NoSocket /\ sock[ws].state = "open" /\ Pending(ws) = {}

\* A client that is to be connected will have received all the vendor has sent
\* to it, whatever broke in between (scheduleReconnect and the seq in buildUrl).
EventuallyCaughtUp == Wanted ~> (CaughtUp \/ ~Wanted)

=============================================================================
