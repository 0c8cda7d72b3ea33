------------------------------ MODULE OddsStream ------------------------------
(***************************************************************************)
(* The client of the live odds (odds-api-ws.service.ts): one websocket to  *)
(* the vendor, reconnected with the seq of the last message, and in memory *)
(* the latest message by sport, event and bookmaker.  A message need not   *)
(* say the sport of its event; the client then asks what it has learned    *)
(* before, and files the message under "unknown" until a refresh of the    *)
(* vendor's lists of events tells.                                         *)
(*                                                                         *)
(* The handlers of a socket run one at a time, but a socket that was       *)
(* dropped lives on until the vendor has closed it, and a refresh waits    *)
(* between its steps.  API key, markets, bookmakers and status filter are  *)
(* there; delays, counters and the enrichment with team names are left     *)
(* out.  An entry is represented by the seq of its message.                *)
(***************************************************************************)
EXTENDS Integers, Sequences, FiniteSets

CONSTANTS
    Event, Bookie, Sport,
    SportOf,     \* the sport of each event
    Socket,      \* sockets there may be at once
    NoSocket,    \* there is no current one
    EnvSports,   \* ODDS_API_WS_SPORTS
    EnvAuto,     \* ODDS_API_WS_AUTOCONNECT
    MaxSeq,      \* bound on the messages the vendor sends
    MaxEntries,  \* how many entries are kept (1500)
    Evicted,     \* how many of the oldest go when there are more (200)
    MaxCached,   \* of how many events the sport is remembered (5000)
    Forgotten    \* how many of them are forgotten when there are more (1000)

Unknown == "unknown"

ASSUME StreamAssumption ==
    /\ SportOf \in [Event -> Sport]
    /\ Unknown \notin Sport
    /\ NoSocket \notin Socket
    /\ EnvSports \subseteq Sport
    /\ EnvAuto \in BOOLEAN
    /\ MaxSeq \in Nat

Message ==
    [type: {"updated", "no_markets", "deleted"}, event: Event, bookie: Bookie, tells: BOOLEAN]

Place == Sport \cup {Unknown}

Key == Place \X Event \X Bookie

VARIABLES
    feed,        \* the messages the vendor has sent; the n-th has seq n
    sports,      \* the sports subscribed to
    auto,        \* autoConnectEnabled
    ws,          \* the current socket
    timer,       \* a reconnect is scheduled
    sock,        \* each socket with the vendor's session on it
    lastSeq,     \* the highest seq received
    shown,       \* stateMap: seq of the message at each key; 0 when there is none
    cached,      \* events whose sport is in eventSportCache
    listed       \* events in sportEventSets

memory == <<lastSeq, shown, cached>>
vars == <<feed, sports, auto, ws, timer, sock, lastSeq, shown, cached, listed>>

-----------------------------------------------------------------------------

Unused == [state |-> "none", listening |-> FALSE, from |-> 0, sports |-> {}, next |-> 0]

\* next is the seq from which the vendor has not sent anything yet.
Session ==
    [state: {"none", "connecting", "open", "closing"}, listening: BOOLEAN,
     from: Nat, sports: SUBSET Sport, next: Nat]

TypeOK ==
    /\ feed \in Seq(Message)
    /\ sports \in SUBSET Sport
    /\ auto \in BOOLEAN
    /\ ws \in Socket \cup {NoSocket}
    /\ timer \in BOOLEAN
    /\ sock \in [Socket -> Session]
    /\ lastSeq \in Nat
    /\ shown \in [Key -> Nat]
    /\ cached \in SUBSET Event
    /\ listed \in SUBSET Event

Nothing == [key \in Key |-> 0]

-----------------------------------------------------------------------------
(* Sockets. *)

\* Mutant: the listeners of the old socket stay.
DroppedListening ==
    IF ws = NoSocket THEN sock ELSE [sock EXCEPT ![ws] = [@ EXCEPT !.state = "closing"]]

\* disconnect: the current socket closes, and nobody listens to it any more.
Dropped ==
    IF ws = NoSocket THEN sock
    ELSE [sock EXCEPT ![ws] = [@ EXCEPT !.state = "closing", !.listening = FALSE]]

\* connect, with the sockets s: a new one takes the place of the current one.
Dial(s, chosen, from) ==
    \E k \in Socket :
        /\ s[k].state = "none"
        /\ ws' = k
        /\ sock' = [s EXCEPT ![k] = [state |-> "connecting", listening |-> TRUE,
                                     from |-> from, sports |-> chosen, next |-> 0]]

\* The vendor accepts: it goes on after the given seq, or starts with what comes.
Open(k) ==
    /\ sock[k].state = "connecting"
    /\ sock' = [sock EXCEPT
           ![k] = [@ EXCEPT !.state = "open",
                            !.next = IF sock[k].from > 0 THEN sock[k].from + 1 ELSE Len(feed) + 1]]
    /\ UNCHANGED <<feed, sports, auto, ws, timer, memory, listed>>

\* Mutant: no reconnect when the socket closes.
CloseOnly(k) ==
    /\ sock[k].state # "none"
    /\ sock' = [sock EXCEPT ![k] = Unused]
    /\ ws' = IF sock[k].listening THEN NoSocket ELSE ws
    /\ UNCHANGED <<feed, sports, auto, timer, memory, listed>>

\* A socket ends, the handshake fails, or a dropped socket is gone.
Close(k) ==
    /\ sock[k].state # "none"
    /\ sock' = [sock EXCEPT ![k] = Unused]
    /\ IF sock[k].listening
       THEN ws' = NoSocket /\ timer' = (timer \/ (auto /\ sports # {}))
       ELSE UNCHANGED <<ws, timer>>
    /\ UNCHANGED <<feed, sports, auto, memory, listed>>

\* The timer of scheduleReconnect.
Reconnect ==
    /\ timer
    /\ timer' = FALSE
    /\ IF ws # NoSocket /\ sock[ws].state \in {"connecting", "open"}
       THEN UNCHANGED <<ws, sock>>
       ELSE Dial(sock, sports, lastSeq)
    /\ UNCHANGED <<feed, sports, auto, memory, listed>>

-----------------------------------------------------------------------------
(* Messages. *)

\* Where a message is filed.
guessSport(m) ==
    IF m.tells \/ m.event \in cached \/ m.event \in listed \/ sports = {SportOf[m.event]}
    THEN SportOf[m.event]
    ELSE Unknown

Entries(s) == {key \in Key : s[key] # 0}

\* The entries of s that stay: all, or those that Evicted others are older than.
Kept(s) ==
    IF Cardinality(Entries(s)) <= MaxEntries THEN s
    ELSE [key \in Key |->
             IF Cardinality({j \in Entries(s) : s[j] < s[key]}) >= Evicted THEN s[key] ELSE 0]

\* The messages the vendor has yet to send to k.
Pending(k) == {n \in sock[k].next..Len(feed) : SportOf[feed[n].event] \in sock[k].sports}

\* The entries once message n has been filed under key.
Filed(key, n) ==
    CASE feed[n].type = "deleted" -> [shown EXCEPT ![key] = 0]
      [] feed[n].type = "no_markets" -> [shown EXCEPT ![key] = n]
      [] OTHER -> Kept([shown EXCEPT ![key] = n])

\* The events whose sport is remembered once m was filed.  When there are too many
\* the first remembered go; their order is left open.
Remembered(place, m) ==
    LET known == IF place = Unknown THEN cached ELSE cached \cup {m.event} IN
    IF m.type = "updated" /\ Cardinality(known) > MaxCached
    THEN {known \ gone : gone \in {g \in SUBSET known : Cardinality(g) = Forgotten}}
    ELSE {known}

\* Mutant: of the messages that wait only the latest is handled.
handleLatest(k) ==
    /\ sock[k].state \in {"open", "closing"}
    /\ sock[k].listening
    /\ \E n \in Pending(k) :
           LET place == guessSport(feed[n]) IN
           /\ \A j \in Pending(k) : n >= j
           /\ sock' = [sock EXCEPT ![k].next = n + 1]
           /\ lastSeq' = IF n > lastSeq THEN n ELSE lastSeq
           /\ shown' = Filed(<<place, feed[n].event, feed[n].bookie>>, n)
           /\ cached' \in Remembered(place, feed[n])
    /\ UNCHANGED <<feed, sports, auto, ws, timer, listed>>

\* handleMessage, for the next message on socket k.
handleMessage(k) ==
    /\ sock[k].state \in {"open", "closing"}
    /\ sock[k].listening
    /\ \E n \in Pending(k) :
           LET place == guessSport(feed[n]) IN
           /\ \A j \in Pending(k) : n <= j
           /\ sock' = [sock EXCEPT ![k].next = n + 1]
           /\ lastSeq' = IF n > lastSeq THEN n ELSE lastSeq
           /\ shown' = Filed(<<place, feed[n].event, feed[n].bookie>>, n)
           /\ cached' \in Remembered(place, feed[n])
    /\ UNCHANGED <<feed, sports, auto, ws, timer, listed>>

\* Mutant: the client asks for the last message once more.
ResyncBehind(k) ==
    /\ sock[k].state = "open" /\ sock[k].listening
    /\ lastSeq' = lastSeq - 1 /\ shown' = Nothing /\ cached' = {}
    /\ sock' = Dropped
    /\ ws' = NoSocket
    /\ timer' = auto
    /\ UNCHANGED <<feed, sports, auto, listed>>

\* The vendor cannot go on where the client left off.
Resync(k) ==
    /\ sock[k].state = "open" /\ sock[k].listening
    /\ lastSeq' = 0 /\ shown' = Nothing /\ cached' = {}
    /\ sock' = Dropped
    /\ ws' = NoSocket
    /\ timer' = auto
    /\ UNCHANGED <<feed, sports, auto, listed>>

-----------------------------------------------------------------------------
(* Refreshes of what is known about the sports of events. *)

\* A refresh has the vendor's list of one sport; it may have been started for
\* other sports than those subscribed to now.
Learn(s) ==
    /\ \E some \in SUBSET {e \in Event : SportOf[e] = s} :
           listed' = {e \in listed : SportOf[e] # s} \cup some
    /\ UNCHANGED <<feed, sports, auto, ws, timer, sock, memory>>

\* The entries a refresh can now file.
Promoted ==
    {key \in Entries(shown) :
        key[1] = Unknown /\ key[2] \in listed /\ SportOf[key[2]] \in sports}

\* A refresh ends: what was filed as unknown moves to its sport.
Promote ==
    /\ Promoted # {}
    /\ shown' = [key \in Key |->
           LET old == <<Unknown, key[2], key[3]>> IN
           IF key \in Promoted THEN 0
           ELSE IF key[1] = SportOf[key[2]] /\ old \in Promoted THEN shown[old]
           ELSE shown[key]]
    /\ cached' = cached \cup {key[2] : key \in Promoted}
    /\ UNCHANGED <<feed, sports, auto, ws, timer, sock, lastSeq, listed>>

-----------------------------------------------------------------------------
(* Administration. *)

\* Connect unless there is nothing to connect to.
DialIf(wanted, s, chosen, from) ==
    IF wanted THEN Dial(s, chosen, from) ELSE ws' = NoSocket /\ sock' = s

\* Anything that changes the configuration starts from nothing.
applyConfig(chosen, automatic) ==
    /\ sports' = chosen /\ auto' = automatic
    /\ lastSeq' = 0 /\ shown' = Nothing /\ cached' = {}
    /\ timer' = FALSE
    /\ DialIf(automatic /\ chosen # {}, Dropped, chosen, 0)
    /\ UNCHANGED <<feed, listed>>

reconnectNow ==
    /\ timer' = FALSE
    /\ DialIf(sports # {}, Dropped, sports, lastSeq)
    /\ UNCHANGED <<feed, sports, auto, memory, listed>>

\* The process starts again, with the environment's configuration.
Restart ==
    /\ sports' = EnvSports /\ auto' = EnvAuto
    /\ lastSeq' = 0 /\ shown' = Nothing /\ cached' = {} /\ listed' = {}
    /\ timer' = FALSE
    /\ DialIf(EnvAuto /\ EnvSports # {}, [k \in Socket |-> Unused], EnvSports, 0)
    /\ UNCHANGED feed

\* The vendor has news.
Publish(m) ==
    /\ Len(feed) < MaxSeq
    /\ feed' = Append(feed, m)
    /\ UNCHANGED <<sports, auto, ws, timer, sock, memory, listed>>

-----------------------------------------------------------------------------

Init ==
    /\ feed = <<>>
    /\ sports = EnvSports /\ auto = EnvAuto
    /\ lastSeq = 0 /\ shown = Nothing /\ cached = {} /\ listed = {}
    /\ timer = FALSE
    /\ LET none == [k \in Socket |-> Unused] IN
       IF EnvAuto /\ EnvSports # {}
       THEN \E k \in Socket :
                /\ ws = k
                /\ sock = [none EXCEPT ![k] = [Unused EXCEPT !.state = "connecting",
                              !.listening = TRUE, !.sports = EnvSports]]
       ELSE ws = NoSocket /\ sock = none

Next ==
    \/ \E m \in Message : Publish(m)
    \/ \E k \in Socket : Open(k) \/ Close(k) \/ handleMessage(k) \/ Resync(k)
    \/ Reconnect
    \/ \E s \in Sport : Learn(s)
    \/ Promote
    \/ \E chosen \in SUBSET Sport, automatic \in BOOLEAN : applyConfig(chosen, automatic)
    \/ reconnectNow
    \/ Restart

Spec == Init /\ [][Next]_vars

-----------------------------------------------------------------------------

\* Whatever closes, breaks or is reconfigured, only the current socket is
\* listened to, and while there is one no reconnect is waiting (connect,
\* disconnect and scheduleReconnect).
OneListener ==
    /\ \A k \in Socket : sock[k].listening <=> k = ws
    /\ timer => ws = NoSocket /\ sports # {}

\* The entries about a pair, under whatever sport.
About(event, bookie) == {key \in Entries(shown) : key[2] = event /\ key[3] = bookie}

\* The one message shown about a pair; 0 when there is none.
ShownAbout(event, bookie) ==
    IF About(event, bookie) = {} THEN 0
    ELSE shown[CHOOSE key \in About(event, bookie) : TRUE]

Board == INSTANCE OddsBoard WITH
    seen <- lastSeq,
    board <- [p \in Event \X Bookie |-> ShownAbout(p[1], p[2])]

\* There is one entry about a pair, and it shows the last message received about
\* it (the comment on stateMap, odds-api-ws.service.ts:24).
ShowsLatest ==
    /\ \A event \in Event, bookie \in Bookie : Cardinality(About(event, bookie)) <= 1
    /\ Board!ShowsLast

=============================================================================
