--------------------------- MODULE OddsStreamProofs ---------------------------
(***************************************************************************)
(* Theorems about OddsStream, for any events, sports, bookmakers, sockets  *)
(* and limits: types, that whatever breaks or is reconfigured the client   *)
(* listens to one socket, and that the board it is to implement shows the  *)
(* last message about each pair.                                           *)
(***************************************************************************)
EXTENDS MCOddsStream, FiniteSetTheorems, SequenceTheorems, TLAPS

-----------------------------------------------------------------------------
(* Sockets *)

\* Nobody listens to any of the sockets s.
Quiet(s) == \A k \in Socket : ~s[k].listening

\* The vendor starts an open session with some message.
Started(s) == \A k \in Socket : s[k].state = "open" => s[k].next > 0

\* Only the current socket is listened to, it is about to be or is open, and a
\* reconnect waits only when there is none.  While there is a socket or a timer
\* there are sports to subscribe to.
SocketInv ==
    /\ OneListener
    /\ Started(sock)
    /\ ws # NoSocket => sports # {} /\ sock[ws].state \in {"connecting", "open"}

IInv == TypeOK /\ SocketInv

\* A socket that is not used belongs to the sessions.
LEMMA UnusedType == Unused \in Session /\ ~Unused.listening /\ Unused.state = "none"
BY DEF Unused, Session

\* After disconnect nobody is listened to.
LEMMA DroppedQuiet ==
    ASSUME TypeOK, OneListener, Started(sock)
    PROVE  Dropped \in [Socket -> Session] /\ Quiet(Dropped) /\ Started(Dropped)
<1>1. CASE ws = NoSocket
  <2>1. Dropped = sock
    BY <1>1 DEF Dropped
  <2>2. \A k \in Socket : k # ws
    BY <1>1, StreamAssumption DEF StreamAssumption
  <2>3. QED
    BY <2>1, <2>2 DEF TypeOK, OneListener, Quiet, Started
<1>2. CASE ws # NoSocket
  <2> DEFINE r == [sock[ws] EXCEPT !.state = "closing", !.listening = FALSE]
  <2>1. ws \in Socket /\ sock[ws] \in Session
    BY <1>2 DEF TypeOK
  <2>2. r \in Session /\ r.listening = FALSE /\ r.state = "closing"
    BY <2>1 DEF Session
  <2>3. Dropped = [sock EXCEPT ![ws] = r]
    BY <1>2 DEF Dropped
  <2> HIDE DEF r
  <2>4. \A k \in Socket : Dropped[k] = IF k = ws THEN r ELSE sock[k]
    BY <2>1, <2>3 DEF TypeOK
  <2>5. QED
    BY <2>1, <2>2, <2>3, <2>4 DEF TypeOK, OneListener, Quiet, Started
<1>3. QED
  BY <1>1, <1>2

\* connect: the new socket is the one listened to.
LEMMA DialOne ==
    ASSUME NEW s \in [Socket -> Session], Quiet(s), Started(s),
           NEW chosen \in SUBSET Sport, NEW from \in Nat, Dial(s, chosen, from)
    PROVE  /\ ws' \in Socket /\ sock' \in [Socket -> Session]
           /\ \A k \in Socket : sock'[k].listening <=> k = ws'
           /\ sock'[ws'].state = "connecting" /\ Started(sock')
<1> DEFINE r == [state |-> "connecting", listening |-> TRUE,
                 from |-> from, sports |-> chosen, next |-> 0]
<1>1. PICK k \in Socket : ws' = k /\ sock' = [s EXCEPT ![k] = r]
  BY DEF Dial
<1>2. r \in Session /\ r.listening = TRUE /\ r.state = "connecting"
  BY DEF Session
<1> HIDE DEF r
<1>3. QED
  BY <1>1, <1>2 DEF Quiet, Started

\* connect, if there is something to connect to.
LEMMA DialIfOne ==
    ASSUME NEW s \in [Socket -> Session], Quiet(s), Started(s),
           NEW chosen \in SUBSET Sport, NEW from \in Nat, NEW wanted \in BOOLEAN,
           DialIf(wanted, s, chosen, from)
    PROVE  /\ ws' \in Socket \cup {NoSocket} /\ sock' \in [Socket -> Session]
           /\ \A k \in Socket : sock'[k].listening <=> k = ws'
           /\ ws' # NoSocket => wanted /\ sock'[ws'].state = "connecting"
           /\ Started(sock')
<1>1. CASE wanted
  BY <1>1, DialOne DEF DialIf
<1>2. CASE ~wanted
  <2>1. ws' = NoSocket /\ sock' = s
    BY <1>2 DEF DialIf
  <2>2. QED
    BY <2>1, StreamAssumption DEF Quiet, StreamAssumption
<1>3. QED
  BY <1>1, <1>2

\* What the invariant says of sockets once one of them has another session.
LEMMA OneSession ==
    ASSUME IInv, NEW k \in Socket, NEW r \in Session, r.listening <=> sock[k].listening,
           sock[k].state \in {"connecting", "open"} => r.state \in {"connecting", "open"},
           r.state = "open" => r.next > 0,
           sock' = [sock EXCEPT ![k] = r], UNCHANGED <<sports, ws, timer>>
    PROVE  sock' \in [Socket -> Session] /\ SocketInv'
<1>1. /\ sock' \in [Socket -> Session]
      /\ \A j \in Socket : sock'[j] = IF j = k THEN r ELSE sock[j]
  BY DEF IInv, TypeOK
<1>2. \A j \in Socket : sock'[j].listening <=> j = ws
  BY <1>1 DEF IInv, SocketInv, OneListener
<1>3. ws # NoSocket => sports # {} /\ sock'[ws].state \in {"connecting", "open"}
  BY <1>1 DEF IInv, SocketInv, TypeOK
<1>4. Started(sock')
  BY <1>1 DEF IInv, SocketInv, Started
<1>5. QED
  BY <1>1, <1>2, <1>3, <1>4 DEF IInv, SocketInv, OneListener

-----------------------------------------------------------------------------
(* Messages *)

\* Evicting entries leaves a map of entries.
LEMMA KeptType ==
    ASSUME NEW s \in [Key -> Nat]
    PROVE  Kept(s) \in [Key -> Nat]
BY DEF Kept

\* What a message files is a map of entries.
LEMMA FiledType ==
    ASSUME TypeOK, NEW key \in Key, NEW n \in Nat
    PROVE  Filed(key, n) \in [Key -> Nat]
<1>1. [shown EXCEPT ![key] = n] \in [Key -> Nat] /\ [shown EXCEPT ![key] = 0] \in [Key -> Nat]
  BY DEF TypeOK
<1>2. Kept([shown EXCEPT ![key] = n]) \in [Key -> Nat]
  BY <1>1, KeptType
<1>3. QED
  BY <1>1, <1>2 DEF Filed

\* What is remembered are events.
LEMMA RememberedType ==
    ASSUME TypeOK, NEW place \in Place, NEW m \in Message, NEW c \in Remembered(place, m)
    PROVE  c \in SUBSET Event
<1> DEFINE known == IF place = Unknown THEN cached ELSE cached \cup {m.event}
<1>1. known \subseteq Event
  BY DEF TypeOK, Message
<1>2. \/ c = known
      \/ \E gone \in SUBSET known : c = known \ gone
  BY DEF Remembered
<1>3. QED
  BY <1>1, <1>2

\* A message is filed under a sport or as unknown.
LEMMA GuessType ==
    ASSUME NEW m \in Message
    PROVE  guessSport(m) \in Place
BY StreamAssumption DEF guessSport, StreamAssumption, Place, Message

\* What the vendor has yet to send are messages of the feed.
LEMMA PendingType ==
    ASSUME TypeOK, NEW k \in Socket, NEW n \in Pending(k)
    PROVE  n \in Nat /\ n <= Len(feed) /\ (sock[k].next > 0 => feed[n] \in Message)
<1>1. sock[k].next \in Nat /\ Len(feed) \in Nat
  BY DEF TypeOK, Session
<1>2. n \in sock[k].next..Len(feed)
  BY DEF Pending
<1>3. QED
  BY <1>1, <1>2 DEF TypeOK

-----------------------------------------------------------------------------
(* The invariant *)

\* What connecting or not establishes.
LEMMA Connected ==
    ASSUME ws' \in Socket \cup {NoSocket}, sock' \in [Socket -> Session],
           \A k \in Socket : sock'[k].listening <=> k = ws',
           ws' # NoSocket => sports' # {} /\ sock'[ws'].state = "connecting",
           Started(sock'), timer' = FALSE
    PROVE  SocketInv'
BY DEF SocketInv, OneListener, Started

LEMMA InitInv == Init => IInv
<1> SUFFICES ASSUME Init PROVE IInv
  OBVIOUS
<1> DEFINE none == [k \in Socket |-> Unused]
           first == [Unused EXCEPT !.state = "connecting", !.listening = TRUE,
                                   !.sports = EnvSports]
<1>1. none \in [Socket -> Session] /\ \A k \in Socket : none[k] = Unused
  BY UnusedType
<1>2. first \in Session /\ first.listening = TRUE /\ first.state = "connecting"
  BY UnusedType, StreamAssumption DEF Session, StreamAssumption
<1>3. /\ ws \in Socket \cup {NoSocket} /\ sock \in [Socket -> Session]
      /\ \A k \in Socket : sock[k].listening <=> k = ws
      /\ ws # NoSocket => EnvSports # {} /\ sock[ws].state = "connecting"
      /\ Started(sock)
  <2>1. CASE EnvAuto /\ EnvSports # {}
    <3>1. PICK k \in Socket : ws = k /\ sock = [none EXCEPT ![k] = first]
      BY <2>1 DEF Init
    <3> HIDE DEF none, first
    <3>2. QED
      BY <1>1, <1>2, <2>1, <3>1, UnusedType DEF Started
  <2>2. CASE ~(EnvAuto /\ EnvSports # {})
    <3>1. ws = NoSocket /\ sock = none
      BY <2>2 DEF Init
    <3> HIDE DEF none
    <3>2. QED
      BY <1>1, <3>1, UnusedType, StreamAssumption DEF StreamAssumption, Started
  <2>3. QED
    BY <2>1, <2>2
<1>4. SocketInv
  BY <1>3 DEF Init, SocketInv, OneListener
<1>5. shown \in [Key -> Nat] /\ feed \in Seq(Message)
  BY DEF Init, Nothing
<1>6. TypeOK
  BY <1>3, <1>5, StreamAssumption DEF Init, TypeOK, StreamAssumption
<1>7. QED
  BY <1>4, <1>6 DEF IInv

\* Messages published are messages.
LEMMA PublishInv ==
    ASSUME IInv, NEW m \in Message, Publish(m)
    PROVE  IInv'
<1>1. feed' \in Seq(Message)
  BY DEF Publish, IInv, TypeOK
<1>2. QED
  BY <1>1 DEF Publish, memory, IInv, TypeOK, SocketInv, OneListener, Started

\* What a socket does.
LEMMA SocketStep ==
    ASSUME IInv, NEW k \in Socket, Open(k) \/ Close(k) \/ handleMessage(k) \/ Resync(k)
    PROVE  IInv'
<1>0. /\ TypeOK /\ OneListener /\ Started(sock) /\ SocketInv
      /\ sock[k] \in Session /\ sock[k].next \in Nat /\ sock[k].from \in Nat
      /\ Len(feed) \in Nat
  BY DEF IInv, SocketInv, TypeOK, Session
<1>1. CASE Open(k)
  <2> DEFINE start == IF sock[k].from > 0 THEN sock[k].from + 1 ELSE Len(feed) + 1
             r == [sock[k] EXCEPT !.state = "open", !.next = start]
  <2>1. start \in Nat /\ start > 0
    BY <1>0
  <2> HIDE DEF start
  <2>2. r \in Session /\ r.state = "open" /\ r.next > 0 /\ r.listening = sock[k].listening
    BY <1>0, <2>1 DEF Session
  <2>3. sock' = [sock EXCEPT ![k] = r] /\ UNCHANGED <<feed, sports, auto, ws, timer, memory, listed>>
    BY <1>1 DEF Open, start
  <2> HIDE DEF r
  <2>4. sock' \in [Socket -> Session] /\ SocketInv'
    BY <2>2, <2>3, OneSession
  <2>5. QED
    BY <1>0, <2>3, <2>4 DEF IInv, TypeOK, memory
<1>2. CASE Close(k)
  <2>1. /\ sock' = [sock EXCEPT ![k] = Unused]
        /\ UNCHANGED <<feed, sports, auto, memory, listed>>
    BY <1>2 DEF Close
  <2>2. /\ sock' \in [Socket -> Session]
        /\ \A j \in Socket : sock'[j] = IF j = k THEN Unused ELSE sock[j]
    BY <1>0, <2>1, UnusedType DEF TypeOK
  <2>3. CASE sock[k].listening
    <3>1. k = ws /\ ws # NoSocket /\ sports # {} /\ ~timer
      BY <1>0, <2>3, StreamAssumption DEF SocketInv, OneListener, StreamAssumption
    <3>2. ws' = NoSocket /\ timer' = (timer \/ (auto /\ sports # {}))
      BY <1>2, <2>3 DEF Close
    <3>3. \A j \in Socket : ~sock'[j].listening /\ j # ws'
      BY <1>0, <2>2, <3>1, <3>2, UnusedType, StreamAssumption DEF OneListener, StreamAssumption
    <3>4. SocketInv'
      BY <1>0, <2>1, <2>2, <3>1, <3>2, <3>3, UnusedType DEF SocketInv, OneListener, Started
    <3>5. timer' \in BOOLEAN /\ ws' \in Socket \cup {NoSocket}
      BY <1>0, <3>2 DEF TypeOK
    <3>6. QED
      BY <1>0, <2>1, <2>2, <3>4, <3>5 DEF IInv, TypeOK, memory
  <2>4. CASE ~sock[k].listening
    <3>1. k # ws /\ UNCHANGED <<ws, timer>>
      BY <1>0, <1>2, <2>4 DEF Close, OneListener
    <3>2. SocketInv'
      BY <1>0, <2>1, <2>2, <3>1, UnusedType DEF SocketInv, OneListener, Started, TypeOK
    <3>3. QED
      BY <1>0, <2>1, <2>2, <3>1, <3>2 DEF IInv, TypeOK, memory
  <2>5. QED
    BY <2>3, <2>4
<1>3. CASE handleMessage(k)
  <2>1. sock[k].listening /\ sock[k].state = "open" /\ sock[k].next > 0
    <3>1. sock[k].listening /\ sock[k].state \in {"open", "closing"}
      BY <1>3 DEF handleMessage
    <3>2. k = ws /\ k # NoSocket
      BY <1>0, <3>1, StreamAssumption DEF OneListener, StreamAssumption
    <3>3. QED
      BY <1>0, <3>1, <3>2 DEF SocketInv, Started
  <2>2. PICK n \in Pending(k) :
           /\ sock' = [sock EXCEPT ![k].next = n + 1]
           /\ lastSeq' = IF n > lastSeq THEN n ELSE lastSeq
           /\ shown' = Filed(<<guessSport(feed[n]), feed[n].event, feed[n].bookie>>, n)
           /\ cached' \in Remembered(guessSport(feed[n]), feed[n])
    BY <1>3 DEF handleMessage
  <2>3. n \in Nat /\ feed[n] \in Message
    BY <1>0, <2>1, PendingType
  <2> DEFINE place == guessSport(feed[n])
             r == [sock[k] EXCEPT !.next = n + 1]
  <2>4. place \in Place
    BY <2>3, GuessType
  <2>5. feed[n].event \in Event /\ feed[n].bookie \in Bookie
    BY <2>3 DEF Message
  <2> HIDE DEF place
  <2>6. shown' \in [Key -> Nat]
    <3>1. <<place, feed[n].event, feed[n].bookie>> \in Key
      BY <2>4, <2>5 DEF Key
    <3>2. shown' = Filed(<<place, feed[n].event, feed[n].bookie>>, n)
      BY <2>2 DEF place
    <3>3. QED
      BY <1>0, <2>3, <3>1, <3>2, FiledType
  <2>7. cached' \in SUBSET Event
    BY <1>0, <2>2, <2>3, <2>4, RememberedType DEF place
  <2>8. r \in Session /\ r.next > 0 /\ r.state = sock[k].state /\ r.listening = sock[k].listening
    BY <1>0, <2>3 DEF Session
  <2>9. sock' = [sock EXCEPT ![k] = r]
    BY <2>2
  <2> HIDE DEF r
  <2>10. UNCHANGED <<feed, sports, auto, ws, timer, listed>>
    BY <1>3 DEF handleMessage
  <2>11. sock' \in [Socket -> Session] /\ SocketInv'
    BY <2>8, <2>9, <2>10, OneSession
  <2>12. lastSeq' \in Nat
    BY <1>0, <2>2, <2>3 DEF TypeOK
  <2>13. QED
    BY <1>0, <2>6, <2>7, <2>10, <2>11, <2>12 DEF IInv, TypeOK
<1>4. CASE Resync(k)
  <2>1. /\ lastSeq' = 0 /\ shown' = Nothing /\ cached' = {}
        /\ sock' = Dropped /\ ws' = NoSocket /\ timer' = auto
        /\ UNCHANGED <<feed, sports, auto, listed>>
    BY <1>4 DEF Resync
  <2>2. sports # {}
    <3>1. sock[k].listening
      BY <1>4 DEF Resync
    <3>2. k = ws /\ k # NoSocket
      BY <1>0, <3>1, StreamAssumption DEF OneListener, StreamAssumption
    <3>3. QED
      BY <1>0, <3>2 DEF SocketInv
  <2>3. Dropped \in [Socket -> Session] /\ Quiet(Dropped) /\ Started(Dropped)
    BY <1>0, DroppedQuiet
  <2>4. SocketInv'
    BY <2>1, <2>2, <2>3, StreamAssumption
    DEF SocketInv, OneListener, Quiet, Started, StreamAssumption
  <2>5. shown' \in [Key -> Nat]
    BY <2>1 DEF Nothing
  <2>6. QED
    BY <1>0, <2>1, <2>3, <2>4, <2>5 DEF IInv, TypeOK
<1>5. QED
  BY <1>1, <1>2, <1>3, <1>4

\* A reconnect, a new configuration and a restart.
LEMMA ConnectStep ==
    ASSUME IInv,
           \/ Reconnect \/ reconnectNow \/ Restart
           \/ \E chosen \in SUBSET Sport, automatic \in BOOLEAN : applyConfig(chosen, automatic)
    PROVE  IInv'
<1>0. /\ TypeOK /\ OneListener /\ Started(sock) /\ SocketInv
      /\ sports \in SUBSET Sport /\ lastSeq \in Nat /\ sock \in [Socket -> Session]
      /\ Dropped \in [Socket -> Session] /\ Quiet(Dropped) /\ Started(Dropped)
      /\ Nothing \in [Key -> Nat]
  BY DroppedQuiet DEF IInv, SocketInv, TypeOK, Nothing
<1>1. CASE Reconnect
  <2>1. timer /\ ws = NoSocket /\ sports # {} /\ Quiet(sock)
    BY <1>0, <1>1, StreamAssumption DEF Reconnect, OneListener, Quiet, StreamAssumption
  <2>2. timer' = FALSE /\ Dial(sock, sports, lastSeq)
        /\ UNCHANGED <<feed, sports, auto, memory, listed>>
    BY <1>1, <2>1 DEF Reconnect
  <2>3. /\ ws' \in Socket /\ sock' \in [Socket -> Session]
        /\ \A k \in Socket : sock'[k].listening <=> k = ws'
        /\ sock'[ws'].state = "connecting" /\ Started(sock')
    BY <1>0, <2>1, <2>2, DialOne
  <2>4. SocketInv'
    BY <2>1, <2>2, <2>3, Connected
  <2>5. QED
    BY <1>0, <2>2, <2>3, <2>4 DEF IInv, TypeOK, memory
<1>2. CASE reconnectNow
  <2>1. timer' = FALSE /\ DialIf(sports # {}, Dropped, sports, lastSeq)
        /\ UNCHANGED <<feed, sports, auto, memory, listed>>
    BY <1>2 DEF reconnectNow
  <2>2. /\ ws' \in Socket \cup {NoSocket} /\ sock' \in [Socket -> Session]
        /\ \A k \in Socket : sock'[k].listening <=> k = ws'
        /\ ws' # NoSocket => sports # {} /\ sock'[ws'].state = "connecting"
        /\ Started(sock')
    BY <1>0, <2>1, DialIfOne
  <2>3. SocketInv'
    BY <2>1, <2>2, Connected
  <2>4. QED
    BY <1>0, <2>1, <2>2, <2>3 DEF IInv, TypeOK, memory
<1>3. CASE Restart
  <2> DEFINE none == [k \in Socket |-> Unused]
  <2>1. none \in [Socket -> Session] /\ Quiet(none) /\ Started(none)
    BY UnusedType DEF Quiet, Started
  <2>2. /\ sports' = EnvSports /\ auto' = EnvAuto /\ timer' = FALSE
        /\ lastSeq' = 0 /\ shown' = Nothing /\ cached' = {} /\ listed' = {}
        /\ DialIf(EnvAuto /\ EnvSports # {}, none, EnvSports, 0) /\ UNCHANGED feed
    BY <1>3 DEF Restart
  <2>3. EnvSports \in SUBSET Sport /\ EnvAuto \in BOOLEAN /\ (EnvAuto /\ EnvSports # {}) \in BOOLEAN
    BY StreamAssumption DEF StreamAssumption
  <2> HIDE DEF none
  <2>4. /\ ws' \in Socket \cup {NoSocket} /\ sock' \in [Socket -> Session]
        /\ \A k \in Socket : sock'[k].listening <=> k = ws'
        /\ ws' # NoSocket => EnvSports # {} /\ sock'[ws'].state = "connecting"
        /\ Started(sock')
    BY <2>1, <2>2, <2>3, DialIfOne
  <2>5. SocketInv'
    BY <2>2, <2>4, Connected
  <2>6. QED
    BY <1>0, <2>2, <2>3, <2>4, <2>5 DEF IInv, TypeOK
<1>4. ASSUME NEW chosen \in SUBSET Sport, NEW automatic \in BOOLEAN, applyConfig(chosen, automatic)
      PROVE  IInv'
  <2>1. /\ sports' = chosen /\ auto' = automatic /\ timer' = FALSE
        /\ lastSeq' = 0 /\ shown' = Nothing /\ cached' = {} /\ UNCHANGED <<feed, listed>>
        /\ DialIf(automatic /\ chosen # {}, Dropped, chosen, 0)
    BY <1>4 DEF applyConfig
  <2>2. (automatic /\ chosen # {}) \in BOOLEAN
    OBVIOUS
  <2>3. /\ ws' \in Socket \cup {NoSocket} /\ sock' \in [Socket -> Session]
        /\ \A k \in Socket : sock'[k].listening <=> k = ws'
        /\ ws' # NoSocket => chosen # {} /\ sock'[ws'].state = "connecting"
        /\ Started(sock')
    BY <1>0, <2>1, <2>2, DialIfOne
  <2>4. SocketInv'
    BY <2>1, <2>3, Connected
  <2>5. QED
    BY <1>0, <2>1, <2>3, <2>4 DEF IInv, TypeOK
<1>5. QED
  BY <1>1, <1>2, <1>3, <1>4

\* What is learned about events moves no socket.
LEMMA LearnStep ==
    ASSUME IInv, Promote \/ \E s \in Sport : Learn(s)
    PROVE  IInv'
<1>1. CASE Promote
  <2>1. shown' \in [Key -> Nat]
    <3>1. \A key \in Promoted : key \in Key /\ <<Unknown, key[2], key[3]>> = key
      BY DEF Promoted, Entries, Key
    <3>2. \A key \in Key : <<Unknown, key[2], key[3]>> \in Key
      BY DEF Key, Place
    <3>3. shown \in [Key -> Nat]
      BY DEF IInv, TypeOK
    <3>4. QED
      BY <1>1, <3>2, <3>3 DEF Promote
  <2>2. cached' \in SUBSET Event
    <3>1. \A key \in Promoted : key[2] \in Event
      BY DEF Promoted, Entries, Key
    <3>2. QED
      BY <1>1, <3>1 DEF Promote, IInv, TypeOK
  <2>3. UNCHANGED <<feed, sports, auto, ws, timer, sock, lastSeq, listed>>
    BY <1>1 DEF Promote
  <2>4. QED
    BY <2>1, <2>2, <2>3 DEF IInv, TypeOK, SocketInv, OneListener, Started
<1>2. ASSUME NEW s \in Sport, Learn(s) PROVE IInv'
  <2>1. listed' \in SUBSET Event
    BY <1>2 DEF Learn, IInv, TypeOK
  <2>2. UNCHANGED <<feed, sports, auto, ws, timer, sock, memory>>
    BY <1>2 DEF Learn
  <2>3. QED
    BY <2>1, <2>2 DEF IInv, TypeOK, SocketInv, OneListener, Started, memory
<1>3. QED
  BY <1>1, <1>2

LEMMA Inductive == IInv /\ [Next]_vars => IInv'
<1> SUFFICES ASSUME IInv, [Next]_vars PROVE IInv'
  OBVIOUS
<1>1. CASE UNCHANGED vars
  BY <1>1 DEF vars, memory, IInv, TypeOK, SocketInv, OneListener, Started
<1>2. CASE Next
  BY <1>2, PublishInv, SocketStep, ConnectStep, LearnStep DEF Next
<1>3. QED
  BY <1>1, <1>2

\* Every reachable state is well typed.
THEOREM StreamTypeCorrect == Spec => []TypeOK
<1>1. IInv => TypeOK
  BY DEF IInv
<1>2. QED
  BY <1>1, InitInv, Inductive, PTL DEF Spec

\* Whatever sockets close, and whatever is reconnected or reconfigured, the client
\* listens to the current socket only, so that no message is taken twice, and
\* schedules no reconnect while it has one (connect, disconnect, scheduleReconnect).
THEOREM AlwaysOneListener == Spec => []OneListener
<1>1. IInv => OneListener
  BY DEF IInv, SocketInv
<1>2. QED
  BY <1>1, InitInv, Inductive, PTL DEF Spec

-----------------------------------------------------------------------------
(* The board *)

\* Of the messages f up to n, b is the last about p.
Last(f, b, p, n) ==
    /\ b \in 1..n
    /\ <<f[b].event, f[b].bookie>> = p
    /\ \A j \in (b + 1)..n : <<f[j].event, f[j].bookie>> # p

\* ShowsLast of OddsBoard, for messages f of which n are seen and a board b.
Shown(f, b, n) ==
    \A p \in Board!Pair : b[p] # 0 => Last(f, b[p], p, n) /\ f[b[p]].type # "deleted"

\* Another message that is not taken changes nothing.
LEMMA AppendShown ==
    ASSUME NEW f \in Seq(Message), NEW n \in 0..Len(f), NEW b, Shown(f, b, n), NEW m \in Message
    PROVE  Shown(Append(f, m), b, n)
<1>1. Len(f) \in Nat /\ \A j \in 1..Len(f) : Append(f, m)[j] = f[j]
  BY AppendProperties
<1>2. \A j \in 1..n : Append(f, m)[j] = f[j]
  BY <1>1
<1>3. ASSUME NEW p \in Board!Pair, b[p] # 0
      PROVE  Last(Append(f, m), b[p], p, n) /\ Append(f, m)[b[p]].type # "deleted"
  <2>1. Last(f, b[p], p, n) /\ f[b[p]].type # "deleted"
    BY <1>3 DEF Shown
  <2>2. b[p] \in 1..n /\ n \in Nat
    BY <1>1, <2>1 DEF Last
  <2>3. QED
    BY <1>2, <2>1, <2>2 DEF Last
<1>4. QED
  BY <1>3 DEF Shown

\* Take of OddsBoard, for the k-th message.
Takes(f, b, c, n, k) ==
    /\ \A j \in (n + 1)..(k - 1) : b[<<f[j].event, f[j].bookie>>] = 0
    /\ \E dropped \in SUBSET Board!Pair : \A p \in Board!Pair :
           c[p] = IF p \in dropped THEN 0
                  ELSE IF p = <<f[k].event, f[k].bookie>>
                       THEN IF f[k].type = "deleted" THEN 0 ELSE k
                       ELSE b[p]

\* A message that is taken is the last about its pair, and those passed over are
\* about no pair that is shown.
LEMMA TakeShown ==
    ASSUME NEW f \in Seq(Message), NEW n \in 0..Len(f), NEW b, NEW c, Shown(f, b, n),
           NEW k \in (n + 1)..Len(f), Takes(f, b, c, n, k)
    PROVE  Shown(f, c, k)
<1>0. PICK dropped \in SUBSET Board!Pair : \A p \in Board!Pair :
         c[p] = IF p \in dropped THEN 0
                ELSE IF p = <<f[k].event, f[k].bookie>>
                     THEN IF f[k].type = "deleted" THEN 0 ELSE k
                     ELSE b[p]
  BY DEF Takes
<1>1. Len(f) \in Nat /\ n \in Nat /\ k \in Nat
  OBVIOUS
<1>2. ASSUME NEW p \in Board!Pair, c[p] # 0
      PROVE  Last(f, c[p], p, k) /\ f[c[p]].type # "deleted"
  <2>1. CASE p = <<f[k].event, f[k].bookie>>
    <3>1. c[p] = k /\ f[k].type # "deleted"
      BY <1>0, <1>2, <2>1
    <3>2. Last(f, k, p, k)
      BY <1>1, <2>1 DEF Last
    <3>3. QED
      BY <3>1, <3>2
  <2>2. CASE p # <<f[k].event, f[k].bookie>>
    <3>1. c[p] = b[p] /\ b[p] # 0
      BY <1>0, <1>2, <2>2
    <3>2. Last(f, b[p], p, n) /\ f[b[p]].type # "deleted"
      BY <3>1 DEF Shown
    <3>3. \A j \in (n + 1)..(k - 1) : <<f[j].event, f[j].bookie>> # p
      BY <3>1 DEF Takes
    <3>4. \A j \in (b[p] + 1)..k : <<f[j].event, f[j].bookie>> # p
      BY <1>1, <2>2, <3>2, <3>3 DEF Last
    <3>5. Last(f, b[p], p, k)
      BY <1>1, <3>2, <3>4 DEF Last
    <3>6. QED
      BY <3>1, <3>2, <3>5
  <2>3. QED
    BY <2>1, <2>2
<1>3. QED
  BY <1>2 DEF Shown

board == [p \in Event \X Bookie |-> ShownAbout(p[1], p[2])]

BoardInv ==
    /\ feed \in Seq(Message)
    /\ lastSeq \in 0..Len(feed)
    /\ Shown(feed, board, lastSeq)

\* No step of the board breaks it.
LEMMA BoardStep ==
    ASSUME BoardInv, [Board!Next]_Board!vars
    PROVE  BoardInv'
<1>1. ASSUME NEW m \in Message, Board!Publish(m) PROVE BoardInv'
  <2>1. feed' = Append(feed, m) /\ lastSeq' = lastSeq /\ board' = board
    BY <1>1 DEF Board!Publish, board
  <2>2. feed' \in Seq(Message) /\ lastSeq' \in 0..Len(feed')
    BY <2>1 DEF BoardInv
  <2>3. Shown(feed', board', lastSeq')
    BY <2>1, AppendShown DEF BoardInv
  <2>4. QED
    BY <2>2, <2>3 DEF BoardInv
<1>2. ASSUME NEW n \in (lastSeq + 1)..Len(feed), Board!Take(n) PROVE BoardInv'
  <2>1. PICK dropped \in SUBSET Board!Pair :
           board' = [p \in Board!Pair |-> IF p \in dropped THEN 0
                                          ELSE IF p = Board!PairOf(feed[n])
                                               THEN Board!Shows(n) ELSE board[p]]
    BY <1>2 DEF Board!Take, board
  <2>2. /\ lastSeq' = n /\ feed' = feed
        /\ \A j \in (lastSeq + 1)..(n - 1) : board[Board!PairOf(feed[j])] = 0
    BY <1>2 DEF Board!Take, board
  <2>3. feed' \in Seq(Message) /\ lastSeq' \in 0..Len(feed')
    BY <2>2 DEF BoardInv
  <2>4. Takes(feed, board, board', lastSeq, n)
    BY <2>1, <2>2 DEF Takes, Board!PairOf, Board!Shows
  <2>5. feed \in Seq(Message) /\ lastSeq \in 0..Len(feed) /\ Shown(feed, board, lastSeq)
    BY DEF BoardInv
  <2>6. Shown(feed, board', n)
    BY <2>4, <2>5, TakeShown
  <2>7. QED
    BY <2>2, <2>3, <2>6 DEF BoardInv
<1>3. ASSUME Board!Reset PROVE BoardInv'
  <2>1. lastSeq' = 0 /\ feed' = feed /\ board' = [p \in Board!Pair |-> 0]
    BY <1>3 DEF Board!Reset, Board!Empty, board
  <2>2. Shown(feed', board', lastSeq')
    BY <2>1 DEF Shown
  <2>3. QED
    BY <2>1, <2>2 DEF BoardInv
<1>4. ASSUME UNCHANGED Board!vars PROVE BoardInv'
  <2>1. feed' = feed /\ lastSeq' = lastSeq /\ board' = board
    BY <1>4 DEF Board!vars, board
  <2>2. QED
    BY <2>1 DEF BoardInv
<1>5. QED
  BY <1>1, <1>2, <1>3, <1>4 DEF Board!Next

\* A client that implements the board shows about each pair of an event and a
\* bookmaker the last message about it (stateMap of OddsApiWsService).
THEOREM BoardShowsLast == Board!Spec => []Board!ShowsLast
<1>1. Board!Init => BoardInv
  <2> SUFFICES ASSUME Board!Init PROVE BoardInv
    OBVIOUS
  <2>1. feed = <<>> /\ lastSeq = 0 /\ board = [p \in Board!Pair |-> 0]
    BY DEF Board!Init, Board!Empty, board
  <2>2. QED
    BY <2>1 DEF BoardInv, Shown
<1>2. BoardInv => Board!ShowsLast
  BY DEF BoardInv, Shown, Last, board, Board!ShowsLast, Board!IsLast, Board!PairOf
<1>3. QED
  BY <1>1, <1>2, BoardStep, PTL DEF Board!Spec

-----------------------------------------------------------------------------
(* When every message says the sport of its event *)

\* Every entry is filed under the sport of its event, one of those subscribed to,
\* and is no newer than the last message.
Filing ==
    \A key \in Entries(shown) :
        key[1] = SportOf[key[2]] /\ key[1] \in sports /\ shown[key] <= lastSeq

\* The current socket subscribes to what is configured and goes on where the client
\* stands, unless the client has nothing.
Resuming ==
    ws # NoSocket =>
        /\ sock[ws].sports = sports
        /\ sock[ws].state = "connecting" => sock[ws].from = lastSeq
        /\ sock[ws].state = "open" => lastSeq = 0 \/ sock[ws].next = lastSeq + 1

ToldInv ==
    /\ IInv
    /\ \A n \in 1..Len(feed) : feed[n].tells
    /\ Filing
    /\ Resuming

\* The board as a function of the entries.
BoardOf(s) == [p \in Event \X Bookie |-> s[<<SportOf[p[1]], p[1], p[2]>>]]

\* The key under which a pair's entry is filed.
LEMMA OwnKey ==
    ASSUME NEW e \in Event, NEW b \in Bookie
    PROVE  <<SportOf[e], e, b>> \in Key
BY StreamAssumption DEF StreamAssumption, Key, Place

\* A pair has at most the entry under its event's sport, which is what is shown.
LEMMA OneEntry ==
    ASSUME TypeOK, Filing, NEW e \in Event, NEW b \in Bookie
    PROVE  /\ About(e, b) \subseteq {<<SportOf[e], e, b>>}
           /\ ShownAbout(e, b) = shown[<<SportOf[e], e, b>>]
<1> DEFINE own == <<SportOf[e], e, b>>
<1>1. own \in Key
  BY OwnKey
<1>2. ASSUME NEW key \in About(e, b) PROVE key = own
  <2>1. key \in Key /\ key \in Entries(shown) /\ key[2] = e /\ key[3] = b
    BY DEF About, Entries
  <2>2. key = <<key[1], key[2], key[3]>> /\ key[1] = SportOf[key[2]]
    BY <2>1 DEF Key, Filing
  <2>3. QED
    BY <2>1, <2>2
<1>3. own \in About(e, b) <=> shown[own] # 0
  <2>1. own[2] = e /\ own[3] = b
    OBVIOUS
  <2> HIDE DEF own
  <2>2. QED
    BY <1>1, <2>1 DEF About, Entries
<1> HIDE DEF own
<1>4. CASE shown[own] # 0
  <2>1. About(e, b) = {own}
    BY <1>2, <1>3, <1>4
  <2>2. QED
    BY <2>1 DEF ShownAbout, own
<1>5. CASE shown[own] = 0
  <2>1. About(e, b) = {}
    BY <1>2, <1>3, <1>5
  <2>2. QED
    BY <1>5, <2>1 DEF ShownAbout, own
<1>6. QED
  BY <1>4, <1>5

\* So the board is that function of the entries, in every state.
BoardMatches == board = BoardOf(shown)

LEMMA BoardIs == TypeOK /\ Filing => BoardMatches
BY OneEntry DEF board, BoardOf, BoardMatches

LEMMA BoardIsNext == TypeOK' /\ Filing' => BoardMatches'
BY BoardIs, PTL

\* The pairs of the board.
LEMMA Pairs == Board!Pair = Event \X Bookie /\ Board!Empty = [p \in Event \X Bookie |-> 0]
<1>1. ASSUME NEW e \in Event, NEW b \in Bookie PROVE <<e, b>> \in Board!Pair
  <2> DEFINE m == [type |-> "updated", event |-> e, bookie |-> b, tells |-> TRUE]
  <2>1. m \in Message /\ Board!PairOf(m) = <<e, b>>
    BY DEF Message, Board!PairOf
  <2>2. QED
    BY <2>1 DEF Board!Pair
<1>2. ASSUME NEW m \in Message PROVE Board!PairOf(m) \in Event \X Bookie
  BY DEF Message, Board!PairOf
<1>3. Board!Pair = Event \X Bookie
  BY <1>1, <1>2 DEF Board!Pair
<1>4. QED
  BY <1>3 DEF Board!Empty

\* The client forgets everything.
LEMMA Forgets ==
    ASSUME TypeOK, lastSeq' = 0, shown' = Nothing
    PROVE  Filing' /\ (feed' = feed => Board!Reset)
<1>1. Entries(Nothing) = {}
  BY DEF Entries, Nothing
<1>2. Filing'
  BY <1>1 DEF Filing
<1>3. board' = Board!Empty
  <2>1. \A e \in Event, b \in Bookie : ShownAbout(e, b)' = 0
    BY <1>1 DEF ShownAbout, About
  <2>2. QED
    BY <2>1, Pairs DEF board
<1>4. QED
  BY <1>2, <1>3 DEF Board!Reset, board

\* What is filed by message n: its own entry or nothing, and otherwise what was.
LEMMA FiledEntries ==
    ASSUME TypeOK, NEW key \in Key, NEW n \in Nat, NEW j \in Key
    PROVE  Filed(key, n)[j] # 0 =>
              IF j = key THEN Filed(key, n)[j] = n /\ feed[n].type # "deleted"
              ELSE Filed(key, n)[j] = shown[j]
<1>1. shown \in [Key -> Nat]
  BY DEF TypeOK
<1>2. CASE feed[n].type = "deleted"
  BY <1>1, <1>2 DEF Filed
<1>3. CASE feed[n].type # "deleted"
  <2> DEFINE s == [shown EXCEPT ![key] = n]
  <2>1. s \in [Key -> Nat] /\ s[j] = IF j = key THEN n ELSE shown[j]
    BY <1>1
  <2>2. Filed(key, n) = s \/ Filed(key, n) = Kept(s)
    BY <1>3 DEF Filed
  <2> HIDE DEF s
  <2>3. Kept(s)[j] = s[j] \/ Kept(s)[j] = 0
    BY <2>1 DEF Kept
  <2>4. QED
    BY <1>3, <2>1, <2>2, <2>3
<1>4. QED
  BY <1>2, <1>3

\* The messages that socket k skips are about pairs that are not shown.
LEMMA Skipped ==
    ASSUME ToldInv, NEW k \in Socket, handleMessage(k), NEW n \in Pending(k),
           \A i \in Pending(k) : n <= i
    PROVE  /\ n \in (lastSeq + 1)..Len(feed) /\ feed[n] \in Message
           /\ SportOf[feed[n].event] \in sports
           /\ \A j \in (lastSeq + 1)..(n - 1) : board[Board!PairOf(feed[j])] = 0
<1>0. /\ TypeOK /\ Filing /\ shown \in [Key -> Nat] /\ feed \in Seq(Message) /\ Len(feed) \in Nat
      /\ lastSeq \in Nat /\ sock[k].next \in Nat
  BY DEF ToldInv, IInv, TypeOK, Session
<1>1. k = ws /\ ws # NoSocket
  BY StreamAssumption DEF handleMessage, ToldInv, IInv, SocketInv, OneListener, StreamAssumption
<1>2. /\ sock[k].state = "open" /\ sock[k].next > 0 /\ sock[k].sports = sports
      /\ lastSeq = 0 \/ sock[k].next = lastSeq + 1
  BY <1>1 DEF handleMessage, ToldInv, IInv, SocketInv, Started, Resuming
<1>3. n \in sock[k].next..Len(feed) /\ SportOf[feed[n].event] \in sports
  BY <1>2 DEF Pending
<1>4. n \in (lastSeq + 1)..Len(feed) /\ n \in 1..Len(feed)
  BY <1>0, <1>2, <1>3
<1>5. ASSUME NEW j \in (lastSeq + 1)..(n - 1) PROVE board[Board!PairOf(feed[j])] = 0
  <2>1. j \in 1..Len(feed)
    BY <1>0, <1>4
  <2>2. feed[j] \in Message /\ feed[j].event \in Event /\ feed[j].bookie \in Bookie
    <3>1. feed[j] \in Message
      BY <1>0, <2>1
    <3>2. QED
      BY <3>1 DEF Message
  <2> DEFINE own == <<SportOf[feed[j].event], feed[j].event, feed[j].bookie>>
  <2>3. own \in Key /\ own[1] = SportOf[feed[j].event]
    BY <2>2, OwnKey
  <2>4. board[Board!PairOf(feed[j])] = shown[own]
    BY <1>0, <2>2, BoardIs DEF BoardMatches, BoardOf, Board!PairOf
  <2> HIDE DEF own
  <2>5. CASE lastSeq = 0
    BY <1>0, <2>3, <2>4, <2>5 DEF Filing, Entries
  <2>6. CASE sock[k].next = lastSeq + 1
    <3>1. j \in sock[k].next..Len(feed) /\ j < n
      BY <1>0, <1>4, <2>6
    <3>2. SportOf[feed[j].event] \notin sports
      BY <1>2, <1>3, <3>1 DEF Pending
    <3>3. QED
      BY <1>0, <2>3, <2>4, <3>2 DEF Filing, Entries
  <2>7. QED
    BY <1>2, <2>5, <2>6
<1>6. QED
  BY <1>0, <1>3, <1>4, <1>5

\* A message taken is a step of the board, and is filed under its sport.
LEMMA TakeStep ==
    ASSUME ToldInv, NEW k \in Socket, handleMessage(k)
    PROVE  /\ \E n \in (lastSeq + 1)..Len(feed) : Board!Take(n)
           /\ Filing' /\ Resuming'
<1>0. TypeOK /\ Filing /\ shown \in [Key -> Nat] /\ lastSeq \in Nat /\ Len(feed) \in Nat
  BY DEF ToldInv, IInv, TypeOK
<1>1. PICK n \in Pending(k) :
         /\ \A i \in Pending(k) : n <= i
         /\ sock' = [sock EXCEPT ![k].next = n + 1]
         /\ lastSeq' = IF n > lastSeq THEN n ELSE lastSeq
         /\ shown' = Filed(<<guessSport(feed[n]), feed[n].event, feed[n].bookie>>, n)
  BY DEF handleMessage
<1>2. /\ n \in (lastSeq + 1)..Len(feed) /\ feed[n] \in Message
      /\ SportOf[feed[n].event] \in sports
      /\ \A j \in (lastSeq + 1)..(n - 1) : board[Board!PairOf(feed[j])] = 0
  BY <1>1, Skipped
<1>3. /\ n \in Nat /\ n > lastSeq /\ n \in 1..Len(feed)
      /\ feed[n].event \in Event /\ feed[n].bookie \in Bookie
  BY <1>0, <1>2 DEF Message
<1>4. guessSport(feed[n]) = SportOf[feed[n].event]
  BY <1>3 DEF ToldInv, guessSport
<1> DEFINE own == <<SportOf[feed[n].event], feed[n].event, feed[n].bookie>>
<1>5. /\ lastSeq' = n /\ shown' = Filed(own, n)
      /\ UNCHANGED <<feed, sports, ws>>
  BY <1>0, <1>1, <1>3, <1>4 DEF handleMessage
<1>6. own \in Key /\ own[1] = SportOf[own[2]] /\ own[1] \in sports
  BY <1>2, <1>3, OwnKey
<1>7. shown' \in [Key -> Nat] /\ TypeOK'
  <2>1. IInv'
    BY SocketStep DEF ToldInv
  <2>2. QED
    BY <2>1 DEF IInv, TypeOK
<1>8. \A j \in Key : shown'[j] # 0 =>
         IF j = own THEN shown'[j] = n /\ feed[n].type # "deleted" ELSE shown'[j] = shown[j]
  <2> HIDE DEF own
  <2>1. QED
    BY <1>0, <1>3, <1>5, <1>6, FiledEntries
<1>9. Filing'
  <2> SUFFICES ASSUME NEW key \in Key, shown'[key] # 0
               PROVE  key[1] = SportOf[key[2]] /\ key[1] \in sports /\ shown'[key] <= n
    BY <1>5 DEF Filing, Entries
  <2> HIDE DEF own
  <2>1. CASE key = own
    BY <1>3, <1>6, <1>8, <2>1
  <2>2. CASE key # own
    BY <1>0, <1>3, <1>8, <2>2 DEF Filing, Entries
  <2>3. QED
    BY <2>1, <2>2
<1>10. Resuming'
  <2>1. k = ws /\ sock[k] \in Session /\ sock \in [Socket -> Session]
    BY StreamAssumption
    DEF handleMessage, ToldInv, IInv, TypeOK, SocketInv, OneListener, StreamAssumption
  <2>2. sock[ws].sports = sports /\ sock[ws].state = "open"
    BY <2>1, StreamAssumption
    DEF handleMessage, ToldInv, IInv, SocketInv, Resuming, StreamAssumption
  <2>3. sock'[k] = [sock[k] EXCEPT !.next = n + 1]
    BY <1>1, <2>1
  <2>4. sock'[k].sports = sock[k].sports /\ sock'[k].state = sock[k].state /\ sock'[k].next = n + 1
    BY <2>1, <2>3 DEF Session
  <2>5. QED
    BY <1>5, <2>1, <2>2, <2>4 DEF Resuming
<1>11. Board!Take(n)
  <2> DEFINE dropped == {p \in Board!Pair : BoardOf(shown')[p] = 0}
             after == [p \in Board!Pair |-> IF p \in dropped THEN 0
                                            ELSE IF p = Board!PairOf(feed[n])
                                                 THEN Board!Shows(n) ELSE board[p]]
  <2>1. board = BoardOf(shown) /\ board' = BoardOf(shown')
    <3>1. board = BoardOf(shown)
      BY <1>0, BoardIs DEF BoardMatches
    <3>2. QED
      BY <1>7, <1>9, <3>1, BoardIsNext DEF BoardMatches
  <2>2. ASSUME NEW e \in Event, NEW b \in Bookie PROVE BoardOf(shown')[<<e, b>>] = after[<<e, b>>]
    <3> DEFINE key == <<SportOf[e], e, b>>
    <3>1. key \in Key /\ <<e, b>> \in Board!Pair
      BY OwnKey, Pairs
    <3>2. BoardOf(shown')[<<e, b>>] = shown'[key] /\ board[<<e, b>>] = shown[key]
      BY <2>1 DEF BoardOf
    <3>3. <<e, b>> = Board!PairOf(feed[n]) <=> key = own
      BY DEF Board!PairOf
    <3> HIDE DEF key, own
    <3>4. QED
      BY <1>8, <3>1, <3>2, <3>3 DEF Board!Shows
  <2>3. BoardOf(shown') = after
    <3>1. BoardOf(shown') = [p \in Event \X Bookie |-> BoardOf(shown')[p]]
      BY DEF BoardOf
    <3>2. after = [p \in Event \X Bookie |-> after[p]]
      BY Pairs
    <3>3. \A p \in Event \X Bookie : BoardOf(shown')[p] = after[p]
      <4> HIDE DEF after
      <4>1. QED
        BY <2>2
    <3> HIDE DEF after
    <3>4. QED
      BY <3>1, <3>2, <3>3
  <2>4. dropped \in SUBSET Board!Pair
    OBVIOUS
  <2>5. board' = after
    BY <2>1, <2>3
  <2> HIDE DEF dropped
  <2>6. QED
    BY <1>2, <1>5, <2>4, <2>5 DEF Board!Take, board
<1>12. QED
  BY <1>2, <1>9, <1>10, <1>11

\* A step that leaves the messages, the entries and what is subscribed to alone is
\* none of the board.
LEMMA NotOnBoard ==
    ASSUME Filing, UNCHANGED <<feed, lastSeq, shown, sports>>
    PROVE  Filing' /\ UNCHANGED Board!vars
BY DEF Filing, Entries, Board!vars, ShownAbout, About

\* The session of a socket that was just dialled.
LEMMA DialResumes ==
    ASSUME NEW s \in [Socket -> Session], NEW chosen, NEW from, Dial(s, chosen, from),
           sports' = chosen, lastSeq' = from
    PROVE  Resuming'
BY DEF Dial, Resuming

LEMMA DialIfResumes ==
    ASSUME NEW s \in [Socket -> Session], NEW chosen, NEW from, NEW wanted \in BOOLEAN,
           DialIf(wanted, s, chosen, from), sports' = chosen, lastSeq' = from
    PROVE  Resuming'
BY DialResumes DEF DialIf, Resuming

\* When every message says its sport, each step is one of the board.
LEMMA ToldStep ==
    ASSUME ToldInv, allTell, MCNext
    PROVE  Filing' /\ Resuming' /\ [Board!Next]_Board!vars
<1> DEFINE Goal == Filing' /\ Resuming' /\ [Board!Next]_Board!vars
<1>0. /\ TypeOK /\ IInv /\ Filing /\ Resuming /\ OneListener
      /\ sock \in [Socket -> Session] /\ lastSeq \in Nat
      /\ Dropped \in [Socket -> Session]
  BY DroppedQuiet DEF ToldInv, IInv, SocketInv, TypeOK
<1>1. ASSUME NEW m \in Message, Publish(m) PROVE Goal
  <2>1. Board!Publish(m)
    BY <1>1 DEF Publish, memory, Board!Publish, ShownAbout, About
  <2>2. Filing' /\ Resuming'
    BY <1>0, <1>1 DEF Publish, memory, Filing, Entries, Resuming
  <2>3. QED
    BY <2>1, <2>2 DEF Board!Next
<1>2. ASSUME NEW k \in Socket, handleMessage(k) PROVE Goal
  BY <1>2, TakeStep DEF Board!Next
<1>3. ASSUME NEW k \in Socket, Open(k) PROVE Goal
  <2>1. Filing' /\ UNCHANGED Board!vars
    BY <1>0, <1>3, NotOnBoard DEF Open, memory
  <2>2. Resuming'
    <3>1. /\ \A j \in Socket \ {k} : sock'[j] = sock[j]
          /\ sock[k].state = "connecting" /\ sock'[k].state = "open"
          /\ sock'[k].sports = sock[k].sports
          /\ sock[k].from > 0 => sock'[k].next = sock[k].from + 1
          /\ sock[k].from \in Nat
      BY <1>0, <1>3 DEF Open, Session
    <3>2. UNCHANGED <<ws, sports, lastSeq>> /\ ws \in Socket \cup {NoSocket}
      BY <1>0, <1>3 DEF Open, memory, TypeOK
    <3>3. QED
      BY <1>0, <3>1, <3>2 DEF Resuming
  <2>3. QED
    BY <2>1, <2>2
<1>4. ASSUME NEW k \in Socket, Close(k) PROVE Goal
  <2>1. Filing' /\ UNCHANGED Board!vars
    BY <1>0, <1>4, NotOnBoard DEF Close, memory
  <2>2. Resuming'
    <3>1. /\ \A j \in Socket \ {k} : sock'[j] = sock[j]
          /\ UNCHANGED <<sports, lastSeq>>
          /\ ws' = IF sock[k].listening THEN NoSocket ELSE ws
      BY <1>0, <1>4 DEF Close, memory
    <3>2. ws \in Socket => (sock[ws].listening /\ ws # NoSocket)
      BY <1>0, StreamAssumption DEF OneListener, StreamAssumption
    <3>3. ws' = NoSocket \/ (ws' = ws /\ ws # k)
      BY <3>1, <3>2
    <3>4. QED
      BY <1>0, <3>1, <3>3 DEF Resuming, TypeOK
  <2>3. QED
    BY <2>1, <2>2
<1>5. ASSUME NEW k \in Socket, Resync(k) PROVE Goal
  BY <1>0, <1>5, Forgets DEF Resync, Resuming, Board!Next
<1>6. ASSUME Reconnect PROVE Goal
  <2>1. Filing' /\ UNCHANGED Board!vars
    BY <1>0, <1>6, NotOnBoard DEF Reconnect, memory
  <2>2. timer /\ ws = NoSocket
    BY <1>0, <1>6 DEF Reconnect, OneListener
  <2>3. Dial(sock, sports, lastSeq) /\ UNCHANGED <<sports, lastSeq>>
    BY <1>6, <2>2 DEF Reconnect, memory
  <2>4. QED
    BY <1>0, <2>1, <2>3, DialResumes
<1>7. ASSUME reconnectNow PROVE Goal
  <2>1. Filing' /\ UNCHANGED Board!vars
    BY <1>0, <1>7, NotOnBoard DEF reconnectNow, memory
  <2>2. DialIf(sports # {}, Dropped, sports, lastSeq) /\ UNCHANGED <<sports, lastSeq>>
    BY <1>7 DEF reconnectNow, memory
  <2>3. QED
    BY <1>0, <2>1, <2>2, DialIfResumes
<1>8. ASSUME Restart PROVE Goal
  <2>1. Filing' /\ Board!Reset
    BY <1>0, <1>8, Forgets DEF Restart
  <2> DEFINE none == [k \in Socket |-> Unused]
  <2>2. none \in [Socket -> Session]
    BY UnusedType
  <2>3. /\ DialIf(EnvAuto /\ EnvSports # {}, none, EnvSports, 0)
        /\ sports' = EnvSports /\ lastSeq' = 0
    BY <1>8 DEF Restart
  <2>4. (EnvAuto /\ EnvSports # {}) \in BOOLEAN
    BY StreamAssumption DEF StreamAssumption
  <2> HIDE DEF none
  <2>5. Resuming'
    BY <2>2, <2>3, <2>4, DialIfResumes
  <2>6. QED
    BY <2>1, <2>5 DEF Board!Next
<1>9. ASSUME NEW chosen \in SUBSET Sport, NEW automatic \in BOOLEAN, applyConfig(chosen, automatic)
      PROVE  Goal
  <2>1. Filing' /\ Board!Reset
    BY <1>0, <1>9, Forgets DEF applyConfig
  <2>2. /\ DialIf(automatic /\ chosen # {}, Dropped, chosen, 0)
        /\ sports' = chosen /\ lastSeq' = 0
    BY <1>9 DEF applyConfig
  <2>3. (automatic /\ chosen # {}) \in BOOLEAN
    OBVIOUS
  <2>4. Resuming'
    BY <1>0, <2>2, <2>3, DialIfResumes
  <2>5. QED
    BY <2>1, <2>4 DEF Board!Next
<1> HIDE DEF Goal
<1>10. ASSUME Ordinary PROVE Goal
  BY <1>1, <1>2, <1>3, <1>4, <1>6, <1>10 DEF Ordinary
<1>11. ASSUME Trouble PROVE Goal
  <2>1. ASSUME \E k \in Socket : Resync(k) \/ (sock[k].listening /\ Close(k)) PROVE Goal
    BY <1>4, <1>5, <2>1
  <2>2. ASSUME \E chosen \in SUBSET Sport, automatic \in BOOLEAN : applyConfig(chosen, automatic)
        PROVE  Goal
    BY <1>9, <2>2, Zenon
  <2>3. QED
    BY <1>7, <1>8, <1>11, <2>1, <2>2 DEF Trouble
<1>12. Goal
  BY <1>10, <1>11 DEF MCNext
<1>13. QED
  BY <1>12 DEF Goal

\* Only messages that say their sport are published then.
LEMMA ToldInductive ==
    ASSUME ToldInv, allTell, [MCNext]_mcvars
    PROVE  ToldInv' /\ [Board!Next]_Board!vars
<1>1. CASE UNCHANGED mcvars
  <2>1. Filing' /\ UNCHANGED Board!vars
    BY <1>1, NotOnBoard DEF ToldInv, mcvars, vars, memory
  <2>2. IInv'
    BY <1>1, Inductive DEF ToldInv, mcvars
  <2>3. QED
    BY <1>1, <2>1, <2>2 DEF ToldInv, Resuming, mcvars, vars, memory
<1>2. CASE MCNext
  <2>1. Filing' /\ Resuming' /\ [Board!Next]_Board!vars
    BY <1>2, ToldStep
  <2>2. Next
    BY <1>2 DEF MCNext, Ordinary, Trouble, Next
  <2>3. IInv'
    BY <2>2, Inductive DEF ToldInv
  <2>4. \A n \in 1..Len(feed') : feed'[n].tells
    <3>1. feed \in Seq(Message)
      BY DEF ToldInv, IInv, TypeOK
    <3>2. CASE \E m \in Message : m.tells /\ Publish(m)
      <4>1. PICK m \in Message : m.tells /\ feed' = Append(feed, m)
        BY <3>2 DEF Publish
      <4>2. QED
        BY <3>1, <4>1 DEF ToldInv
    <3>3. CASE feed' = feed
      BY <3>3 DEF ToldInv
    <3>4. QED
      BY <1>2, <3>2, <3>3
      DEF MCNext, Ordinary, Trouble, Open, handleMessage, Close, Reconnect, Resync, Restart,
          reconnectNow, applyConfig
  <2>5. QED
    BY <2>1, <2>3, <2>4 DEF ToldInv
<1>3. QED
  BY <1>1, <1>2

\* Once every message says its sport, always so.
LEMMA ToldAlways == MCSpec => [](allTell => ToldInv)
<1>1. MCInit => (allTell => ToldInv)
  <2> SUFFICES ASSUME MCInit PROVE ToldInv
    OBVIOUS
  <2>1. IInv /\ OneListener /\ TypeOK
    BY InitInv DEF MCInit, IInv, SocketInv
  <2>2. feed = <<>> /\ lastSeq = 0 /\ shown = Nothing /\ sports = EnvSports
    BY DEF MCInit, Init
  <2>3. Filing
    BY <2>2 DEF Filing, Entries, Nothing
  <2>4. Resuming
    <3> DEFINE none == [k \in Socket |-> Unused]
               first == [Unused EXCEPT !.state = "connecting", !.listening = TRUE,
                                       !.sports = EnvSports]
    <3>1. CASE EnvAuto /\ EnvSports # {}
      <4>1. PICK k \in Socket : ws = k /\ sock = [none EXCEPT ![k] = first]
        BY <3>1 DEF MCInit, Init
      <4>2. first.sports = EnvSports /\ first.state = "connecting" /\ first.from = 0
        BY DEF Unused
      <4> HIDE DEF first
      <4>3. sock[ws] = first
        BY <4>1
      <4>4. QED
        BY <2>2, <4>2, <4>3 DEF Resuming
    <3>2. CASE ~(EnvAuto /\ EnvSports # {})
      BY <3>2 DEF MCInit, Init, Resuming
    <3>3. QED
      BY <3>1, <3>2
  <2>5. QED
    BY <2>1, <2>2, <2>3, <2>4 DEF ToldInv
<1>2. (allTell => ToldInv) /\ [MCNext]_mcvars => (allTell => ToldInv)'
  BY ToldInductive DEF MCNext, mcvars
<1>3. QED
  BY <1>1, <1>2, PTL DEF MCSpec

\* When every message says its sport, the client implements the board, for any
\* number of messages, sockets, breaks, resyncs, restarts and reconfigurations: no
\* message is passed over that would change what is shown (buildUrl, handleMessage,
\* setState and its eviction).
THEOREM StreamImplementsBoard == MCSpec => ImplementsBoard
<1>1. MCInit => (allTell => Board!Init)
  <2> SUFFICES ASSUME MCInit PROVE Board!Init
    OBVIOUS
  <2>1. feed = <<>> /\ lastSeq = 0 /\ shown = Nothing
    BY DEF MCInit, Init
  <2>2. \A e \in Event, b \in Bookie : ShownAbout(e, b) = 0
    BY <2>1 DEF ShownAbout, About, Entries, Nothing
  <2>3. QED
    BY <2>1, <2>2, Pairs DEF Board!Init
<1>2. (allTell => ToldInv) /\ [MCNext]_mcvars => [allTell => Board!Next]_Board!vars
  BY ToldInductive
<1>3. QED
  BY <1>1, <1>2, ToldAlways, PTL DEF MCSpec, ImplementsBoard

\* When every message says its sport, there is at most one entry about a pair and
\* it shows the last message about it (the comment on stateMap).  When messages need
\* not say it this fails, with an entry under the sport and one under "unknown".
THEOREM TellingShowsLatest == MCSpec => [](allTell => ShowsLatest)
<1> DEFINE I == allTell => BoardInv
<1>1. MCInit => I
  <2> SUFFICES ASSUME MCInit PROVE BoardInv
    OBVIOUS
  <2>1. feed = <<>> /\ lastSeq = 0 /\ shown = Nothing
    BY DEF MCInit, Init
  <2>2. \A e \in Event, b \in Bookie : ShownAbout(e, b) = 0
    BY <2>1 DEF ShownAbout, About, Entries, Nothing
  <2>3. \A p \in Board!Pair : board[p] = 0
    BY <2>2, Pairs DEF board
  <2>4. QED
    BY <2>1, <2>3 DEF BoardInv, Shown
<1>2. I /\ (allTell => ToldInv) /\ [MCNext]_mcvars => I'
  BY ToldInductive, BoardStep DEF MCNext, mcvars
<1>3. I /\ (allTell => ToldInv) => (allTell => ShowsLatest)
  <2> SUFFICES ASSUME BoardInv, ToldInv PROVE ShowsLatest
    OBVIOUS
  <2>1. Board!ShowsLast
    BY DEF BoardInv, Shown, Last, board, Board!ShowsLast, Board!IsLast, Board!PairOf
  <2>2. ASSUME NEW e \in Event, NEW b \in Bookie PROVE Cardinality(About(e, b)) <= 1
    <3> DEFINE own == <<SportOf[e], e, b>>
    <3>1. About(e, b) \subseteq {own}
      BY OneEntry DEF ToldInv, IInv
    <3> HIDE DEF own
    <3>2. About(e, b) = {} \/ About(e, b) = {own}
      BY <3>1
    <3>3. QED
      BY <3>2, FS_EmptySet, FS_Singleton
  <2>3. QED
    BY <2>1, <2>2 DEF ShowsLatest
<1>4. QED
  BY <1>1, <1>2, <1>3, ToldAlways, PTL DEF MCSpec

=============================================================================
