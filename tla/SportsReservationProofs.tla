------------------------ MODULE SportsReservationProofs ------------------------
(***************************************************************************)
(* What holds of the sports callbacks however many overlap, for every set  *)
(* of ids and amounts (IInv), and of callbacks that are handled one after  *)
(* the other (SerialInv, LedgerInv, ConsumedInv).                          *)
(***************************************************************************)
EXTENDS MCSportsReservation, FiniteSetTheorems, WellFoundedInduction, TLAPS

\* What a callback will write keeps the promises of what is stored: a bet has a
\* proper stake, the reservation has room for what will count as consumed, and
\* the next balance is not negative.
ConnSafe(x) ==
    x \in Callback =>
        /\ x.op \in {"bet", "change"} => x.stake \in Nat
        /\ x.stage = "found" => x.place \in Place
        /\ x.stage = "missed" => x.place = NoPlace
        /\ x.place \in Place /\ x.stage \in {"ready", "paying"}
              => x.consumed <= reservation[x.place[1]].reserved
        /\ x.stage = "paying" => x.next \in Nat

\* A reserve id that is not taken has reserved nothing.
FreeIsEmpty == \A r \in Rid : ~Reserved(r) => reservation[r].reserved = 0

IInv ==
    /\ TypeOK
    /\ ConsumedWithinReserved
    /\ NeverOverdrawn
    /\ OneBetPerRequest
    /\ FreeIsEmpty
    /\ \A c \in Conn : ConnSafe(conn[c])

-----------------------------------------------------------------------------
(* Small facts *)

\* The three kinds of what a connection holds exclude each other.
LEMMA KindsDiffer ==
    /\ Idle \notin Callback
    /\ Ordering \cap Callback = {}
    /\ Idle \notin Ordering
BY DEF Idle, Ordering, Callback, Paying

\* Which of them it is, is told by the op.
LEMMA ConnCases ==
    ASSUME TypeOK, NEW c \in Conn
    PROVE  /\ conn[c].op \in Paying => conn[c] \in Callback
           /\ conn[c].op = "order" => conn[c] \in Ordering
BY DEF TypeOK, Idle, Ordering, Callback, Paying

\* A bet without a reservation is nowhere.
LEMMA NowhereIsNoPlace == NoPlace \notin Place
BY DEF NoPlace, Place

\* The first part of a place is its reservation.
LEMMA PlaceRid == ASSUME NEW p \in Place PROVE p[1] \in Rid
BY DEF Place

\* One callback changes what it has read; the others keep theirs.
LEMMA OneConn ==
    ASSUME TypeOK, NEW c \in Conn, NEW v, conn' = [conn EXCEPT ![c] = v]
    PROVE  conn'[c] = v /\ \A d \in Conn \ {c} : conn'[d] = conn[d]
BY DEF TypeOK

\* Initially nothing is stored or read.
LEMMA InitIInv == Init => IInv
<1> SUFFICES ASSUME Init PROVE IInv
  OBVIOUS
<1>1. NoReservation \in Reservation /\ NoActual \in ActualRow /\ NoTx \in TxRow
  BY DEF NoReservation, Reservation, NoActual, ActualRow, NoTx, TxRow
<1>2. Opening \in Nat /\ Turnover \in Nat
  BY SportsAssumption DEF SportsAssumption
<1>3. TypeOK
  BY <1>1, <1>2 DEF Init, TypeOK
<1>4. ConsumedWithinReserved /\ NeverOverdrawn /\ FreeIsEmpty
  BY <1>2 DEF Init, ConsumedWithinReserved, NeverOverdrawn, FreeIsEmpty, NoReservation
<1>5. OneBetPerRequest
  BY DEF Init, OneBetPerRequest, OnReservation, NoActual
<1>6. \A c \in Conn : ConnSafe(conn[c])
  BY KindsDiffer DEF Init, ConnSafe
<1>7. QED
  BY <1>3, <1>4, <1>5, <1>6 DEF IInv

-----------------------------------------------------------------------------
(* Steps that only read *)

\* A step that stores nothing keeps the invariant when what it has read is safe.
LEMMA ReadStep ==
    ASSUME IInv, NEW c \in Conn, NEW v \in {Idle} \cup Ordering \cup Callback,
           ConnSafe(v), Hold(c, v)
    PROVE  IInv'
<1>1. /\ conn' = [conn EXCEPT ![c] = v]
      /\ UNCHANGED <<balance, reservation, actual, casinoTx, rolling, ledger, effect>>
  BY DEF Hold, stored
<1>2. TypeOK'
  BY <1>1 DEF IInv, TypeOK
<1>3. /\ ConsumedWithinReserved' /\ NeverOverdrawn' /\ OneBetPerRequest' /\ FreeIsEmpty'
  BY <1>1 DEF IInv, ConsumedWithinReserved, NeverOverdrawn, OneBetPerRequest, OnReservation,
              FreeIsEmpty, Reserved
<1>4. ASSUME NEW d \in Conn PROVE ConnSafe(conn[d])'
  <2>1. conn'[d] = v \/ conn'[d] = conn[d]
    BY <1>1, OneConn DEF IInv
  <2>2. ConnSafe(conn'[d])
    BY <2>1 DEF IInv
  <2>3. QED
    BY <1>1, <2>2 DEF ConnSafe
<1>5. QED
  BY <1>2, <1>3, <1>4 DEF IInv

\* A new callback without a place that has a stake and is ready or sent to look
\* elsewhere is safe.
LEMMA NowhereSafe ==
    ASSUME NEW op \in Paying, NEW stage \in {"ready", "missed"},
           NEW tid \in Tid, NEW bet \in Tid, NEW stake \in Nat, NEW delta \in Int
    PROVE  LET x == NewCallback(op, stage, tid, bet, NoPlace, stake, 0, delta)
           IN  x \in Callback /\ ConnSafe(x)
BY NowhereIsNoPlace DEF NewCallback, Callback, Paying, ConnSafe

\* An amount is a number.
LEMMA AmountType == Amounts \subseteq Nat /\ Payouts \subseteq Int
BY SportsAssumption DEF SportsAssumption

LEMMA BetStep ==
    ASSUME IInv, NEW c \in Conn, NEW tid \in Tid,
           PlainBet(c, tid) \/ \E place \in Place : FindReservation(c, tid, place)
    PROVE  IInv'
<1>1. CASE PlainBet(c, tid)
  <2>1. PICK amount \in Amounts :
          Start(c, NewCallback("bet", "ready", tid, tid, NoPlace, amount, 0, -amount))
    BY <1>1 DEF PlainBet
  <2>2. amount \in Nat /\ -amount \in Int
    BY AmountType
  <2>3. QED
    BY <2>1, <2>2, NowhereSafe, ReadStep DEF Start, Paying
<1>2. ASSUME NEW place \in Place, FindReservation(c, tid, place) PROVE IInv'
  <2> DEFINE r == reservation[place[1]]
  <2>1. PICK amount \in Amounts :
          /\ amount <= r.reserved - r.consumed
          /\ Start(c, NewCallback("bet", "ready", tid, tid, place, amount,
                                  r.consumed + amount, -amount))
    BY <1>2 DEF FindReservation
  <2>2. amount \in Nat /\ -amount \in Int
    BY AmountType
  <2>3. r.reserved \in Nat /\ r.consumed \in Int
    BY PlaceRid DEF IInv, TypeOK, Reservation
  <2> DEFINE x == NewCallback("bet", "ready", tid, tid, place, amount, r.consumed + amount, -amount)
  <2>4. r.consumed + amount <= r.reserved
    BY <2>1, <2>2, <2>3
  <2>5. /\ x.op = "bet" /\ x.stage = "ready" /\ x.place = place /\ x.stake = amount
        /\ x.consumed = r.consumed + amount
    BY DEF NewCallback
  <2>6. x \in Callback
    BY <2>2, <2>3 DEF NewCallback, Callback, Paying
  <2>7. ConnSafe(x)
    BY <2>2, <2>4, <2>5 DEF ConnSafe
  <2>8. QED
    BY <2>1, <2>6, <2>7, ReadStep DEF Start
<1>3. QED
  BY <1>1, <1>2

LEMMA ChangeStep ==
    ASSUME IInv, NEW c \in Conn, NEW tid \in Tid, NEW bet \in Tid,
           FindActual(c, tid, bet) \/ \E name \in Names : MissActual(c, tid, bet, name)
    PROVE  IInv'
<1>1. CASE FindActual(c, tid, bet)
  <2>1. PICK amount \in Amounts :
          Start(c, NewCallback("change", "found", tid, bet, actual[bet].place, amount,
                               0, actual[bet].amount - amount))
    BY <1>1 DEF FindActual
  <2>2. amount \in Nat
    BY AmountType
  <2>3. actual[bet].amount \in Nat /\ actual[bet].place \in Place
    BY <1>1 DEF FindActual, OnReservation, IInv, TypeOK, ActualRow
  <2> DEFINE delta == actual[bet].amount - amount
             x == NewCallback("change", "found", tid, bet, actual[bet].place, amount, 0, delta)
  <2>4. delta \in Int
    BY <2>2, <2>3
  <2> HIDE DEF delta
  <2>5. x \in Callback /\ ConnSafe(x)
    BY <2>2, <2>3, <2>4 DEF NewCallback, Callback, Paying, ConnSafe
  <2>6. QED
    BY <2>1, <2>5, ReadStep DEF Start, delta
<1>2. ASSUME NEW name \in Names, MissActual(c, tid, bet, name) PROVE IInv'
  <2>1. PICK amount \in Amounts :
          Start(c, NewCallback("change", "missed", tid, bet, NoPlace, amount, 0, 0))
    BY <1>2 DEF MissActual
  <2>2. amount \in Nat
    BY AmountType
  <2>3. QED
    BY <2>1, <2>2, NowhereSafe, ReadStep DEF Start, Paying
<1>3. QED
  BY <1>1, <1>2

LEMMA UndoOrPayStep ==
    ASSUME IInv, NEW c \in Conn, NEW tid \in Tid,
           \/ FindCancelled(c, tid) \/ FindResult(c, tid)
           \/ \E bet \in Tid : FindRefunded(c, tid, bet)
    PROVE  IInv'
<1>1. \A t \in Tid : casinoTx[t].stake \in Int
  BY DEF IInv, TypeOK, TxRow
<1>2. CASE FindCancelled(c, tid)
  BY <1>1, <1>2, NowhereSafe, ReadStep DEF FindCancelled, Start, Paying
<1>3. CASE FindResult(c, tid)
  <2>1. PICK payout \in Results :
          Start(c, NewCallback("result", "ready", tid, tid, NoPlace, 0, 0, payout))
    BY <1>3 DEF FindResult
  <2>2. payout \in Int
    BY <1>1, AmountType DEF Results
  <2>3. QED
    BY <2>1, <2>2, NowhereSafe, ReadStep DEF Start, Paying
<1>4. ASSUME NEW bet \in Tid, FindRefunded(c, tid, bet) PROVE IInv'
  <2>1. PICK amount \in Amounts :
          Start(c, NewCallback("refund", "ready", tid, bet, NoPlace, 0, 0,
                               Smaller(casinoTx[bet].stake, amount)))
    BY <1>4 DEF FindRefunded
  <2>2. Smaller(casinoTx[bet].stake, amount) \in Int
    BY <1>1, AmountType DEF Smaller
  <2>3. QED
    BY <2>1, <2>2, NowhereSafe, ReadStep DEF Start, Paying
<1>5. QED
  BY <1>2, <1>3, <1>4

LEMMA FindStep == ASSUME IInv, NEW c \in Conn, Find(c) PROVE IInv'
<1>1. ASSUME NEW rid \in Rid, FindToOrder(c, rid) PROVE IInv'
  <2>1. [op |-> "order", rid |-> rid] \in Ordering
    BY DEF Ordering
  <2>2. ConnSafe([op |-> "order", rid |-> rid])
    BY <2>1, KindsDiffer DEF ConnSafe
  <2>3. QED
    BY <1>1, <2>1, <2>2, ReadStep DEF FindToOrder, Start
<1>2. QED
  BY <1>1, BetStep, ChangeStep, UndoOrPayStep DEF Find

LEMMA ReadReservationStep == ASSUME IInv, NEW c \in Conn, ReadReservation(c) PROVE IInv'
<1> DEFINE r == reservation[conn[c].place[1]]
           consumed == r.consumed - conn[c].delta
           x == [conn[c] EXCEPT !.stage = "ready", !.consumed = consumed]
<1>1. conn[c] \in Callback /\ conn[c].op = "change" /\ conn[c].stage = "found"
  BY ConnCases DEF ReadReservation, At, IInv, Paying
<1>2. conn[c].place \in Place /\ conn[c].stake \in Nat /\ conn[c].delta \in Int
  BY <1>1 DEF IInv, ConnSafe, Callback, Paying
<1>3. r.consumed \in Int
  BY <1>2, PlaceRid DEF IInv, TypeOK, Reservation
<1>4. consumed \in Int
  BY <1>2, <1>3
<1>5. consumed <= r.reserved /\ Hold(c, x)
  BY DEF ReadReservation
<1> HIDE DEF consumed
<1>6. /\ x \in Callback /\ x.op = conn[c].op /\ x.stage = "ready" /\ x.place = conn[c].place
      /\ x.stake = conn[c].stake /\ x.consumed = consumed
  BY <1>1, <1>4 DEF Callback, Paying
<1> HIDE DEF x
<1>7. ConnSafe(x)
  BY <1>2, <1>5, <1>6 DEF ConnSafe
<1>8. QED
  BY <1>5, <1>6, <1>7, ReadStep

LEMMA ReadBetStep == ASSUME IInv, NEW c \in Conn, ReadBet(c) PROVE IInv'
<1> DEFINE delta == casinoTx[conn[c].bet].stake - conn[c].stake
           x == [conn[c] EXCEPT !.stage = "ready", !.delta = delta]
<1>1. conn[c] \in Callback /\ conn[c].op = "change" /\ conn[c].stage = "missed" /\ Hold(c, x)
  BY ConnCases DEF ReadBet, At, IInv, Paying
<1>2. conn[c].stake \in Nat /\ conn[c].bet \in Tid
  BY <1>1 DEF IInv, ConnSafe, Callback, Paying
<1>3. delta \in Int
  BY <1>2 DEF IInv, TypeOK, TxRow
<1> HIDE DEF delta
<1>4. /\ x \in Callback /\ x.op = conn[c].op /\ x.stage = "ready" /\ x.place = conn[c].place
      /\ x.stake = conn[c].stake /\ x.consumed = conn[c].consumed
  BY <1>1, <1>3 DEF Callback, Paying
<1> HIDE DEF x
<1>5. conn[c].place \notin Place
  BY <1>1, NowhereIsNoPlace DEF IInv, ConnSafe
<1>6. ConnSafe(x)
  BY <1>2, <1>4, <1>5 DEF ConnSafe
<1>7. QED
  BY <1>1, <1>4, <1>6, ReadStep

LEMMA ReadWalletStep == ASSUME IInv, NEW c \in Conn, ReadWallet(c) PROVE IInv'
<1> DEFINE next == balance + conn[c].delta
           x == [conn[c] EXCEPT !.stage = "paying", !.next = next]
<1>1. conn[c] \in Callback /\ conn[c].stage = "ready" /\ Hold(c, x) /\ ConnSafe(conn[c])
  BY ConnCases DEF ReadWallet, At, IInv
<1>2. conn[c].delta \in Int /\ balance \in Int /\ balance >= 0
  BY <1>1 DEF Callback, Paying, IInv, TypeOK, NeverOverdrawn
<1>3. next \in Nat /\ next \in Int
  BY <1>2 DEF ReadWallet
<1> HIDE DEF next
<1>4. /\ x \in Callback /\ x.op = conn[c].op /\ x.stage = "paying" /\ x.place = conn[c].place
      /\ x.stake = conn[c].stake /\ x.consumed = conn[c].consumed /\ x.next = next
  BY <1>1, <1>3 DEF Callback, Paying
<1> HIDE DEF x
<1>5. ConnSafe(x)
  BY <1>1, <1>3, <1>4 DEF ConnSafe
<1>6. QED
  BY <1>1, <1>4, <1>5, ReadStep

LEMMA AbortStep == ASSUME IInv, NEW c \in Conn, Abort(c) PROVE IInv'
<1>1. ConnSafe(Idle)
  BY KindsDiffer DEF ConnSafe
<1>2. QED
  BY <1>1, ReadStep DEF Abort

-----------------------------------------------------------------------------
(* Steps that store *)

\* What the other callbacks have read stays safe as long as no reservation
\* shrinks.
LEMMA OthersSafe ==
    ASSUME IInv, NEW c \in Conn, conn' = [conn EXCEPT ![c] = Idle],
           \A r \in Rid : reservation[r].reserved <= reservation'[r].reserved,
           reservation' \in [Rid -> Reservation]
    PROVE  \A d \in Conn : ConnSafe(conn[d])'
<1> TAKE d \in Conn
<1>1. CASE d = c
  <2>1. conn'[d] = Idle
    BY <1>1, OneConn DEF IInv
  <2>2. QED
    BY <2>1, KindsDiffer DEF ConnSafe
<1>2. CASE d # c
  <2>1. conn'[d] = conn[d] /\ ConnSafe(conn[d])
    BY <1>2, OneConn DEF IInv
  <2>2. SUFFICES ASSUME conn[d] \in Callback, conn[d].place \in Place,
                        conn[d].stage \in {"ready", "paying"}
                 PROVE  conn[d].consumed <= reservation'[conn[d].place[1]].reserved
    BY <2>1 DEF ConnSafe
  <2> DEFINE r == conn[d].place[1]
  <2>3. r \in Rid
    BY <2>2, PlaceRid
  <2>4. conn[d].consumed <= reservation[r].reserved /\ conn[d].consumed \in Int
    BY <2>1, <2>2 DEF ConnSafe, Callback, Paying
  <2>5. reservation[r].reserved \in Nat /\ reservation'[r].reserved \in Nat
    BY <2>3 DEF IInv, TypeOK, Reservation
  <2> HIDE DEF r
  <2>6. conn[d].consumed <= reservation'[r].reserved
    BY <2>3, <2>4, <2>5
  <2>7. QED
    BY <2>6 DEF r
<1>3. QED
  BY <1>1, <1>2

\* What a step that changes the wallet leaves there.
LEMMA EnterStep ==
    ASSUME IInv, NEW c \in Conn, NEW bet \in Tid, conn[c] \in Callback,
           conn[c].stage = "paying", Enter(c, bet)
    PROVE  /\ balance' \in Int /\ NeverOverdrawn'
           /\ ledger' \in Int /\ effect' \in [Tid -> Int]
           /\ conn' = [conn EXCEPT ![c] = Idle]
           /\ conn' \in [Conn -> {Idle} \cup Ordering \cup Callback]
<1>1. conn[c].next \in Nat /\ conn[c].delta \in Int
  BY DEF IInv, ConnSafe, Callback, Paying
<1>2. QED
  BY <1>1 DEF Enter, IInv, TypeOK, NeverOverdrawn

\* A step that leaves the reservations and their bets alone keeps the invariant.
LEMMA MoneyStep ==
    ASSUME IInv, NEW c \in Conn, NEW bet \in Tid, conn[c] \in Callback,
           conn[c].stage = "paying", Enter(c, bet),
           casinoTx' \in [Tid -> TxRow], rolling' \in Nat, UNCHANGED <<reservation, actual>>
    PROVE  IInv'
<1>1. TypeOK' /\ NeverOverdrawn'
  BY EnterStep DEF IInv, TypeOK
<1>2. ConsumedWithinReserved' /\ OneBetPerRequest' /\ FreeIsEmpty'
  BY DEF IInv, ConsumedWithinReserved, OneBetPerRequest, OnReservation, FreeIsEmpty, Reserved
<1>3. reservation \in [Rid -> Reservation]
  BY DEF IInv, TypeOK
<1>4. \A r \in Rid : reservation[r].reserved <= reservation'[r].reserved
  BY <1>3 DEF Reservation
<1>5. \A d \in Conn : ConnSafe(conn[d])'
  BY <1>3, <1>4, OthersSafe, EnterStep
<1>6. QED
  BY <1>1, <1>2, <1>5 DEF IInv

\* What a callback that holds a place writes to its reservation.
LEMMA ConsumeStep ==
    ASSUME IInv, NEW c \in Conn, conn[c] \in Callback, conn[c].stage = "paying",
           conn[c].place # NoPlace, Consume(c)
    PROVE  /\ conn[c].place \in Place
           /\ reservation' \in [Rid -> Reservation]
           /\ \A r \in Rid : /\ reservation'[r].reserved = reservation[r].reserved
                             /\ reservation'[r].status = reservation[r].status
           /\ ConsumedWithinReserved'
<1>1. conn[c].place \in Place /\ conn[c].consumed \in Int
  BY DEF Callback, Paying
<1> DEFINE rid == conn[c].place[1]
           consumed == conn[c].consumed
<1>2. rid \in Rid /\ consumed <= reservation[rid].reserved
  BY <1>1, PlaceRid DEF IInv, ConnSafe
<1>3. reservation' = [reservation EXCEPT ![rid].consumed = consumed]
  BY DEF Consume
<1>4. consumed \in Int
  BY <1>1
<1> HIDE DEF rid, consumed
<1>5. reservation \in [Rid -> Reservation] /\ ConsumedWithinReserved
  BY DEF IInv, TypeOK
<1>6. /\ reservation' \in [Rid -> Reservation]
      /\ \A r \in Rid : /\ reservation'[r].reserved = reservation[r].reserved
                        /\ reservation'[r].status = reservation[r].status
  BY <1>3, <1>4, <1>5 DEF Reservation
<1>7. ASSUME NEW r \in Rid PROVE reservation'[r].consumed <= reservation'[r].reserved
  <2>1. CASE r = rid
    BY <1>2, <1>3, <1>5, <2>1 DEF Reservation
  <2>2. CASE r # rid
    BY <1>3, <1>5, <2>2 DEF Reservation, ConsumedWithinReserved
  <2>3. QED
    BY <2>1, <2>2
<1>8. QED
  BY <1>1, <1>6, <1>7 DEF ConsumedWithinReserved

\* A step that also writes a reservation and a bet on it keeps the invariant, when
\* no two bets have one place.
LEMMA PlacedStep ==
    ASSUME IInv, NEW c \in Conn, NEW bet \in Tid, conn[c] \in Callback,
           conn[c].stage = "paying", conn[c].place # NoPlace, Enter(c, bet), Consume(c),
           casinoTx' \in [Tid -> TxRow], rolling' \in Nat, actual' \in [Tid -> ActualRow],
           OneBetPerRequest'
    PROVE  IInv'
<1>1. TypeOK' /\ NeverOverdrawn' /\ ConsumedWithinReserved'
  BY EnterStep, ConsumeStep DEF IInv, TypeOK
<1>2. FreeIsEmpty'
  BY ConsumeStep DEF IInv, FreeIsEmpty, Reserved
<1>3. reservation \in [Rid -> Reservation]
  BY DEF IInv, TypeOK
<1>4. /\ reservation' \in [Rid -> Reservation]
      /\ \A r \in Rid : reservation[r].reserved <= reservation'[r].reserved
  BY <1>3, ConsumeStep DEF Reservation
<1>5. \A d \in Conn : ConnSafe(conn[d])'
  BY <1>4, OthersSafe, EnterStep
<1>6. QED
  BY <1>1, <1>2, <1>5 DEF IInv

\* The row a callback inserts is well typed.
LEMMA InsertType ==
    ASSUME NEW kind \in {"BET", "CHANGE", "RESULT", "REFUND"}, NEW stake \in Int
    PROVE  Insert(kind, stake) \in TxRow
BY DEF Insert, NoTx, TxRow

LEMMA CommitBetStep == ASSUME IInv, NEW c \in Conn, CommitBet(c) PROVE IInv'
<1> DEFINE tid == conn[c].tid
           place == conn[c].place
           stake == conn[c].stake
<1>1. /\ conn[c] \in Callback /\ conn[c].stage = "paying" /\ tid \in Tid /\ stake \in Nat
      /\ Enter(c, tid)
  BY ConnCases DEF CommitBet, At, IInv, ConnSafe, Callback, Paying
<1>2. casinoTx' \in [Tid -> TxRow]
  <2>1. Insert("BET", stake) \in TxRow
    BY <1>1, InsertType
  <2>2. QED
    BY <1>1, <2>1 DEF CommitBet, IInv, TypeOK
<1>3. rolling' \in Nat
  BY <1>1 DEF CommitBet, Turned, Smaller, IInv, TypeOK
<1>4. CASE place = NoPlace
  BY <1>1, <1>2, <1>3, <1>4, MoneyStep DEF CommitBet
<1>5. CASE place # NoPlace
  <2> DEFINE row == [place |-> place, amount |-> stake]
  <2>1. /\ actual' = [actual EXCEPT ![tid] = row] /\ Consume(c)
        /\ \A t \in Tid : actual[t].place # place
    BY <1>5 DEF CommitBet
  <2>2. row \in ActualRow /\ row.place = place
    BY <1>1 DEF Callback, Paying, ActualRow
  <2> HIDE DEF row, tid, place
  <2>3. /\ actual' \in [Tid -> ActualRow] /\ actual'[tid] = row
        /\ \A t \in Tid \ {tid} : actual'[t] = actual[t]
    BY <1>1, <2>1, <2>2 DEF IInv, TypeOK
  <2>4. OneBetPerRequest'
    BY <2>1, <2>2, <2>3 DEF IInv, OneBetPerRequest, OnReservation
  <2>5. QED
    BY <1>1, <1>2, <1>3, <1>5, <2>1, <2>3, <2>4, PlacedStep DEF place
<1>6. QED
  BY <1>4, <1>5

LEMMA CommitChangeStep == ASSUME IInv, NEW c \in Conn, CommitChange(c) PROVE IInv'
<1> DEFINE tid == conn[c].tid
           bet == conn[c].bet
           place == conn[c].place
           stake == conn[c].stake
<1>1. /\ conn[c] \in Callback /\ conn[c].stage = "paying" /\ tid \in Tid /\ bet \in Tid
      /\ stake \in Nat /\ conn[c].delta \in Int /\ Enter(c, bet)
  BY ConnCases DEF CommitChange, At, IInv, ConnSafe, Callback, Paying
<1>2. casinoTx' \in [Tid -> TxRow]
  <2>1. Insert("CHANGE", Size(conn[c].delta)) \in TxRow
    BY <1>1, InsertType DEF Size
  <2>2. casinoTx' = [casinoTx EXCEPT ![bet].stake = stake,
                                     ![tid] = Insert("CHANGE", Size(conn[c].delta))]
    BY DEF CommitChange, ChangeTx
  <2> DEFINE row == [casinoTx[bet] EXCEPT !.stake = stake]
  <2>3. row \in TxRow
    BY <1>1 DEF IInv, TypeOK, TxRow
  <2>4. casinoTx' = [[casinoTx EXCEPT ![bet] = row]
                        EXCEPT ![tid] = Insert("CHANGE", Size(conn[c].delta))]
    BY <2>2
  <2> HIDE DEF row, tid, bet
  <2>5. QED
    BY <1>1, <2>1, <2>3, <2>4 DEF IInv, TypeOK
<1>3. rolling' \in Nat
  BY DEF CommitChange, IInv, TypeOK
<1>4. CASE place = NoPlace
  BY <1>1, <1>2, <1>3, <1>4, MoneyStep DEF CommitChange
<1>5. CASE place # NoPlace
  <2>1. actual' = [actual EXCEPT ![bet].amount = stake] /\ Consume(c)
    BY <1>5 DEF CommitChange
  <2> HIDE DEF bet, stake, place
  <2>2. /\ actual' \in [Tid -> ActualRow]
        /\ \A t \in Tid : actual'[t].place = actual[t].place
    BY <1>1, <2>1 DEF IInv, TypeOK, ActualRow
  <2>3. OneBetPerRequest'
    BY <2>2 DEF IInv, OneBetPerRequest, OnReservation
  <2>4. QED
    BY <1>1, <1>2, <1>3, <1>5, <2>1, <2>2, <2>3, PlacedStep DEF place
<1>6. QED
  BY <1>4, <1>5

LEMMA CommitOtherStep ==
    ASSUME IInv, NEW c \in Conn, CommitCancel(c) \/ CommitRefund(c) \/ CommitResult(c)
    PROVE  IInv'
<1> DEFINE tid == conn[c].tid
           bet == conn[c].bet
           refund == Insert("REFUND", conn[c].delta)
<1>1. /\ conn[c] \in Callback /\ conn[c].stage = "paying" /\ tid \in Tid /\ bet \in Tid
      /\ conn[c].delta \in Int
      /\ Enter(c, tid) \/ Enter(c, bet)
      /\ UNCHANGED <<reservation, actual, rolling>>
  BY ConnCases DEF CommitCancel, CommitRefund, CommitResult, At, IInv, Callback, Paying
<1>2. casinoTx' \in [Tid -> TxRow]
  <2>1. Insert("RESULT", 0) \in TxRow /\ refund \in TxRow
    BY <1>1, InsertType
  <2>2. \/ casinoTx' = [casinoTx EXCEPT ![tid].cancelled = TRUE]
        \/ casinoTx' = [casinoTx EXCEPT ![tid] = Insert("RESULT", 0)]
        \/ casinoTx' = [casinoTx EXCEPT ![bet].refunded = TRUE, ![tid] = refund]
    BY DEF CommitCancel, CommitRefund, CommitResult
  <2> HIDE DEF tid, bet, refund
  <2>3. CASE casinoTx' = [casinoTx EXCEPT ![tid].cancelled = TRUE]
    BY <1>1, <2>3 DEF IInv, TypeOK, TxRow
  <2>4. CASE casinoTx' = [casinoTx EXCEPT ![tid] = Insert("RESULT", 0)]
    BY <1>1, <2>1, <2>4 DEF IInv, TypeOK
  <2>5. CASE casinoTx' = [casinoTx EXCEPT ![bet].refunded = TRUE, ![tid] = refund]
    <3> DEFINE row == [casinoTx[bet] EXCEPT !.refunded = TRUE]
    <3>1. row \in TxRow
      BY <1>1 DEF IInv, TypeOK, TxRow
    <3>2. casinoTx' = [[casinoTx EXCEPT ![bet] = row] EXCEPT ![tid] = refund]
      BY <2>5
    <3> HIDE DEF row
    <3>3. QED
      BY <1>1, <2>1, <3>1, <3>2 DEF IInv, TypeOK
  <2>6. QED
    BY <2>2, <2>3, <2>4, <2>5
<1>3. rolling' \in Nat
  BY <1>1 DEF IInv, TypeOK
<1>4. QED
  BY <1>1, <1>2, <1>3, MoneyStep

LEMMA OrderStep == ASSUME IInv, NEW c \in Conn, Order(c) PROVE IInv'
<1>1. /\ reservation' = [reservation EXCEPT ![conn[c].rid].status = "ORDERED",
                                            ![conn[c].rid].ordered = TRUE]
      /\ conn' = [conn EXCEPT ![c] = Idle]
      /\ UNCHANGED <<balance, actual, casinoTx, rolling, ledger, effect>>
  BY DEF Order
<1>2. reservation \in [Rid -> Reservation]
  BY DEF IInv, TypeOK
<1>3. conn[c].rid \in Rid
  BY ConnCases DEF Order, IInv, Ordering
<1>4. /\ reservation' \in [Rid -> Reservation]
      /\ \A r \in Rid : /\ reservation'[r].reserved = reservation[r].reserved
                        /\ reservation'[r].consumed = reservation[r].consumed
                        /\ reservation'[r].status = "NONE" => reservation[r].status = "NONE"
  BY <1>1, <1>2, <1>3 DEF Reservation
<1>5. TypeOK'
  BY <1>1, <1>4 DEF IInv, TypeOK
<1>6. ConsumedWithinReserved' /\ NeverOverdrawn' /\ OneBetPerRequest' /\ FreeIsEmpty'
  BY <1>1, <1>4 DEF IInv, ConsumedWithinReserved, NeverOverdrawn, OneBetPerRequest, OnReservation,
                    FreeIsEmpty, Reserved
<1>7. \A r \in Rid : reservation[r].reserved <= reservation'[r].reserved
  BY <1>2, <1>4 DEF Reservation
<1>8. QED
  BY <1>1, <1>4, <1>5, <1>6, <1>7, OthersSafe DEF IInv

\* A step that only writes reservations, and no less reserved than there was, keeps
\* what the callbacks have read safe.
LEMMA StaySafe ==
    ASSUME IInv, UNCHANGED conn, reservation' \in [Rid -> Reservation],
           \A r \in Rid : reservation[r].reserved <= reservation'[r].reserved
    PROVE  \A d \in Conn : ConnSafe(conn[d])'
<1> SUFFICES ASSUME NEW d \in Conn, conn[d] \in Callback, conn[d].place \in Place,
                    conn[d].stage \in {"ready", "paying"}
             PROVE  conn[d].consumed <= reservation'[conn[d].place[1]].reserved
  BY DEF IInv, ConnSafe
<1> DEFINE r == conn[d].place[1]
<1>1. r \in Rid
  BY PlaceRid
<1>2. conn[d].consumed <= reservation[r].reserved /\ conn[d].consumed \in Int
  BY DEF IInv, ConnSafe, Callback, Paying
<1>3. reservation[r].reserved \in Nat /\ reservation'[r].reserved \in Nat
  BY <1>1 DEF IInv, TypeOK, Reservation
<1> HIDE DEF r
<1>4. conn[d].consumed <= reservation'[r].reserved
  BY <1>1, <1>2, <1>3
<1>5. QED
  BY <1>4 DEF r

LEMMA ReserveStep == ASSUME IInv, NEW rid \in Rid, Reserve(rid) PROVE IInv'
<1>1. PICK amount \in Reserves, ordered \in BOOLEAN :
        reservation' = [reservation EXCEPT ![rid] =
            [status |-> IF ordered THEN "ORDERED" ELSE "PENDING",
             reserved |-> amount, consumed |-> 0, ordered |-> ordered]]
  BY DEF Reserve
<1> DEFINE row == [status |-> IF ordered THEN "ORDERED" ELSE "PENDING",
                   reserved |-> amount, consumed |-> 0, ordered |-> ordered]
<1>2. amount \in Nat
  BY SportsAssumption DEF SportsAssumption
<1>3. (IF ordered THEN "ORDERED" ELSE "PENDING") \in {"PENDING", "ORDERED"}
  OBVIOUS
<1>4. /\ row \in Reservation /\ row.reserved = amount /\ row.consumed = 0
      /\ row.status # "NONE"
  BY <1>2, <1>3 DEF Reservation
<1>5. reservation' = [reservation EXCEPT ![rid] = row]
  BY <1>1
<1> HIDE DEF row
<1>6. reservation \in [Rid -> Reservation] /\ reservation[rid].reserved = 0
  BY DEF IInv, TypeOK, FreeIsEmpty, Reserve
<1>7. /\ reservation' \in [Rid -> Reservation] /\ reservation'[rid] = row
      /\ \A r \in Rid \ {rid} : reservation'[r] = reservation[r]
  BY <1>4, <1>5, <1>6
<1>8. UNCHANGED <<balance, actual, casinoTx, rolling, ledger, effect, conn>>
  BY DEF Reserve
<1>9. TypeOK'
  BY <1>7, <1>8 DEF IInv, TypeOK
<1>10. NeverOverdrawn' /\ OneBetPerRequest'
  BY <1>8 DEF IInv, NeverOverdrawn, OneBetPerRequest, OnReservation
<1>11. ConsumedWithinReserved' /\ FreeIsEmpty'
  BY <1>2, <1>4, <1>7 DEF IInv, ConsumedWithinReserved, FreeIsEmpty, Reserved
<1>12. ASSUME NEW r \in Rid PROVE reservation[r].reserved <= reservation'[r].reserved
  <2>1. CASE r = rid
    BY <1>2, <1>4, <1>6, <1>7, <2>1
  <2>2. CASE r # rid
    BY <1>6, <1>7, <2>2 DEF Reservation
  <2>3. QED
    BY <2>1, <2>2
<1>13. QED
  BY <1>7, <1>8, <1>9, <1>10, <1>11, <1>12, StaySafe DEF IInv

LEMMA ConfirmStep == ASSUME IInv, NEW rid \in Rid, Confirm(rid) PROVE IInv'
<1>1. /\ Reserved(rid) /\ reservation' = [reservation EXCEPT ![rid].status = "CONFIRMED"]
      /\ UNCHANGED <<balance, actual, casinoTx, rolling, ledger, effect, conn>>
  BY DEF Confirm
<1>2. reservation \in [Rid -> Reservation]
  BY DEF IInv, TypeOK
<1>3. /\ reservation' \in [Rid -> Reservation]
      /\ \A r \in Rid : /\ reservation'[r].reserved = reservation[r].reserved
                        /\ reservation'[r].consumed = reservation[r].consumed
                        /\ reservation'[r].status = "NONE" => reservation[r].status = "NONE"
  BY <1>1, <1>2 DEF Reservation
<1>4. TypeOK'
  BY <1>1, <1>3 DEF IInv, TypeOK
<1>5. ConsumedWithinReserved' /\ NeverOverdrawn' /\ OneBetPerRequest' /\ FreeIsEmpty'
  BY <1>1, <1>3 DEF IInv, ConsumedWithinReserved, NeverOverdrawn, OneBetPerRequest, OnReservation,
                    FreeIsEmpty, Reserved
<1>6. \A r \in Rid : reservation[r].reserved <= reservation'[r].reserved
  BY <1>2, <1>3 DEF Reservation
<1>7. QED
  BY <1>1, <1>3, <1>4, <1>5, <1>6, StaySafe DEF IInv

-----------------------------------------------------------------------------
(* However callbacks overlap *)

LEMMA NextIInv == IInv /\ [Next]_vars => IInv'
<1> SUFFICES ASSUME IInv, [Next]_vars PROVE IInv'
  OBVIOUS
<1>1. ASSUME NEW c \in Conn, Read(c) PROVE IInv'
  BY <1>1, ReadReservationStep, ReadBetStep, ReadWalletStep DEF Read
<1>2. ASSUME NEW c \in Conn, Commit(c) PROVE IInv'
  BY <1>2, OrderStep, CommitBetStep, CommitChangeStep, CommitOtherStep DEF Commit
<1>3. CASE UNCHANGED vars
  BY <1>3 DEF vars, IInv, TypeOK, ConsumedWithinReserved, NeverOverdrawn, OneBetPerRequest,
              OnReservation, FreeIsEmpty, Reserved, ConnSafe
<1>4. QED
  BY <1>1, <1>2, <1>3, FindStep, AbortStep, ReserveStep, ConfirmStep DEF Next

LEMMA AlwaysIInv == Spec => []IInv
BY InitIInv, NextIInv, PTL DEF Spec

\* Every reachable state is well typed (schema.prisma, SportsBetReservation,
\* SportsBetActual, CasinoVinusTx).
THEOREM SportsTypeCorrect == Spec => []TypeOK
<1>1. IInv => TypeOK
  BY DEF IInv
<1>2. QED
  BY <1>1, AlwaysIInv, PTL

\* However bets and changes overlap, what a reservation counts as consumed is
\* within what was reserved (sportsBetWithReserveProd, sportsBetChangeProd).
THEOREM AlwaysWithinReserved == Spec => []ConsumedWithinReserved
<1>1. IInv => ConsumedWithinReserved
  BY DEF IInv
<1>2. QED
  BY <1>1, AlwaysIInv, PTL

\* However callbacks overlap, no more is taken than there is (deductStake).
THEOREM SportsNeverOverdrawn == Spec => []NeverOverdrawn
<1>1. IInv => NeverOverdrawn
  BY DEF IInv
<1>2. QED
  BY <1>1, AlwaysIInv, PTL

\* However deliveries overlap, no request for a reservation gets a second bet
\* (schema.prisma, SportsBetActual).
THEOREM OneBetForEachRequest == Spec => []OneBetPerRequest
<1>1. IInv => OneBetPerRequest
  BY DEF IInv
<1>2. QED
  BY <1>1, AlwaysIInv, PTL

-----------------------------------------------------------------------------
(* One callback after the other *)

\* c takes a step and no other callback is open.
Alone(c) == \A d \in Conn \ {c} : conn[d] = Idle /\ conn'[d] = Idle

\* What a callback that is handled alone has read is current: a bet takes its
\* stake, the bet of a cancellation or a refund is there, a change gives back what the
\* bet's rows say now and takes its new stake.
Current(x) ==
    x \in Callback =>
        /\ x.op = "bet" => x.delta = -x.stake
        /\ x.op = "cancel" => Exists(x.tid)
        /\ x.op = "refund" => IsBet(x.bet)
        /\ x.op = "change" /\ x.place # NoPlace =>
              OnReservation(x.bet) /\ x.delta = actual[x.bet].amount - x.stake
        /\ x.op = "change" /\ x.place = NoPlace =>
              /\ ~OnReservation(x.bet)
              /\ x.stage # "missed" => IsBet(x.bet) /\ x.delta = casinoTx[x.bet].stake - x.stake

\* A row that is not there has had no effect, and only bets are on reservations.
RowsAgree ==
    \A t \in Tid : /\ ~Exists(t) => effect[t] = 0
                   /\ OnReservation(t) => IsBet(t)

SerialInv ==
    /\ IInv
    /\ RowsAgree
    /\ BetsCostTheirStake
    /\ \A c \in Conn : Current(conn[c])

LEMMA InitSerialInv == Init => SerialInv
<1> SUFFICES ASSUME Init PROVE SerialInv
  OBVIOUS
<1>1. RowsAgree /\ BetsCostTheirStake
  BY DEF Init, RowsAgree, BetsCostTheirStake, Exists, OnReservation, IsBet, NoTx, NoActual
<1>2. \A c \in Conn : Current(conn[c])
  BY KindsDiffer DEF Init, Current
<1>3. QED
  BY <1>1, <1>2, InitIInv DEF SerialInv

\* A step that stores nothing keeps the invariant when what it has read is current.
LEMMA SerialReadStep ==
    ASSUME SerialInv, IInv', NEW c \in Conn, Alone(c), NEW v, Current(v), Hold(c, v)
    PROVE  SerialInv'
<1>1. /\ conn'[c] = v
      /\ UNCHANGED <<balance, reservation, actual, casinoTx, rolling, ledger, effect>>
  BY DEF Hold, stored, SerialInv, IInv, TypeOK
<1>2. RowsAgree' /\ BetsCostTheirStake'
  BY <1>1 DEF SerialInv, RowsAgree, BetsCostTheirStake, Exists, OnReservation, IsBet
<1>3. Current(conn[c])'
  BY <1>1 DEF Current, OnReservation, IsBet, Exists
<1>4. ASSUME NEW d \in Conn \ {c} PROVE Current(conn[d])'
  BY KindsDiffer DEF Alone, Current
<1>5. QED
  BY <1>2, <1>3, <1>4 DEF SerialInv

\* A new callback has read what is there.
LEMMA SerialFind ==
    ASSUME SerialInv, IInv', NEW c \in Conn, Alone(c), NamesTransaction', Find(c)
    PROVE  SerialInv'
<1>1. ASSUME NEW rid \in Rid, FindToOrder(c, rid) PROVE SerialInv'
  <2>1. Current([op |-> "order", rid |-> rid])
    BY KindsDiffer DEF Current, Ordering
  <2>2. QED
    BY <1>1, <2>1, SerialReadStep DEF FindToOrder, Start
<1>2. ASSUME NEW tid \in Tid, NEW place \in Place \cup {NoPlace}, NEW amount \in Int, NEW consumed,
             Start(c, NewCallback("bet", "ready", tid, tid, place, amount, consumed, -amount))
      PROVE  SerialInv'
  <2> DEFINE x == NewCallback("bet", "ready", tid, tid, place, amount, consumed, -amount)
  <2>1. /\ x.op = "bet" /\ x.stage = "ready" /\ x.delta = -x.stake
    BY DEF NewCallback
  <2>2. Current(x)
    BY <2>1 DEF Current
  <2>3. QED
    BY <1>2, <2>2, SerialReadStep DEF Start
<1>3. ASSUME NEW tid \in Tid, PlainBet(c, tid) PROVE SerialInv'
  BY <1>2, <1>3, AmountType DEF PlainBet
<1>4. ASSUME NEW tid \in Tid, NEW place \in Place, FindReservation(c, tid, place) PROVE SerialInv'
  BY <1>2, <1>4, AmountType DEF FindReservation
<1>5. ASSUME NEW tid \in Tid, NEW bet \in Tid, FindActual(c, tid, bet) PROVE SerialInv'
  <2>1. PICK amount \in Amounts :
          /\ OnReservation(bet)
          /\ Start(c, NewCallback("change", "found", tid, bet, actual[bet].place, amount,
                                  0, actual[bet].amount - amount))
    BY <1>5 DEF FindActual
  <2> DEFINE x == NewCallback("change", "found", tid, bet, actual[bet].place, amount,
                              0, actual[bet].amount - amount)
  <2>2. /\ x.op = "change" /\ x.stage = "found" /\ x.bet = bet /\ x.place = actual[bet].place
        /\ x.delta = actual[bet].amount - x.stake
    BY DEF NewCallback
  <2>3. Current(x)
    BY <2>1, <2>2 DEF Current, OnReservation
  <2>4. QED
    BY <2>1, <2>3, SerialReadStep DEF Start
<1>6. ASSUME NEW tid \in Tid, NEW bet \in Tid, NEW name \in Names, MissActual(c, tid, bet, name)
      PROVE  SerialInv'
  <2>1. PICK amount \in Amounts :
          Start(c, NewCallback("change", "missed", tid, bet, NoPlace, amount, 0, 0))
    BY <1>6 DEF MissActual
  <2> DEFINE x == NewCallback("change", "missed", tid, bet, NoPlace, amount, 0, 0)
  <2>2. x.op = "change" /\ x.stage = "missed" /\ x.bet = bet /\ x.place = NoPlace
    BY DEF NewCallback
  <2>3. conn'[c] = x /\ actual' = actual
    BY <2>1 DEF Start, Hold, stored, SerialInv, IInv, TypeOK
  <2> HIDE DEF x
  <2>4. ~OnReservation(bet)
    BY <2>2, <2>3 DEF NamesTransaction, OnReservation
  <2>5. Current(x)
    BY <2>2, <2>4 DEF Current
  <2>6. QED
    BY <2>1, <2>5, SerialReadStep DEF Start, x
<1>7. ASSUME NEW op \in {"cancel", "refund", "result"}, NEW tid \in Tid, NEW bet \in Tid,
             NEW delta, op = "cancel" => Exists(tid), op = "refund" => IsBet(bet),
             Start(c, NewCallback(op, "ready", tid, bet, NoPlace, 0, 0, delta))
      PROVE  SerialInv'
  <2> DEFINE x == NewCallback(op, "ready", tid, bet, NoPlace, 0, 0, delta)
  <2>1. x.op = op /\ x.stage = "ready" /\ x.tid = tid /\ x.bet = bet
    BY DEF NewCallback
  <2>2. Current(x)
    BY <1>7, <2>1 DEF Current
  <2>3. QED
    BY <1>7, <2>2, SerialReadStep DEF Start
<1>8. ASSUME NEW tid \in Tid,
             \/ FindCancelled(c, tid) \/ FindResult(c, tid)
             \/ \E bet \in Tid : FindRefunded(c, tid, bet)
      PROVE  SerialInv'
  BY <1>7, <1>8 DEF FindCancelled, FindRefunded, FindResult, IsBet, Exists
<1>9. QED
  BY <1>1, <1>3, <1>4, <1>5, <1>6, <1>8 DEF Find

LEMMA SerialRead ==
    ASSUME SerialInv, IInv', NEW c \in Conn, Alone(c), Read(c)
    PROVE  SerialInv'
<1>1. conn[c].op \in Paying
  BY DEF Read, ReadReservation, ReadBet, ReadWallet, At, Paying
<1>2. conn[c] \in Callback /\ Current(conn[c]) /\ ConnSafe(conn[c])
  BY <1>1, ConnCases DEF SerialInv, IInv
<1>3. CASE ReadReservation(c)
  <2>1. PICK consumed :
          Hold(c, [conn[c] EXCEPT !.stage = "ready", !.consumed = consumed])
    BY <1>3 DEF ReadReservation
  <2> DEFINE x == [conn[c] EXCEPT !.stage = "ready", !.consumed = consumed]
  <2>2. /\ x.op = "change" /\ x.stage = "ready" /\ x.bet = conn[c].bet
        /\ x.place = conn[c].place /\ x.stake = conn[c].stake /\ x.delta = conn[c].delta
    BY <1>2, <1>3 DEF ReadReservation, At, Callback, Paying
  <2>3. conn[c].op = "change" /\ conn[c].place # NoPlace
    BY <1>2, <1>3, NowhereIsNoPlace DEF ReadReservation, At, ConnSafe
  <2> HIDE DEF x
  <2>4. Current(x)
    BY <1>2, <2>2, <2>3 DEF Current
  <2>5. QED
    BY <2>1, <2>4, SerialReadStep DEF x
<1>4. CASE ReadBet(c)
  <2> DEFINE x == [conn[c] EXCEPT !.stage = "ready",
                                  !.delta = casinoTx[conn[c].bet].stake - conn[c].stake]
  <2>1. Hold(c, x) /\ IsBet(conn[c].bet) /\ conn[c].stage = "missed" /\ conn[c].op = "change"
    BY <1>4 DEF ReadBet, At
  <2>2. /\ x.op = "change" /\ x.stage = "ready" /\ x.bet = conn[c].bet
        /\ x.place = conn[c].place /\ x.stake = conn[c].stake
        /\ x.delta = casinoTx[x.bet].stake - x.stake
    BY <1>2, <2>1 DEF Callback, Paying
  <2>3. conn[c].place = NoPlace /\ ~OnReservation(conn[c].bet)
    BY <1>2, <2>1 DEF ConnSafe, Current
  <2> HIDE DEF x
  <2>4. Current(x)
    BY <2>1, <2>2, <2>3 DEF Current
  <2>5. QED
    BY <2>1, <2>4, SerialReadStep
<1>5. CASE ReadWallet(c)
  <2> DEFINE x == [conn[c] EXCEPT !.stage = "paying", !.next = balance + conn[c].delta]
  <2>1. Hold(c, x) /\ conn[c].stage = "ready"
    BY <1>5 DEF ReadWallet, At
  <2>2. /\ x.op = conn[c].op /\ x.stage = "paying" /\ x.bet = conn[c].bet /\ x.tid = conn[c].tid
        /\ x.place = conn[c].place /\ x.stake = conn[c].stake /\ x.delta = conn[c].delta
        /\ x.next = balance + x.delta
    BY <1>2, <2>1 DEF Callback, Paying
  <2> HIDE DEF x
  <2>3. Current(x)
    BY <1>2, <2>1, <2>2 DEF Current
  <2>4. QED
    BY <2>1, <2>3, SerialReadStep
<1>6. QED
  BY <1>3, <1>4, <1>5 DEF Read

\* What is left when a callback is done.
LEMMA SerialEnter ==
    ASSUME SerialInv, NEW c \in Conn, Alone(c), NEW bet \in Tid, conn[c] \in Callback,
           conn[c].stage = "paying", Enter(c, bet)
    PROVE  /\ \A d \in Conn : Current(conn[d])'
           /\ effect'[bet] = effect[bet] + conn[c].delta
           /\ \A t \in Tid \ {bet} : effect'[t] = effect[t]
<1>1. conn'[c] = Idle
  BY DEF Enter, SerialInv, IInv, TypeOK
<1>2. \A d \in Conn : Current(conn[d])'
  BY <1>1, KindsDiffer DEF Current, Alone
<1>3. QED
  BY <1>2 DEF Enter, SerialInv, IInv, TypeOK

LEMMA SerialBet ==
    ASSUME SerialInv, IInv', NEW c \in Conn, Alone(c), CommitBet(c)
    PROVE  SerialInv'
<1> DEFINE tid == conn[c].tid
           stake == conn[c].stake
<1>1. /\ conn[c] \in Callback /\ conn[c].stage = "paying" /\ tid \in Tid /\ Enter(c, tid)
      /\ conn[c].delta = -stake /\ stake \in Nat /\ ~Exists(tid)
  BY ConnCases DEF CommitBet, At, SerialInv, IInv, Current, ConnSafe, Callback, Paying
<1>2. casinoTx' = [casinoTx EXCEPT ![tid] = Insert("BET", stake)]
  BY DEF CommitBet
<1>3. \/ actual' = actual
      \/ actual' = [actual EXCEPT ![tid] = [place |-> conn[c].place, amount |-> stake]]
  BY DEF CommitBet
<1>4. /\ effect'[tid] = effect[tid] + conn[c].delta
      /\ \A t \in Tid \ {tid} : effect'[t] = effect[t]
      /\ \A d \in Conn : Current(conn[d])'
  BY <1>1, SerialEnter
<1>5. effect[tid] = 0 /\ ~OnReservation(tid)
  BY <1>1 DEF SerialInv, RowsAgree, Exists, IsBet
<1> HIDE DEF tid, stake
<1>6. effect'[tid] = -stake
  BY <1>1, <1>4, <1>5
<1>7. /\ casinoTx'[tid] = Insert("BET", stake)
      /\ \A t \in Tid \ {tid} : casinoTx'[t] = casinoTx[t] /\ actual'[t] = actual[t]
      /\ actual'[tid] = actual[tid] \/ actual'[tid].amount = stake
  BY <1>1, <1>2, <1>3 DEF SerialInv, IInv, TypeOK
<1>8. casinoTx'[tid].kind = "BET" /\ casinoTx'[tid].stake = stake
  BY <1>7 DEF Insert, NoTx
<1>9. ASSUME NEW t \in Tid PROVE /\ (~Exists(t))' => effect'[t] = 0
                                 /\ OnReservation(t)' => IsBet(t)'
  BY <1>4, <1>7, <1>8 DEF SerialInv, RowsAgree, Exists, OnReservation, IsBet
<1>10. ASSUME NEW t \in Tid, IsBet(t)', ~casinoTx'[t].refunded, ~casinoTx'[t].cancelled
       PROVE  effect'[t] = -casinoTx'[t].stake
  BY <1>4, <1>6, <1>7, <1>8, <1>10 DEF SerialInv, BetsCostTheirStake, IsBet
<1>11. ASSUME NEW t \in Tid, OnReservation(t)' PROVE actual'[t].amount = casinoTx'[t].stake
  BY <1>5, <1>7, <1>8, <1>11 DEF SerialInv, BetsCostTheirStake, OnReservation
<1>12. QED
  BY <1>4, <1>9, <1>10, <1>11 DEF SerialInv, RowsAgree, BetsCostTheirStake

LEMMA SerialChange ==
    ASSUME SerialInv, IInv', NEW c \in Conn, Alone(c), CommitChange(c)
    PROVE  SerialInv'
<1> DEFINE tid == conn[c].tid
           bet == conn[c].bet
           stake == conn[c].stake
           row == Insert("CHANGE", Size(conn[c].delta))
<1>1. /\ conn[c] \in Callback /\ conn[c].stage = "paying" /\ tid \in Tid /\ bet \in Tid
      /\ Enter(c, bet) /\ stake \in Nat /\ ~Exists(tid) /\ conn[c].op = "change"
      /\ Current(conn[c])
  BY ConnCases DEF CommitChange, At, SerialInv, IInv, ConnSafe, Callback, Paying
<1>2. casinoTx' = [casinoTx EXCEPT ![bet].stake = stake, ![tid] = row]
  BY DEF CommitChange, ChangeTx
<1>3. /\ conn[c].place = NoPlace => actual' = actual
      /\ conn[c].place # NoPlace => actual' = [actual EXCEPT ![bet].amount = stake]
  BY DEF CommitChange
<1>4. /\ effect'[bet] = effect[bet] + conn[c].delta
      /\ \A t \in Tid \ {bet} : effect'[t] = effect[t]
      /\ \A d \in Conn : Current(conn[d])'
  BY <1>1, SerialEnter
<1>5. IsBet(bet) /\ tid # bet /\ ~OnReservation(tid)
  BY <1>1 DEF Current, SerialInv, RowsAgree, Exists, IsBet
<1>6. /\ conn[c].place = NoPlace
            => ~OnReservation(bet) /\ conn[c].delta = casinoTx[bet].stake - stake
      /\ conn[c].place # NoPlace
            => OnReservation(bet) /\ conn[c].delta = actual[bet].amount - stake
  BY <1>1 DEF Current
<1>7. row.kind = "CHANGE"
  BY DEF Insert, NoTx
<1>8. casinoTx[bet].stake \in Int /\ actual[bet].amount \in Int /\ effect[bet] \in Int
  BY <1>1 DEF SerialInv, IInv, TypeOK, TxRow, ActualRow
<1> HIDE DEF tid, bet, stake, row
<1>9. /\ casinoTx'[tid] = row /\ casinoTx'[bet] = [casinoTx[bet] EXCEPT !.stake = stake]
      /\ \A t \in Tid \ {tid, bet} : casinoTx'[t] = casinoTx[t]
  BY <1>1, <1>2, <1>5 DEF SerialInv, IInv, TypeOK
<1>10. /\ casinoTx'[bet].kind = "BET" /\ casinoTx'[bet].stake = stake
       /\ casinoTx'[bet].cancelled = casinoTx[bet].cancelled
       /\ casinoTx'[bet].refunded = casinoTx[bet].refunded
  BY <1>1, <1>5, <1>9 DEF SerialInv, IInv, TypeOK, TxRow, IsBet
<1>11. /\ \A t \in Tid : actual'[t].place = actual[t].place
       /\ \A t \in Tid \ {bet} : actual'[t] = actual[t]
       /\ OnReservation(bet) => actual'[bet].amount = stake
  BY <1>1, <1>3, <1>6 DEF SerialInv, IInv, TypeOK, ActualRow
<1>12. ~casinoTx[bet].refunded /\ ~casinoTx[bet].cancelled => effect'[bet] = -stake
  <2>1. SUFFICES ASSUME ~casinoTx[bet].refunded, ~casinoTx[bet].cancelled
                 PROVE  effect'[bet] = -stake
    OBVIOUS
  <2>2. /\ effect[bet] = -casinoTx[bet].stake
        /\ OnReservation(bet) => actual[bet].amount = casinoTx[bet].stake
    BY <1>1, <1>5, <2>1 DEF SerialInv, BetsCostTheirStake
  <2>3. conn[c].delta = casinoTx[bet].stake - stake
    BY <1>6, <2>2
  <2>4. QED
    BY <1>1, <1>4, <1>8, <2>2, <2>3
<1>13. ASSUME NEW t \in Tid PROVE /\ (~Exists(t))' => effect'[t] = 0
                                  /\ OnReservation(t)' => IsBet(t)'
  BY <1>4, <1>5, <1>7, <1>9, <1>10, <1>11 DEF SerialInv, RowsAgree, Exists, OnReservation, IsBet
<1>14. ASSUME NEW t \in Tid, t # bet, t # tid
       PROVE  casinoTx'[t] = casinoTx[t] /\ actual'[t] = actual[t] /\ effect'[t] = effect[t]
  BY <1>4, <1>9, <1>11, <1>14
<1>15. ASSUME NEW t \in Tid, IsBet(t)', ~casinoTx'[t].refunded, ~casinoTx'[t].cancelled
       PROVE  effect'[t] = -casinoTx'[t].stake
  <2>1. CASE t = bet
    BY <1>10, <1>12, <1>15, <2>1
  <2>2. CASE t # bet
    <3>1. t # tid
      BY <1>7, <1>9, <1>15 DEF IsBet
    <3>2. QED
      BY <1>14, <1>15, <2>2, <3>1 DEF SerialInv, BetsCostTheirStake, IsBet
  <2>3. QED
    BY <2>1, <2>2
<1>16. ASSUME NEW t \in Tid, OnReservation(t)' PROVE actual'[t].amount = casinoTx'[t].stake
  <2>1. OnReservation(t)
    BY <1>11, <1>16 DEF OnReservation
  <2>2. CASE t = bet
    BY <1>10, <1>11, <2>1, <2>2
  <2>3. CASE t # bet
    BY <1>5, <1>14, <2>1, <2>3 DEF SerialInv, BetsCostTheirStake
  <2>4. QED
    BY <2>2, <2>3
<1>17. QED
  BY <1>4, <1>13, <1>15, <1>16 DEF SerialInv, RowsAgree, BetsCostTheirStake

LEMMA SerialOther ==
    ASSUME SerialInv, IInv', NEW c \in Conn, Alone(c), CommitCancel(c) \/ CommitResult(c)
    PROVE  SerialInv'
<1> DEFINE tid == conn[c].tid
<1>1. /\ conn[c] \in Callback /\ conn[c].stage = "paying" /\ tid \in Tid /\ Enter(c, tid)
      /\ actual' = actual
  BY ConnCases DEF CommitCancel, CommitResult, At, SerialInv, IInv, Callback, Paying
<1>2. /\ \A t \in Tid \ {tid} : effect'[t] = effect[t]
      /\ \A d \in Conn : Current(conn[d])'
  BY <1>1, SerialEnter
<1>3. \/ casinoTx' = [casinoTx EXCEPT ![tid].cancelled = TRUE] /\ CommitCancel(c)
      \/ casinoTx' = [casinoTx EXCEPT ![tid] = Insert("RESULT", 0)] /\ ~Exists(tid)
  BY DEF CommitCancel, CommitResult
<1>4. CommitCancel(c) => Exists(tid)
  BY <1>1 DEF CommitCancel, At, SerialInv, Current
<1>5. ~Exists(tid) => ~OnReservation(tid)
  BY <1>1 DEF SerialInv, RowsAgree, Exists, IsBet
<1> HIDE DEF tid
<1>6. \A t \in Tid \ {tid} : casinoTx'[t] = casinoTx[t]
  BY <1>3 DEF SerialInv, IInv, TypeOK
<1>7. CASE casinoTx' = [casinoTx EXCEPT ![tid].cancelled = TRUE] /\ CommitCancel(c)
  <2>1. /\ casinoTx'[tid].kind = casinoTx[tid].kind /\ casinoTx'[tid].cancelled
        /\ casinoTx'[tid].stake = casinoTx[tid].stake
    BY <1>1, <1>7 DEF SerialInv, IInv, TypeOK, TxRow
  <2>2. Exists(tid)
    BY <1>4, <1>7
  <2>3. ASSUME NEW t \in Tid PROVE /\ (~Exists(t))' => effect'[t] = 0
                                   /\ OnReservation(t)' => IsBet(t)'
    BY <1>1, <1>2, <1>6, <2>1, <2>2 DEF SerialInv, RowsAgree, Exists, OnReservation, IsBet
  <2>4. ASSUME NEW t \in Tid, IsBet(t)', ~casinoTx'[t].refunded, ~casinoTx'[t].cancelled
        PROVE  effect'[t] = -casinoTx'[t].stake
    BY <1>2, <1>6, <2>1, <2>4 DEF SerialInv, BetsCostTheirStake, IsBet
  <2>5. ASSUME NEW t \in Tid, OnReservation(t)' PROVE actual'[t].amount = casinoTx'[t].stake
    BY <1>1, <1>6, <2>1, <2>5 DEF SerialInv, BetsCostTheirStake, OnReservation
  <2>6. QED
    BY <1>2, <2>3, <2>4, <2>5 DEF SerialInv, RowsAgree, BetsCostTheirStake
<1>8. CASE casinoTx' = [casinoTx EXCEPT ![tid] = Insert("RESULT", 0)] /\ ~Exists(tid)
  <2>1. casinoTx'[tid].kind = "RESULT"
    BY <1>1, <1>8 DEF SerialInv, IInv, TypeOK, Insert, NoTx
  <2>2. ASSUME NEW t \in Tid PROVE /\ (~Exists(t))' => effect'[t] = 0
                                   /\ OnReservation(t)' => IsBet(t)'
    BY <1>1, <1>2, <1>5, <1>6, <1>8, <2>1 DEF SerialInv, RowsAgree, Exists, OnReservation, IsBet
  <2>3. ASSUME NEW t \in Tid, IsBet(t)', ~casinoTx'[t].refunded, ~casinoTx'[t].cancelled
        PROVE  effect'[t] = -casinoTx'[t].stake
    BY <1>2, <1>6, <2>1, <2>3 DEF SerialInv, BetsCostTheirStake, IsBet
  <2>4. ASSUME NEW t \in Tid, OnReservation(t)' PROVE actual'[t].amount = casinoTx'[t].stake
    BY <1>1, <1>5, <1>6, <1>8, <2>4 DEF SerialInv, BetsCostTheirStake, OnReservation
  <2>5. QED
    BY <1>2, <2>2, <2>3, <2>4 DEF SerialInv, RowsAgree, BetsCostTheirStake
<1>9. QED
  BY <1>3, <1>7, <1>8

\* A refund takes its bet out of those that stand, and changes no stake.
LEMMA SerialRefund ==
    ASSUME SerialInv, IInv', NEW c \in Conn, Alone(c), CommitRefund(c)
    PROVE  SerialInv'
<1> DEFINE tid == conn[c].tid
           bet == conn[c].bet
           row == Insert("REFUND", conn[c].delta)
<1>1. /\ conn[c] \in Callback /\ conn[c].stage = "paying" /\ tid \in Tid /\ bet \in Tid
      /\ Enter(c, bet) /\ ~Exists(tid) /\ actual' = actual
  BY ConnCases DEF CommitRefund, At, SerialInv, IInv, Callback, Paying
<1>2. casinoTx' = [casinoTx EXCEPT ![bet].refunded = TRUE, ![tid] = row]
  BY DEF CommitRefund
<1>3. /\ \A t \in Tid \ {bet} : effect'[t] = effect[t]
      /\ \A d \in Conn : Current(conn[d])'
  BY <1>1, SerialEnter
<1>4. IsBet(bet) /\ tid # bet /\ ~OnReservation(tid)
  BY <1>1 DEF CommitRefund, At, Current, SerialInv, RowsAgree, Exists, IsBet
<1>5. row.kind = "REFUND"
  BY DEF Insert, NoTx
<1> HIDE DEF tid, bet, row
<1>6. /\ casinoTx'[tid] = row /\ casinoTx'[bet] = [casinoTx[bet] EXCEPT !.refunded = TRUE]
      /\ \A t \in Tid \ {tid, bet} : casinoTx'[t] = casinoTx[t]
  BY <1>1, <1>2, <1>4 DEF SerialInv, IInv, TypeOK
<1>7. /\ casinoTx'[bet].kind = "BET" /\ casinoTx'[bet].refunded
      /\ casinoTx'[bet].stake = casinoTx[bet].stake
  BY <1>1, <1>4, <1>6 DEF SerialInv, IInv, TypeOK, TxRow, IsBet
<1>8. ASSUME NEW t \in Tid PROVE /\ (~Exists(t))' => effect'[t] = 0
                                 /\ OnReservation(t)' => IsBet(t)'
  <2>1. CASE t = tid
    BY <1>1, <1>4, <1>5, <1>6, <2>1 DEF Exists, OnReservation
  <2>2. CASE t = bet
    BY <1>7, <2>2 DEF Exists, IsBet
  <2>3. CASE t # tid /\ t # bet
    BY <1>1, <1>3, <1>6, <2>3 DEF SerialInv, RowsAgree, Exists, OnReservation, IsBet
  <2>4. QED
    BY <2>1, <2>2, <2>3
<1>9. ASSUME NEW t \in Tid, IsBet(t)', ~casinoTx'[t].refunded, ~casinoTx'[t].cancelled
      PROVE  effect'[t] = -casinoTx'[t].stake
  <2>1. t # bet /\ t # tid
    BY <1>5, <1>6, <1>7, <1>9 DEF IsBet
  <2>2. QED
    BY <1>3, <1>6, <1>9, <2>1 DEF SerialInv, BetsCostTheirStake, IsBet
<1>10. ASSUME NEW t \in Tid, OnReservation(t)' PROVE actual'[t].amount = casinoTx'[t].stake
  BY <1>1, <1>4, <1>6, <1>7, <1>10 DEF SerialInv, BetsCostTheirStake, OnReservation
<1>11. QED
  BY <1>3, <1>8, <1>9, <1>10 DEF SerialInv, RowsAgree, BetsCostTheirStake

\* Reservations that come, are ordered or confirmed say nothing about money.
LEMMA SerialReserveStep ==
    ASSUME SerialInv, IInv', \A d \in Conn : conn'[d] = conn[d] \/ conn'[d] = Idle,
           UNCHANGED <<balance, actual, casinoTx, rolling, ledger, effect>>
    PROVE  SerialInv'
<1>1. RowsAgree' /\ BetsCostTheirStake'
  BY DEF SerialInv, RowsAgree, BetsCostTheirStake, Exists, OnReservation, IsBet
<1>2. ASSUME NEW d \in Conn PROVE Current(conn[d])'
  <2>1. Current(conn'[d])
    BY KindsDiffer DEF SerialInv, Current
  <2>2. QED
    BY <2>1 DEF Current, OnReservation, IsBet, Exists
<1>3. QED
  BY <1>1, <1>2 DEF SerialInv

\* A step of one callback leaves what the others have read.
LEMMA OwnStep ==
    ASSUME TypeOK, NEW c \in Conn, Find(c) \/ Read(c) \/ Commit(c) \/ Abort(c)
    PROVE  \A d \in Conn \ {c} : conn'[d] = conn[d]
<1>1. ASSUME NEW v, conn' = [conn EXCEPT ![c] = v] PROVE \A d \in Conn \ {c} : conn'[d] = conn[d]
  BY <1>1, OneConn
<1>2. CASE Find(c)
  BY <1>1, <1>2 DEF Find, FindToOrder, FindReservation, FindActual, MissActual, PlainBet,
     FindCancelled, FindRefunded, FindResult, Start, Hold
<1>3. CASE Read(c)
  BY <1>1, <1>3 DEF Read, ReadReservation, ReadBet, ReadWallet, Hold
<1>4. CASE Commit(c)
  BY <1>1, <1>4 DEF Commit, Order, CommitBet, CommitChange, CommitCancel, CommitRefund,
     CommitResult, Enter
<1>5. CASE Abort(c)
  BY <1>1, <1>5 DEF Abort, Hold
<1>6. QED
  BY <1>2, <1>3, <1>4, <1>5

LEMMA OwnSerialStep ==
    ASSUME SerialInv, IInv', NamesTransaction', NEW c \in Conn, Alone(c),
           Find(c) \/ Read(c) \/ Commit(c) \/ Abort(c)
    PROVE  SerialInv'
<1>1. CASE Order(c)
  <2>1. conn'[c] = Idle
    BY <1>1 DEF Order, SerialInv, IInv, TypeOK
  <2>2. QED
    BY <1>1, <2>1, SerialReserveStep DEF Order, Alone
<1>2. CASE Abort(c)
  <2>1. Current(Idle)
    BY KindsDiffer DEF Current
  <2>2. QED
    BY <1>2, <2>1, SerialReadStep DEF Abort
<1>3. QED
  BY <1>1, <1>2, SerialFind, SerialRead, SerialBet, SerialChange, SerialOther,
     SerialRefund DEF Commit

LEMMA NextSerialInv ==
    (serial /\ byTransaction => SerialInv) /\ IInv /\ [MCNext]_mcvars
      => (serial /\ byTransaction => SerialInv)'
<1> SUFFICES ASSUME serial, byTransaction, SerialInv, [MCNext]_mcvars PROVE SerialInv'
  BY DEF MCNext, mcvars
<1>1. [Next]_vars
  BY DEF MCNext, mcvars, Next
<1>2. IInv'
  BY <1>1, NextIInv DEF SerialInv
<1>3. CASE UNCHANGED mcvars
  BY <1>2, <1>3, SerialReserveStep DEF mcvars, vars
<1>4. CASE \E rid \in Rid : Reserve(rid) \/ Confirm(rid)
  BY <1>2, <1>4, SerialReserveStep DEF Reserve, Confirm
<1>5. ASSUME MCNext, NEW c \in Conn, MayStep(c), Find(c) \/ Read(c) \/ Commit(c) \/ Abort(c)
      PROVE  SerialInv'
  <2>1. Alone(c)
    BY <1>5, OwnStep DEF MayStep, Alone, SerialInv, IInv
  <2>2. NamesTransaction'
    BY <1>5 DEF MCNext
  <2>3. QED
    BY <1>2, <1>5, <2>1, <2>2, OwnSerialStep
<1>6. QED
  BY <1>3, <1>4, <1>5 DEF MCNext

\* The instances of the runs are instances of the specification.
LEMMA AlwaysInstance == MCSpec => []IInv
<1>1. MCInit => IInv
  BY InitIInv DEF MCInit
<1>2. IInv /\ [MCNext]_mcvars => IInv'
  <2>1. [MCNext]_mcvars => [Next]_vars
    BY DEF MCNext, mcvars, Next
  <2>2. QED
    BY <2>1, NextIInv
<1>3. QED
  BY <1>1, <1>2, PTL DEF MCSpec

\* One callback after the other, and every change naming its bet by its
\* transaction, a bet that was neither refunded nor cancelled has cost its stake; and
\* the two rows of a bet on a reservation agree, refunded and cancelled or not
\* (sportsBetChangeProd).
THEOREM BetsAlwaysCostTheirStake == MCSpec => []SerialBetsCostTheirStake
<1>1. MCInit => (serial /\ byTransaction => SerialInv)
  BY InitSerialInv DEF MCInit
<1>2. (serial /\ byTransaction => SerialInv) => SerialBetsCostTheirStake
  BY DEF SerialInv, SerialBetsCostTheirStake
<1>3. QED
  BY <1>1, <1>2, NextSerialInv, AlwaysInstance, PTL DEF MCSpec

\* That the ledger explains the balance holds however changes name their bets: what
\* a callback will write is the present balance and what it will enter.
LedgerInv ==
    /\ IInv
    /\ Reconciles
    /\ \A c \in Conn : conn[c] \in Callback /\ conn[c].stage = "paying"
                         => conn[c].next = balance + conn[c].delta

\* A step that keeps the balance and the ledger, and leaves no callback about to
\* pay that was not, keeps the invariant.
LEMMA LedgerQuiet ==
    ASSUME LedgerInv, IInv', NEW c \in Conn, Alone(c), UNCHANGED <<balance, ledger>>,
           \/ conn'[c] = conn[c]
           \/ conn'[c] \notin Callback
           \/ conn'[c].stage # "paying"
           \/ conn'[c].next = balance + conn'[c].delta
    PROVE  LedgerInv'
<1>1. \A d \in Conn \ {c} : conn'[d] \notin Callback
  BY KindsDiffer DEF Alone
<1>2. QED
  BY <1>1 DEF LedgerInv, Reconciles

LEMMA LedgerFind ==
    ASSUME LedgerInv, IInv', NEW c \in Conn, Alone(c), Find(c) PROVE LedgerInv'
<1>1. ASSUME NEW v, Start(c, v), v \in Ordering \/ v.stage # "paying" PROVE LedgerInv'
  <2>1. conn'[c] = v /\ UNCHANGED <<balance, ledger>>
    BY <1>1 DEF Start, Hold, stored, LedgerInv, IInv, TypeOK
  <2>2. QED
    BY <1>1, <2>1, LedgerQuiet, KindsDiffer
<1>2. ASSUME NEW op, NEW stage \in {"ready", "found", "missed"}, NEW tid, NEW bet, NEW place,
             NEW stake, NEW consumed, NEW delta,
             Start(c, NewCallback(op, stage, tid, bet, place, stake, consumed, delta))
      PROVE  LedgerInv'
  BY <1>1, <1>2 DEF NewCallback
<1>3. ASSUME NEW rid \in Rid, FindToOrder(c, rid) PROVE LedgerInv'
  <2>1. [op |-> "order", rid |-> rid] \in Ordering
    BY DEF Ordering
  <2>2. QED
    BY <1>1, <1>3, <2>1 DEF FindToOrder
<1>4. ASSUME NEW tid \in Tid, NEW bet \in Tid,
             FindActual(c, tid, bet) \/ \E name \in Names : MissActual(c, tid, bet, name)
      PROVE  LedgerInv'
  BY <1>2, <1>4 DEF FindActual, MissActual
<1>5. ASSUME NEW tid \in Tid,
             \/ \E place \in Place : FindReservation(c, tid, place)
             \/ PlainBet(c, tid)
      PROVE  LedgerInv'
  BY <1>2, <1>5 DEF FindReservation, PlainBet
<1>6. ASSUME NEW tid \in Tid,
             \/ FindCancelled(c, tid) \/ FindResult(c, tid)
             \/ \E bet \in Tid : FindRefunded(c, tid, bet)
      PROVE  LedgerInv'
  BY <1>2, <1>6 DEF FindCancelled, FindRefunded, FindResult
<1>7. QED
  BY <1>3, <1>4, <1>5, <1>6 DEF Find

LEMMA LedgerRead ==
    ASSUME LedgerInv, IInv', NEW c \in Conn, Alone(c), Read(c) PROVE LedgerInv'
<1>1. /\ UNCHANGED <<balance, ledger>>
      /\ conn[c] \in Callback
  BY ConnCases DEF Read, ReadReservation, ReadBet, ReadWallet, Hold, stored, At, LedgerInv,
                   IInv, Paying
<1>2. CASE ReadReservation(c)
  <2>1. conn'[c].stage = "ready"
    BY <1>1, <1>2 DEF ReadReservation, Hold, LedgerInv, IInv, TypeOK, Callback, Paying
  <2>2. QED
    BY <1>1, <2>1, LedgerQuiet
<1>3. CASE ReadBet(c)
  <2>1. conn'[c].stage = "ready"
    BY <1>1, <1>3 DEF ReadBet, Hold, LedgerInv, IInv, TypeOK, Callback, Paying
  <2>2. QED
    BY <1>1, <2>1, LedgerQuiet
<1>4. CASE ReadWallet(c)
  <2>1. conn'[c].next = balance + conn'[c].delta
    BY <1>1, <1>4 DEF ReadWallet, Hold, LedgerInv, IInv, TypeOK, Callback, Paying
  <2>2. QED
    BY <1>1, <2>1, LedgerQuiet
<1>5. QED
  BY <1>2, <1>3, <1>4 DEF Read

LEMMA LedgerEnter ==
    ASSUME LedgerInv, IInv', NEW c \in Conn, Alone(c), NEW bet, conn[c] \in Callback,
           conn[c].stage = "paying", Enter(c, bet)
    PROVE  LedgerInv'
<1>1. conn[c].next = balance + conn[c].delta /\ conn[c].delta \in Int
  BY DEF LedgerInv, Callback, Paying
<1>2. balance \in Int /\ ledger \in Int /\ Opening \in Int /\ balance = Opening + ledger
  BY SportsAssumption DEF SportsAssumption, LedgerInv, IInv, TypeOK, Reconciles
<1>3. Reconciles'
  BY <1>1, <1>2 DEF Enter, Reconciles
<1>4. conn'[c] \notin Callback
  BY KindsDiffer DEF Enter, LedgerInv, IInv, TypeOK
<1>5. \A d \in Conn \ {c} : conn'[d] \notin Callback
  BY KindsDiffer DEF Alone
<1>6. QED
  BY <1>3, <1>4, <1>5 DEF LedgerInv

LEMMA OwnLedgerStep ==
    ASSUME LedgerInv, IInv', NEW c \in Conn, Alone(c),
           Find(c) \/ Read(c) \/ Commit(c) \/ Abort(c)
    PROVE  LedgerInv'
<1>1. CASE Order(c) \/ Abort(c)
  <2>1. conn'[c] = Idle /\ UNCHANGED <<balance, ledger>>
    BY <1>1 DEF Order, Abort, Hold, stored, LedgerInv, IInv, TypeOK
  <2>2. QED
    BY <1>1, <2>1, LedgerQuiet, KindsDiffer
<1>2. CASE CommitBet(c) \/ CommitChange(c) \/ CommitCancel(c) \/ CommitRefund(c) \/ CommitResult(c)
  <2>1. conn[c] \in Callback /\ conn[c].stage = "paying"
    BY <1>2, ConnCases
    DEF CommitBet, CommitChange, CommitCancel, CommitRefund, CommitResult, At, LedgerInv, IInv,
        Paying
  <2>2. QED
    BY <1>2, <2>1, LedgerEnter
    DEF CommitBet, CommitChange, CommitCancel, CommitRefund, CommitResult
<1>3. QED
  BY <1>1, <1>2, LedgerFind, LedgerRead DEF Commit

LEMMA NextLedgerInv ==
    (serial => LedgerInv) /\ IInv /\ [MCNext]_mcvars => (serial => LedgerInv)'
<1> SUFFICES ASSUME serial, LedgerInv, [MCNext]_mcvars PROVE LedgerInv'
  BY DEF MCNext, mcvars
<1>1. [Next]_vars
  BY DEF MCNext, mcvars, Next
<1>2. IInv'
  BY <1>1, NextIInv DEF LedgerInv
<1>3. ASSUME UNCHANGED <<balance, ledger, conn>> PROVE LedgerInv'
  BY <1>2, <1>3 DEF LedgerInv, Reconciles
<1>4. CASE UNCHANGED mcvars
  BY <1>3, <1>4 DEF mcvars, vars
<1>5. CASE \E rid \in Rid : Reserve(rid) \/ Confirm(rid)
  BY <1>3, <1>5 DEF Reserve, Confirm
<1>6. ASSUME NEW c \in Conn, MayStep(c), Find(c) \/ Read(c) \/ Commit(c) \/ Abort(c)
      PROVE  LedgerInv'
  <2>1. Alone(c)
    BY <1>6, OwnStep DEF MayStep, Alone, LedgerInv, IInv
  <2>2. QED
    BY <1>2, <1>6, <2>1, OwnLedgerStep
<1>7. QED
  BY <1>4, <1>5, <1>6 DEF MCNext

\* One callback after the other, the balance is what there was plus what the
\* ledger says (schema.prisma, LedgerEntry).
THEOREM SportsLedgerReconciles == MCSpec => []SerialReconciles
<1>1. MCInit => (serial => LedgerInv)
  <2>1. SUFFICES ASSUME MCInit PROVE LedgerInv
    OBVIOUS
  <2>2. IInv /\ Reconciles /\ \A c \in Conn : conn[c] \notin Callback
    BY <2>1, InitIInv, KindsDiffer, SportsAssumption DEF SportsAssumption, MCInit, Init, Reconciles
  <2>3. QED
    BY <2>2 DEF LedgerInv
<1>2. (serial => LedgerInv) => SerialReconciles
  BY DEF LedgerInv, SerialReconciles
<1>3. QED
  BY <1>1, <1>2, NextLedgerInv, AlwaysInstance, PTL DEF MCSpec

-----------------------------------------------------------------------------
(* Sums, with the lemmas that CompSettlementProofs has *)

\* The element of s that the sum takes first.
Pick(s) == CHOOSE x \in s : TRUE

\* The equation of the sums of f over the subsets of S.
Adds(g, f, S) ==
    g = [s \in SUBSET S |-> IF s = {} THEN 0 ELSE f[Pick(s)] + g[s \ {Pick(s)}]]

LEMMA PickIn ==
    ASSUME NEW s, s # {}
    PROVE  Pick(s) \in s
BY DEF Pick

\* Among subsets of a finite set there is one none of whose elements can be left out.
LEMMA LeastSet ==
    ASSUME NEW S, IsFiniteSet(S), NEW T \in SUBSET SUBSET S, T # {}
    PROVE  \E s \in T : \A x \in s : s \ {x} \notin T
<1>1. IsWellFoundedOn(StrictSubsetOrdering(S), FiniteSubsetsOf(S))
  BY FS_StrictSubsetOrderingWellFounded
<1>2. FiniteSubsetsOf(S) = SUBSET S
  BY FS_FiniteSubsetsOfFinite
<1>3. PICK s \in T : \A r \in T : <<r, s>> \notin StrictSubsetOrdering(S)
  BY <1>1, <1>2, WFMin
<1>4. ASSUME NEW x \in s PROVE s \ {x} \notin T
  BY <1>3 DEF StrictSubsetOrdering
<1>5. QED
  BY <1>4

\* A set of numbers that is not empty has one whose predecessor is not in it.
LEMMA FirstNumber ==
    ASSUME NEW N \in Nat, NEW T \in SUBSET (0..N), T # {}
    PROVE  \E n \in T : n - 1 \notin T
<1> DEFINE U == {1..n : n \in T}
<1>1. IsFiniteSet(1..N)
  BY FS_Interval
<1>2. U \in SUBSET SUBSET (1..N)
  <2>1. ASSUME NEW n \in T PROVE 1..n \subseteq 1..N
    OBVIOUS
  <2>2. QED
    BY <2>1
<1>3. U # {}
  OBVIOUS
<1> HIDE DEF U
<1>4. PICK s \in U : \A x \in s : s \ {x} \notin U
  BY <1>3, <1>1, <1>2, LeastSet
<1>5. PICK n \in T : s = 1..n
  BY <1>4 DEF U
<1>6. n - 1 \notin T
  <2> SUFFICES ASSUME n - 1 \in T PROVE FALSE
    OBVIOUS
  <2>1. n \in 1..n /\ 1..(n - 1) = s \ {n}
    BY <1>5
  <2>2. 1..(n - 1) \in U
    BY DEF U
  <2>3. QED
    BY <1>4, <1>5, <2>1, <2>2
<1>7. QED
  BY <1>6

LEMMA SumUnfold ==
    ASSUME NEW f, NEW S
    PROVE  SumFunctionOnSet(f, S) = (CHOOSE g : Adds(g, f, S))[S]
BY DEF SumFunctionOnSet, FoldFunctionOnSet, MapThenFoldSet, Adds, Pick

\* Sums that are right for subsets of up to n elements.
Upto(g, f, S, n) ==
    \A s \in SUBSET S : Cardinality(s) <= n =>
        g[s] = IF s = {} THEN 0 ELSE f[Pick(s)] + g[s \ {Pick(s)}]

\* They can be had for one element more.
LEMMA UptoNext ==
    ASSUME NEW S, IsFiniteSet(S), NEW f \in [S -> Int], NEW n \in Nat,
           NEW g \in [SUBSET S -> Int], Upto(g, f, S, n)
    PROVE  \E h \in [SUBSET S -> Int] : Upto(h, f, S, n + 1)
<1> DEFINE h == [s \in SUBSET S |-> IF s = {} THEN 0 ELSE f[Pick(s)] + g[s \ {Pick(s)}]]
<1>1. ASSUME NEW s \in SUBSET S, s # {} PROVE Pick(s) \in S /\ s \ {Pick(s)} \in SUBSET S
  BY <1>1, PickIn
<1>2. h \in [SUBSET S -> Int]
  BY <1>1
<1>3. ASSUME NEW s \in SUBSET S, Cardinality(s) <= n PROVE h[s] = g[s]
  BY <1>3 DEF Upto
<1>4. ASSUME NEW s \in SUBSET S, Cardinality(s) <= n + 1, s # {}
      PROVE  h[s] = f[Pick(s)] + h[s \ {Pick(s)}]
  <2>1. IsFiniteSet(s) /\ Cardinality(s) \in Nat
    BY FS_Subset, FS_CardinalityType
  <2>2. Pick(s) \in s
    BY <1>4, PickIn
  <2>3. Cardinality(s \ {Pick(s)}) = Cardinality(s) - 1
    BY <2>1, <2>2, FS_RemoveElement
  <2>4. h[s \ {Pick(s)}] = g[s \ {Pick(s)}]
    <3>1. s \ {Pick(s)} \in SUBSET S /\ Cardinality(s \ {Pick(s)}) <= n
      BY <1>4, <2>1, <2>3
    <3>2. QED
      BY <1>3, <3>1
  <2>5. QED
    BY <1>4, <2>4
<1>5. h[{}] = 0
  OBVIOUS
<1> HIDE DEF h
<1>6. Upto(h, f, S, n + 1)
  BY <1>4, <1>5 DEF Upto
<1>7. QED
  BY <1>2, <1>6

LEMMA SumExists ==
    ASSUME NEW S, IsFiniteSet(S), NEW f \in [S -> Int]
    PROVE  \E g \in [SUBSET S -> Int] : Adds(g, f, S)
<1> DEFINE N == Cardinality(S)
           Right(n) == \E g \in [SUBSET S -> Int] : Upto(g, f, S, n)
           Wrong == {n \in 0..N : ~Right(n)}
<1>1. N \in Nat
  BY FS_CardinalityType
<1>2. Right(0)
  <2>1. \A s \in SUBSET S : IsFiniteSet(s) /\ Cardinality(s) \in Nat /\ (Cardinality(s) = 0 <=> s = {})
    BY FS_Subset, FS_CardinalityType, FS_EmptySet
  <2> DEFINE zeros == [s \in SUBSET S |-> 0]
  <2>2. zeros \in [SUBSET S -> Int] /\ Upto(zeros, f, S, 0)
    BY <2>1 DEF Upto
  <2> HIDE DEF zeros
  <2>3. QED
    BY <2>2
<1>3. \A n \in Nat : Right(n) => Right(n + 1)
  BY UptoNext
<1> HIDE DEF N, Right
<1>4. Wrong = {}
  <2> SUFFICES ASSUME Wrong # {} PROVE FALSE
    OBVIOUS
  <2>1. PICK n \in Wrong : n - 1 \notin Wrong
    BY <1>1, FirstNumber
  <2>2. n \in 0..N /\ ~Right(n) /\ n # 0
    BY <1>2
  <2>3. n - 1 \in 0..N
    BY <1>1, <2>2
  <2>4. Right(n - 1)
    BY <2>1, <2>3
  <2>5. QED
    BY <1>3, <2>2, <2>3, <2>4
<1>5. Right(N)
  BY <1>1, <1>4
<1>6. PICK g \in [SUBSET S -> Int] : Upto(g, f, S, N)
  BY <1>5 DEF Right
<1>7. \A s \in SUBSET S : Cardinality(s) <= N
  BY FS_Subset DEF N
<1>8. Adds(g, f, S)
  BY <1>6, <1>7 DEF Adds, Upto
<1>9. QED
  BY <1>8

\* The sum over S obeys the equation, and so does the sum over each of its subsets.
LEMMA SumAdds ==
    ASSUME NEW S, IsFiniteSet(S), NEW f \in [S -> Int]
    PROVE  \E g \in [SUBSET S -> Int] : Adds(g, f, S) /\ SumFunctionOnSet(f, S) = g[S]
<1>1. PICK h \in [SUBSET S -> Int] : Adds(h, f, S)
  BY SumExists
<1> DEFINE g == CHOOSE g : Adds(g, f, S)
<1>2. Adds(g, f, S)
  BY <1>1
<1>3. SumFunctionOnSet(f, S) = g[S]
  BY SumUnfold
<1> HIDE DEF g
<1>4. g \in [SUBSET S -> Int]
  <2> DEFINE Wrong == {s \in SUBSET S : g[s] \notin Int}
  <2>1. ASSUME NEW s \in Wrong, \A x \in s : s \ {x} \notin Wrong PROVE FALSE
    <3>1. g[s] = IF s = {} THEN 0 ELSE f[Pick(s)] + g[s \ {Pick(s)}]
      BY <1>2 DEF Adds
    <3>2. s # {} /\ Pick(s) \in s
      BY <2>1, <3>1, PickIn
    <3>3. g[s \ {Pick(s)}] \in Int
      BY <2>1, <3>2
    <3>4. QED
      BY <2>1, <3>1, <3>2, <3>3
  <2>2. Wrong = {}
    <3> HIDE DEF Wrong
    <3>1. Wrong \in SUBSET SUBSET S
      BY DEF Wrong
    <3>2. QED
      BY <2>1, <3>1, LeastSet
  <2>3. g = [s \in SUBSET S |-> g[s]]
    BY <1>2 DEF Adds
  <2>4. QED
    BY <2>2, <2>3
<1>5. QED
  BY <1>2, <1>3, <1>4

\* What one value contributes to a sum.
LEMMA SumChange ==
    ASSUME NEW S, IsFiniteSet(S), NEW f \in [S -> Int], NEW e \in [S -> Int], NEW x \in S,
           \A y \in S : y # x => e[y] = f[y]
    PROVE  /\ SumFunctionOnSet(f, S) \in Int
           /\ SumFunctionOnSet(e, S) = SumFunctionOnSet(f, S) - f[x] + e[x]
<1> DEFINE v == e[x]
<1>1. e[x] = v /\ v \in Int
  OBVIOUS
<1> HIDE DEF v
<1>2. PICK g \in [SUBSET S -> Int] : Adds(g, f, S) /\ SumFunctionOnSet(f, S) = g[S]
  BY SumAdds
<1>3. PICK h \in [SUBSET S -> Int] : Adds(h, e, S) /\ SumFunctionOnSet(e, S) = h[S]
  BY <1>1, SumAdds
<1> DEFINE Right(s) == h[s] = IF x \in s THEN g[s] - f[x] + v ELSE g[s]
           Wrong == {s \in SUBSET S : ~Right(s)}
<1>4. ASSUME NEW s \in SUBSET S, \A y \in s : Right(s \ {y}) PROVE Right(s)
  <2>1. /\ g[s] = IF s = {} THEN 0 ELSE f[Pick(s)] + g[s \ {Pick(s)}]
        /\ h[s] = IF s = {} THEN 0 ELSE e[Pick(s)] + h[s \ {Pick(s)}]
    BY <1>2, <1>3 DEF Adds
  <2>2. CASE s = {}
    BY <2>1, <2>2
  <2>3. CASE s # {}
    <3> DEFINE y == Pick(s)
               r == s \ {y}
    <3>1. y \in s /\ y \in S /\ r \in SUBSET S
      BY <2>3, PickIn
    <3>2. /\ g[s] = f[y] + g[r] /\ h[s] = e[y] + h[r]
          /\ h[r] = IF x \in r THEN g[r] - f[x] + v ELSE g[r]
          /\ f[x] \in Int /\ f[y] \in Int /\ g[r] \in Int /\ v \in Int
          /\ e[y] = IF y = x THEN v ELSE f[y]
          /\ x \in r <=> (x \in s /\ x # y)
      BY <1>1, <1>4, <2>1, <2>3, <3>1
    <3> HIDE DEF y, r
    <3>3. QED
      BY <3>1, <3>2
  <2>4. QED
    BY <2>2, <2>3
<1>5. Wrong = {}
  <2>1. ASSUME NEW s \in Wrong, \A y \in s : s \ {y} \notin Wrong PROVE FALSE
    BY <1>4, <2>1
  <2> HIDE DEF Wrong
  <2>2. Wrong \in SUBSET SUBSET S
    BY DEF Wrong
  <2>3. QED
    BY <2>1, <2>2, LeastSet
<1>6. h[S] = g[S] - f[x] + v /\ g[S] \in Int
  BY <1>5
<1>7. QED
  BY <1>1, <1>2, <1>3, <1>6

\* Zeros add up to zero.
LEMMA SumZeros ==
    ASSUME NEW S, IsFiniteSet(S)
    PROVE  SumFunctionOnSet([y \in S |-> 0], S) = 0
<1> DEFINE f == [y \in S |-> 0]
<1>1. f \in [S -> Int] /\ \A y \in S : f[y] = 0
  OBVIOUS
<1> HIDE DEF f
<1>2. PICK g \in [SUBSET S -> Int] : Adds(g, f, S) /\ SumFunctionOnSet(f, S) = g[S]
  BY <1>1, SumAdds
<1> DEFINE Wrong == {s \in SUBSET S : g[s] # 0}
<1>3. ASSUME NEW s \in Wrong, \A y \in s : s \ {y} \notin Wrong PROVE FALSE
  <2>1. g[s] = IF s = {} THEN 0 ELSE f[Pick(s)] + g[s \ {Pick(s)}]
    BY <1>2 DEF Adds
  <2>2. s # {} /\ Pick(s) \in s
    BY <1>3, <2>1, PickIn
  <2>3. g[s \ {Pick(s)}] = 0 /\ f[Pick(s)] = 0
    BY <1>1, <1>3, <2>2
  <2>4. QED
    BY <1>3, <2>1, <2>2, <2>3
<1>4. Wrong = {}
  <2> HIDE DEF Wrong
  <2>1. Wrong \in SUBSET SUBSET S
    BY DEF Wrong
  <2>2. QED
    BY <1>3, <2>1, LeastSet
<1>5. QED
  BY <1>2, <1>4 DEF f

\* A bet that changes changes the sum of its reservation by as much.
LEMMA BetsAfter ==
    ASSUME IsFiniteSet(Tid), TypeOK, TypeOK', NEW bet \in Tid, NEW r \in Rid,
           \A t \in Tid \ {bet} : actual'[t] = actual[t]
    PROVE  /\ BetsOn(r) \in Int
           /\ BetsOn(r)' = BetsOn(r) - Counted(bet, r) + Counted(bet, r)'
<1> DEFINE f == [t \in Tid |-> Counted(t, r)]
           e == [t \in Tid |-> Counted(t, r)']
<1>1. \A t \in Tid : Counted(t, r) \in Int /\ Counted(t, r)' \in Int
  BY DEF TypeOK, ActualRow, Counted
<1>2. \A t \in Tid : t # bet => Counted(t, r)' = Counted(t, r)
  BY DEF Counted, OnReservation
<1>3. /\ f \in [Tid -> Int] /\ e \in [Tid -> Int]
      /\ f[bet] = Counted(bet, r) /\ e[bet] = Counted(bet, r)'
      /\ \A t \in Tid : t # bet => e[t] = f[t]
  BY <1>1, <1>2
<1>4. BetsOn(r) = SumFunctionOnSet(f, Tid) /\ BetsOn(r)' = SumFunctionOnSet(e, Tid)
  BY DEF BetsOn, SumFunction
<1> HIDE DEF f, e
<1>5. /\ SumFunctionOnSet(f, Tid) \in Int
      /\ SumFunctionOnSet(e, Tid) = SumFunctionOnSet(f, Tid) - f[bet] + e[bet]
  BY <1>3, SumChange
<1>6. QED
  BY <1>3, <1>4, <1>5

\* A step that writes no bet keeps the sums.
LEMMA BetsStay ==
    ASSUME UNCHANGED actual, NEW r \in Rid
    PROVE  BetsOn(r)' = BetsOn(r)
BY DEF BetsOn, Counted, OnReservation

-----------------------------------------------------------------------------
(* What is consumed, one callback after the other *)

\* What a bet or a change on a reservation will write as consumed is what the
\* reservation has now and what the callback adds to it.
Recent(x) ==
    x.op \in {"bet", "change"} /\ x.place # NoPlace =>
        /\ Reserved(x.place[1])
        /\ x.op = "bet" => x.consumed = reservation[x.place[1]].consumed + x.stake
        /\ x.op = "change" =>
              /\ actual[x.bet].place = x.place /\ x.delta = actual[x.bet].amount - x.stake
              /\ x.stage # "found" => x.consumed = reservation[x.place[1]].consumed - x.delta

\* Nothing is consumed before there is a reservation, and a bet on one has its rows.
RowsBegin ==
    /\ \A r \in Rid : ~Reserved(r) => reservation[r].consumed = 0
    /\ \A t \in Tid : OnReservation(t) => Exists(t) /\ Reserved(actual[t].place[1])

ConsumedIsSum == \A r \in Rid : reservation[r].consumed = BetsOn(r)

ConsumedInv ==
    /\ IInv
    /\ RowsBegin
    /\ ConsumedIsSum
    /\ \A c \in Conn : Recent(conn[c])

LEMMA PlacedRid ==
    ASSUME TypeOK, NEW t \in Tid, OnReservation(t)
    PROVE  actual[t].place \in Place /\ actual[t].place[1] \in Rid
<1>1. actual[t].place \in Place
  BY DEF TypeOK, ActualRow, OnReservation
<1>2. QED
  BY <1>1, PlaceRid

LEMMA IdleRecent == Recent(Idle)
BY DEF Recent, Idle

LEMMA InitConsumedInv ==
    ASSUME IsFiniteSet(Tid)
    PROVE  Init => ConsumedInv
<1> SUFFICES ASSUME Init PROVE ConsumedInv
  OBVIOUS
<1>1. RowsBegin
  BY DEF Init, RowsBegin, NoReservation, OnReservation, NoActual
<1>2. ASSUME NEW r \in Rid PROVE reservation[r].consumed = BetsOn(r)
  <2>1. \A t \in Tid : Counted(t, r) = 0
    BY DEF Init, Counted, OnReservation, NoActual
  <2>2. [t \in Tid |-> Counted(t, r)] = [t \in Tid |-> 0]
    BY <2>1
  <2>3. BetsOn(r) = 0
    BY <2>2, SumZeros DEF BetsOn, SumFunction
  <2>4. QED
    BY <2>3 DEF Init, NoReservation
<1>3. \A c \in Conn : Recent(conn[c])
  BY IdleRecent DEF Init
<1>4. QED
  BY <1>1, <1>2, <1>3, InitIInv DEF ConsumedInv, ConsumedIsSum

\* A step that writes no bet and nothing that is consumed keeps the invariant when
\* what it leaves open is recent.
LEMMA ConsumedQuiet ==
    ASSUME ConsumedInv, IInv', UNCHANGED actual, \A t \in Tid : Exists(t) => Exists(t)',
           \A r \in Rid : /\ reservation'[r].consumed = reservation[r].consumed
                          /\ ~Reserved(r)' => ~Reserved(r),
           \A d \in Conn : Recent(conn[d])'
    PROVE  ConsumedInv'
<1>1. RowsBegin'
  <2>1. \A t \in Tid : OnReservation(t) => actual[t].place[1] \in Rid
    BY PlacedRid DEF ConsumedInv, IInv
  <2>2. \A t \in Tid : OnReservation(t)' => Exists(t)' /\ Reserved(actual[t].place[1])'
    BY <2>1 DEF ConsumedInv, RowsBegin, OnReservation, Reserved
  <2>3. QED
    BY <2>2 DEF ConsumedInv, RowsBegin, Reserved
<1>2. ConsumedIsSum'
  BY BetsStay DEF ConsumedInv, ConsumedIsSum
<1>3. QED
  BY <1>1, <1>2 DEF ConsumedInv

LEMMA ConsumedHold ==
    ASSUME ConsumedInv, IInv', NEW c \in Conn, Alone(c), NEW v, Recent(v), Hold(c, v)
    PROVE  ConsumedInv'
<1>1. conn'[c] = v /\ UNCHANGED <<reservation, actual, casinoTx>>
  BY DEF Hold, stored, ConsumedInv, IInv, TypeOK
<1>2. ASSUME NEW d \in Conn PROVE Recent(conn[d])'
  <2>1. Recent(conn'[d])
    BY <1>1, IdleRecent DEF Alone
  <2>2. QED
    BY <1>1, <2>1 DEF Recent, Reserved
<1>3. QED
  BY <1>1, <1>2, ConsumedQuiet DEF Exists, Reserved

LEMMA ConsumedFind ==
    ASSUME ConsumedInv, IInv', NEW c \in Conn, Alone(c), Find(c) PROVE ConsumedInv'
<1>1. ASSUME NEW v, Start(c, v), Recent(v) PROVE ConsumedInv'
  BY <1>1, ConsumedHold DEF Start
<1>2. ASSUME NEW rid \in Rid, FindToOrder(c, rid) PROVE ConsumedInv'
  <2>1. Recent([op |-> "order", rid |-> rid])
    BY DEF Recent
  <2>2. QED
    BY <1>1, <1>2, <2>1 DEF FindToOrder
<1>3. ASSUME NEW tid \in Tid, NEW place \in Place, FindReservation(c, tid, place)
      PROVE  ConsumedInv'
  <2>1. PICK amount \in Amounts :
            Start(c, NewCallback("bet", "ready", tid, tid, place, amount,
                                 reservation[place[1]].consumed + amount, -amount))
    BY <1>3 DEF FindReservation
  <2>2. Reserved(place[1])
    BY <1>3 DEF FindReservation, Reserved
  <2>3. Recent(NewCallback("bet", "ready", tid, tid, place, amount,
                           reservation[place[1]].consumed + amount, -amount))
    BY <2>2 DEF Recent, NewCallback
  <2>4. QED
    BY <1>1, <2>1, <2>3
<1>4. ASSUME NEW tid \in Tid, NEW bet \in Tid, FindActual(c, tid, bet) PROVE ConsumedInv'
  <2>1. PICK amount \in Amounts :
            Start(c, NewCallback("change", "found", tid, bet, actual[bet].place, amount,
                                 0, actual[bet].amount - amount))
    BY <1>4 DEF FindActual
  <2>2. Reserved(actual[bet].place[1])
    BY <1>4 DEF FindActual, ConsumedInv, RowsBegin
  <2>3. Recent(NewCallback("change", "found", tid, bet, actual[bet].place, amount,
                           0, actual[bet].amount - amount))
    BY <2>2 DEF Recent, NewCallback
  <2>4. QED
    BY <1>1, <2>1, <2>3
<1>5. ASSUME NEW op, NEW stage, NEW tid, NEW bet, NEW stake, NEW consumed, NEW delta,
             Start(c, NewCallback(op, stage, tid, bet, NoPlace, stake, consumed, delta))
      PROVE  ConsumedInv'
  <2>1. Recent(NewCallback(op, stage, tid, bet, NoPlace, stake, consumed, delta))
    BY DEF Recent, NewCallback
  <2>2. QED
    BY <1>1, <1>5, <2>1
<1>6. ASSUME NEW tid \in Tid, NEW bet \in Tid, NEW name, MissActual(c, tid, bet, name)
      PROVE  ConsumedInv'
  BY <1>5, <1>6 DEF MissActual
<1>7. ASSUME NEW tid \in Tid,
             \/ PlainBet(c, tid) \/ FindCancelled(c, tid) \/ FindResult(c, tid)
             \/ \E bet \in Tid : FindRefunded(c, tid, bet)
      PROVE  ConsumedInv'
  BY <1>5, <1>7 DEF PlainBet, FindCancelled, FindRefunded, FindResult
<1>8. QED
  BY <1>2, <1>3, <1>4, <1>6, <1>7 DEF Find

LEMMA ConsumedRead ==
    ASSUME ConsumedInv, IInv', NEW c \in Conn, Alone(c), Read(c) PROVE ConsumedInv'
<1> DEFINE x == conn[c]
<1>1. x \in Callback /\ Recent(x) /\ ConnSafe(x)
  BY ConnCases DEF Read, ReadReservation, ReadBet, ReadWallet, At, ConsumedInv, IInv,
                   Paying
<1>2. CASE ReadReservation(c)
  <2> DEFINE v == [x EXCEPT !.stage = "ready",
                            !.consumed = reservation[x.place[1]].consumed - x.delta]
  <2>1. Hold(c, v) /\ x.op = "change"
    BY <1>2 DEF ReadReservation, At
  <2>2. /\ v.op = x.op /\ v.place = x.place /\ v.bet = x.bet /\ v.delta = x.delta
        /\ v.stake = x.stake /\ v.consumed = reservation[x.place[1]].consumed - x.delta
    BY <1>1 DEF Callback, Paying
  <2> HIDE DEF v, x
  <2>3. Recent(v)
    BY <1>1, <2>1, <2>2 DEF Recent
  <2>4. QED
    BY <2>1, <2>3, ConsumedHold
<1>3. CASE ReadBet(c)
  <2> DEFINE v == [x EXCEPT !.stage = "ready", !.delta = casinoTx[x.bet].stake - x.stake]
  <2>1. Hold(c, v) /\ x.place = NoPlace
    BY <1>1, <1>3 DEF ReadBet, At, ConnSafe
  <2>2. v.place = NoPlace
    BY <1>1, <2>1 DEF Callback, Paying
  <2> HIDE DEF v, x
  <2>3. Recent(v)
    BY <2>2 DEF Recent
  <2>4. QED
    BY <2>1, <2>3, ConsumedHold
<1>4. CASE ReadWallet(c)
  <2> DEFINE v == [x EXCEPT !.stage = "paying", !.next = balance + x.delta]
  <2>1. Hold(c, v) /\ x.stage = "ready"
    BY <1>4 DEF ReadWallet, At
  <2>2. /\ v.op = x.op /\ v.place = x.place /\ v.bet = x.bet /\ v.delta = x.delta
        /\ v.stake = x.stake /\ v.consumed = x.consumed
    BY <1>1 DEF Callback, Paying
  <2> HIDE DEF v, x
  <2>3. Recent(v)
    BY <1>1, <2>1, <2>2 DEF Recent
  <2>4. QED
    BY <2>1, <2>3, ConsumedHold
<1>5. QED
  BY <1>2, <1>3, <1>4 DEF Read

\* The commit of a callback that has put a bet at its place, with its new stake, and
\* writes what is consumed then.
LEMMA ConsumedWrite ==
    ASSUME IsFiniteSet(Tid), ConsumedInv, IInv', NEW c \in Conn, Alone(c), conn'[c] = Idle,
           NEW p \in Place, NEW s \in Rid, s = p[1], NEW stake \in Int, NEW consumed \in Int,
           Reserved(s), reservation' = [reservation EXCEPT ![s].consumed = consumed],
           NEW bet \in Tid, \A t \in Tid \ {bet} : actual'[t] = actual[t],
           actual'[bet].place = p, actual'[bet].amount = stake,
           OnReservation(bet) => actual[bet].place = p,
           \A t \in Tid : Exists(t) => Exists(t)', Exists(bet)',
           consumed = reservation[s].consumed - Counted(bet, s) + stake
    PROVE  ConsumedInv'
<1>1. /\ TypeOK /\ TypeOK' /\ RowsBegin /\ ConsumedIsSum /\ p # NoPlace
      /\ reservation[s].consumed \in Int
  BY NowhereIsNoPlace DEF ConsumedInv, IInv, TypeOK, Reservation
<1>2. /\ reservation'[s].consumed = consumed /\ reservation'[s].status = reservation[s].status
      /\ \A r \in Rid \ {s} : reservation'[r] = reservation[r]
  BY <1>1 DEF TypeOK, Reservation
<1>3. OnReservation(bet)'
  BY <1>1 DEF OnReservation
<1>4. Counted(bet, s)' = stake
  BY <1>3 DEF Counted
<1>5. ASSUME NEW r \in Rid \ {s} PROVE Counted(bet, r) = 0 /\ Counted(bet, r)' = 0
  BY <1>3, <1>5 DEF Counted
<1>6. ASSUME NEW r \in Rid PROVE reservation'[r].consumed = BetsOn(r)'
  <2>1. BetsOn(r) \in Int /\ BetsOn(r)' = BetsOn(r) - Counted(bet, r) + Counted(bet, r)'
    BY <1>1, BetsAfter
  <2>2. reservation[r].consumed = BetsOn(r)
    BY <1>1 DEF ConsumedIsSum
  <2>3. Counted(bet, r) \in Int
    BY <1>1 DEF Counted, TypeOK, ActualRow
  <2>4. CASE r = s
    BY <1>1, <1>2, <1>4, <2>1, <2>2, <2>3, <2>4
  <2>5. CASE r # s
    BY <1>2, <1>5, <2>1, <2>2, <2>5
  <2>6. QED
    BY <2>4, <2>5
<1>7. \A r \in Rid : Reserved(r)' <=> Reserved(r)
  BY <1>2 DEF Reserved
<1>8. RowsBegin'
  <2>1. \A r \in Rid : ~Reserved(r)' => reservation'[r].consumed = 0
    BY <1>1, <1>2, <1>7 DEF RowsBegin
  <2>2. ASSUME NEW t \in Tid, OnReservation(t)'
        PROVE  (Exists(t) /\ Reserved(actual[t].place[1]))'
    <3>1. CASE t = bet
      BY <1>2, <3>1 DEF Reserved
    <3>2. CASE t # bet
      <4>1. actual'[t] = actual[t] /\ OnReservation(t)
        BY <2>2, <3>2 DEF OnReservation
      <4>2. Exists(t) /\ Reserved(actual[t].place[1]) /\ actual[t].place[1] \in Rid
        BY <1>1, <4>1, PlacedRid DEF RowsBegin
      <4>3. QED
        BY <1>2, <4>1, <4>2 DEF Reserved
    <3>3. QED
      BY <3>1, <3>2
  <2>3. QED
    BY <2>1, <2>2 DEF RowsBegin
<1>9. \A d \in Conn : Recent(conn[d])'
  <2>1. ASSUME NEW d \in Conn PROVE conn'[d] = Idle
    BY DEF Alone
  <2>2. QED
    BY <2>1 DEF Recent, Idle
<1>10. QED
  BY <1>6, <1>8, <1>9 DEF ConsumedInv, ConsumedIsSum

LEMMA ConsumedBet ==
    ASSUME IsFiniteSet(Tid), ConsumedInv, IInv', NEW c \in Conn, Alone(c), CommitBet(c)
    PROVE  ConsumedInv'
<1>1. /\ conn[c] \in Callback /\ conn[c].op = "bet" /\ conn[c].tid \in Tid
      /\ conn[c].place \in Place \cup {NoPlace} /\ conn[c].consumed \in Int
      /\ conn[c].stake \in Nat /\ Recent(conn[c]) /\ TypeOK
  BY ConnCases DEF CommitBet, At, ConsumedInv, IInv, ConnSafe, Callback, Paying
<1>2. PICK tid \in Tid, stake \in Nat, consumed \in Int, p \in Place \cup {NoPlace} :
          /\ tid = conn[c].tid /\ stake = conn[c].stake
          /\ consumed = conn[c].consumed /\ p = conn[c].place
  BY <1>1
<1>3. /\ ~Exists(tid) /\ casinoTx' = [casinoTx EXCEPT ![tid] = Insert("BET", stake)]
      /\ p = NoPlace => actual' = actual /\ reservation' = reservation
      /\ p # NoPlace =>
             /\ actual' = [actual EXCEPT ![tid] = [place |-> p, amount |-> stake]]
             /\ reservation' = [reservation EXCEPT ![p[1]].consumed = consumed]
      /\ conn' = [conn EXCEPT ![c] = Idle]
  BY <1>2 DEF CommitBet, Consume, Enter
<1>4. conn'[c] = Idle
  BY <1>1, <1>3, OneConn
<1>5. Exists(tid)' /\ \A t \in Tid : Exists(t) => Exists(t)'
  BY <1>1, <1>3 DEF TypeOK, Exists, Insert, NoTx
<1>6. ~OnReservation(tid)
  BY <1>3 DEF ConsumedInv, RowsBegin
<1>7. CASE p = NoPlace
  <2>1. \A d \in Conn : Recent(conn[d])'
    BY <1>4 DEF Alone, Recent, Idle
  <2>2. QED
    BY <1>3, <1>5, <1>7, <2>1, ConsumedQuiet DEF Reserved
<1>8. CASE p # NoPlace
  <2>1. PICK s \in Rid : s = p[1]
    BY <1>8, PlaceRid
  <2>2. Reserved(s) /\ consumed = reservation[s].consumed + stake
    BY <1>1, <1>2, <1>8, <2>1 DEF Recent
  <2>3. reservation[s].consumed \in Int
    BY <1>1 DEF TypeOK, Reservation
  <2>4. consumed = reservation[s].consumed - Counted(tid, s) + stake
    BY <1>6, <2>2, <2>3 DEF Counted
  <2>5. /\ \A t \in Tid \ {tid} : actual'[t] = actual[t]
        /\ actual'[tid].place = p /\ actual'[tid].amount = stake
    BY <1>1, <1>3, <1>8 DEF TypeOK
  <2>6. p \in Place /\ stake \in Int /\ reservation' = [reservation EXCEPT ![s].consumed = consumed]
    BY <1>3, <1>8, <2>1
  <2>7. QED
    BY <1>4, <1>5, <1>6, <2>1, <2>2, <2>4, <2>5, <2>6, ConsumedWrite
<1>9. QED
  BY <1>7, <1>8

LEMMA ConsumedChange ==
    ASSUME IsFiniteSet(Tid), ConsumedInv, IInv', NEW c \in Conn, Alone(c), CommitChange(c)
    PROVE  ConsumedInv'
<1>1. /\ conn[c] \in Callback /\ conn[c].op = "change" /\ conn[c].stage = "paying"
      /\ conn[c].tid \in Tid /\ conn[c].bet \in Tid
      /\ conn[c].place \in Place \cup {NoPlace} /\ conn[c].consumed \in Int
      /\ conn[c].stake \in Nat /\ Recent(conn[c]) /\ TypeOK
  BY ConnCases DEF CommitChange, At, ConsumedInv, IInv, ConnSafe, Callback, Paying
<1>2. PICK tid \in Tid, bet \in Tid, stake \in Nat, consumed \in Int, p \in Place \cup {NoPlace} :
          /\ tid = conn[c].tid /\ bet = conn[c].bet /\ stake = conn[c].stake
          /\ consumed = conn[c].consumed /\ p = conn[c].place
  BY <1>1
<1>3. /\ casinoTx' = [casinoTx EXCEPT ![bet].stake = stake,
                                       ![tid] = Insert("CHANGE", Size(conn[c].delta))]
      /\ p = NoPlace => actual' = actual /\ reservation' = reservation
      /\ p # NoPlace =>
             /\ actual' = [actual EXCEPT ![bet].amount = stake]
             /\ reservation' = [reservation EXCEPT ![p[1]].consumed = consumed]
      /\ conn' = [conn EXCEPT ![c] = Idle]
  BY <1>2 DEF CommitChange, ChangeTx, Consume, Enter
<1>4. conn'[c] = Idle
  BY <1>1, <1>3, OneConn
<1>5. \A t \in Tid : Exists(t) => Exists(t)'
  BY <1>1, <1>3 DEF TypeOK, TxRow, Exists, Insert, NoTx
<1>6. CASE p = NoPlace
  <2>1. \A d \in Conn : Recent(conn[d])'
    BY <1>4 DEF Alone, Recent, Idle
  <2>2. QED
    BY <1>3, <1>5, <1>6, <2>1, ConsumedQuiet DEF Reserved
<1>7. CASE p # NoPlace
  <2>1. PICK s \in Rid : s = p[1]
    BY <1>7, PlaceRid
  <2>2. /\ Reserved(s) /\ actual[bet].place = p
        /\ consumed = reservation[s].consumed - (actual[bet].amount - stake)
    BY <1>1, <1>2, <1>7, <2>1 DEF Recent
  <2>3. reservation[s].consumed \in Int /\ actual[bet].amount \in Nat /\ OnReservation(bet)
    BY <1>1, <1>7, <2>2 DEF TypeOK, Reservation, ActualRow, OnReservation
  <2>4. consumed = reservation[s].consumed - Counted(bet, s) + stake
    BY <2>1, <2>2, <2>3 DEF Counted
  <2>5. /\ \A t \in Tid \ {bet} : actual'[t] = actual[t]
        /\ actual'[bet].place = p /\ actual'[bet].amount = stake
    BY <1>1, <1>3, <1>7, <2>2 DEF TypeOK, ActualRow
  <2>6. Exists(bet)'
    BY <1>5, <2>3 DEF ConsumedInv, RowsBegin
  <2>7. p \in Place /\ stake \in Int /\ reservation' = [reservation EXCEPT ![s].consumed = consumed]
    BY <1>3, <1>7, <2>1
  <2>8. Reserved(s) /\ (OnReservation(bet) => actual[bet].place = p)
    BY <2>2
  <2>9. QED
    BY <1>4, <1>5, <2>1, <2>4, <2>5, <2>6, <2>7, <2>8, ConsumedWrite
<1>8. QED
  BY <1>6, <1>7

\* A cancellation, a refund or a result leaves the bet and its reservation as they
\* are.
LEMMA ConsumedOther ==
    ASSUME ConsumedInv, IInv', NEW c \in Conn, Alone(c),
           CommitCancel(c) \/ CommitRefund(c) \/ CommitResult(c)
    PROVE  ConsumedInv'
<1>1. /\ conn[c] \in Callback /\ conn[c].tid \in Tid /\ conn[c].bet \in Tid /\ TypeOK
      /\ conn' = [conn EXCEPT ![c] = Idle] /\ UNCHANGED <<reservation, actual>>
  BY ConnCases DEF CommitCancel, CommitRefund, CommitResult, Enter, At, ConsumedInv, IInv,
                   Callback, Paying
<1>2. \A t \in Tid : Exists(t) => Exists(t)'
  <2>1. CASE CommitCancel(c)
    BY <1>1, <2>1 DEF CommitCancel, TypeOK, TxRow, Exists
  <2>2. CASE CommitResult(c)
    BY <1>1, <2>2 DEF CommitResult, TypeOK, Exists, Insert, NoTx
  <2>3. CASE CommitRefund(c)
    BY <1>1, <2>3 DEF CommitRefund, TypeOK, TxRow, Exists, Insert, NoTx
  <2>4. QED
    BY <2>1, <2>2, <2>3
<1>3. conn'[c] = Idle
  BY <1>1, OneConn
<1>4. \A d \in Conn : Recent(conn[d])'
  BY <1>3 DEF Alone, Recent, Idle
<1>5. QED
  BY <1>1, <1>2, <1>4, ConsumedQuiet DEF Reserved

\* A reservation that comes, is ordered or confirmed has consumed what it had.
LEMMA ConsumedReserve ==
    ASSUME ConsumedInv, IInv', \A d \in Conn : conn'[d] = conn[d] \/ conn'[d] = Idle,
           UNCHANGED <<actual, casinoTx>>,
           \A r \in Rid : /\ reservation'[r].consumed = reservation[r].consumed
                          /\ Reserved(r) => Reserved(r)'
    PROVE  ConsumedInv'
<1>1. ASSUME NEW d \in Conn PROVE Recent(conn[d])'
  <2>1. Recent(conn'[d])
    BY IdleRecent DEF ConsumedInv
  <2>2. conn'[d] \in Callback /\ conn'[d].place # NoPlace => conn'[d].place[1] \in Rid
    BY PlaceRid DEF Callback, Paying
  <2>3. conn'[d].op \in {"bet", "change"} => conn'[d] \in Callback
    BY ConnCases DEF ConsumedInv, IInv, Idle, Paying
  <2>4. QED
    BY <2>1, <2>2, <2>3 DEF Recent
<1>2. QED
  BY <1>1, ConsumedQuiet DEF Exists

LEMMA OwnConsumedStep ==
    ASSUME IsFiniteSet(Tid), ConsumedInv, IInv', NEW c \in Conn, Alone(c),
           Find(c) \/ Read(c) \/ Commit(c) \/ Abort(c)
    PROVE  ConsumedInv'
<1>1. CASE Order(c)
  <2>1. PICK rid \in Rid : rid = conn[c].rid
    BY <1>1, ConnCases DEF Order, ConsumedInv, IInv, Ordering
  <2>2. /\ reservation' = [reservation EXCEPT ![rid].status = "ORDERED", ![rid].ordered = TRUE]
        /\ conn' = [conn EXCEPT ![c] = Idle] /\ UNCHANGED <<actual, casinoTx>>
    BY <1>1, <2>1 DEF Order
  <2>3. \A r \in Rid : /\ reservation'[r].consumed = reservation[r].consumed
                       /\ Reserved(r) => Reserved(r)'
    BY <2>2 DEF ConsumedInv, IInv, TypeOK, Reservation, Reserved
  <2>4. \A d \in Conn : conn'[d] = conn[d] \/ conn'[d] = Idle
    BY <2>2, OneConn DEF ConsumedInv, IInv
  <2>5. QED
    BY <2>2, <2>3, <2>4, ConsumedReserve
<1>2. CASE Abort(c)
  BY <1>2, IdleRecent, ConsumedHold DEF Abort
<1>3. QED
  BY <1>1, <1>2, ConsumedFind, ConsumedRead, ConsumedBet, ConsumedChange, ConsumedOther DEF Commit

LEMMA NextConsumedInv ==
    ASSUME IsFiniteSet(Tid)
    PROVE  (serial => ConsumedInv) /\ IInv /\ [MCNext]_mcvars => (serial => ConsumedInv)'
<1> SUFFICES ASSUME serial, ConsumedInv, [MCNext]_mcvars PROVE ConsumedInv'
  BY DEF MCNext, mcvars
<1>1. [Next]_vars
  BY DEF MCNext, mcvars, Next
<1>2. IInv' /\ TypeOK
  BY <1>1, NextIInv DEF ConsumedInv, IInv
<1>3. CASE UNCHANGED mcvars
  BY <1>2, <1>3, ConsumedReserve DEF mcvars, vars, Reserved
<1>4. ASSUME NEW rid \in Rid, Reserve(rid) PROVE ConsumedInv'
  <2>1. PICK amount \in Reserves, ordered \in BOOLEAN :
            reservation' = [reservation EXCEPT ![rid] =
                [status |-> IF ordered THEN "ORDERED" ELSE "PENDING",
                 reserved |-> amount, consumed |-> 0, ordered |-> ordered]]
    BY <1>4 DEF Reserve
  <2>2. reservation[rid].consumed = 0
    BY <1>4 DEF Reserve, ConsumedInv, RowsBegin
  <2>3. \A r \in Rid : /\ reservation'[r].consumed = reservation[r].consumed
                       /\ Reserved(r) => Reserved(r)'
    BY <1>2, <2>1, <2>2 DEF TypeOK, Reserved
  <2>4. QED
    BY <1>2, <1>4, <2>3, ConsumedReserve DEF Reserve
<1>5. ASSUME NEW rid \in Rid, Confirm(rid) PROVE ConsumedInv'
  <2>1. \A r \in Rid : /\ reservation'[r].consumed = reservation[r].consumed
                       /\ Reserved(r) => Reserved(r)'
    BY <1>2, <1>5 DEF Confirm, TypeOK, Reservation, Reserved
  <2>2. QED
    BY <1>2, <1>5, <2>1, ConsumedReserve DEF Confirm
<1>6. ASSUME NEW c \in Conn, MayStep(c), Find(c) \/ Read(c) \/ Commit(c) \/ Abort(c)
      PROVE  ConsumedInv'
  <2>1. Alone(c)
    BY <1>2, <1>6, OwnStep DEF MayStep, Alone
  <2>2. QED
    BY <1>2, <1>6, <2>1, OwnConsumedStep
<1>7. QED
  BY <1>3, <1>4, <1>5, <1>6 DEF MCNext

\* One callback after the other, however changes name their bets, what counts as
\* consumed of a reservation is the sum of the bets on it (sportsBetWithReserveProd and
\* sportsBetChangeProd), over any finite set of transaction ids.
THEOREM ConsumedIsTheSumOfBets ==
    ASSUME IsFiniteSet(Tid)
    PROVE  MCSpec => []SerialConsumedIsSum
<1>1. MCInit => (serial => ConsumedInv)
  BY InitConsumedInv DEF MCInit
<1>2. (serial => ConsumedInv) => SerialConsumedIsSum
  BY DEF ConsumedInv, ConsumedIsSum, SerialConsumedIsSum
<1>3. (serial => ConsumedInv) /\ IInv /\ [MCNext]_mcvars => (serial => ConsumedInv)'
  BY NextConsumedInv
<1>4. QED
  BY <1>1, <1>2, <1>3, AlwaysInstance, PTL DEF MCSpec

=============================================================================
