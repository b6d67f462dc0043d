--------------------------- MODULE EzeeSyncProofs ---------------------------
(***************************************************************************)
(* Proofs about EzeeSync, for every number of bookings, worker processes,  *)
(* overlapping passes and failures.                                        *)
(***************************************************************************)
EXTENDS EzeeSync, TLAPS, SequenceTheorems

(* The inductive invariant: types, what a handler relies on, what a pass   *)
(* relies on.                                                              *)

\* A number, of a row or in a handler, is of a reservation that eZee has made
\* for the booking.
Real(no, b) == pms[no].status # "none" /\ pms[no].booking = b

NumbersAreReal ==
    \A b \in Bookings : row[b].no # NoReservation => Real(row[b].no, b)

\* A handler at one of these has a number.
Numbered == {"persist", "process", "pay", "finish", "charge"}

SoundWorker(w) ==
    /\ worker[w].at # "idle" => worker[w].booking \in Bookings
    /\ worker[w].at \in Numbered =>
          /\ worker[w].no \in ReservationNos
          /\ Real(worker[w].no, worker[w].booking)
    /\ worker[w].at = "pay" => pms[worker[w].no].status \in Statuses

SoundPass(p) ==
    /\ pass[p].at = "check" =>
          \A b \in pass[p].todo : /\ pass[p].saw[b].no \in ReservationNos
                                  /\ Real(pass[p].saw[b].no, b)
    /\ pass[p].at = "write" =>
          /\ pass[p].booking \in Nightly
          /\ Reached(pass[p].booking, pass[p].found)
          /\ \A b \in pass[p].todo : /\ pass[p].saw[b].no \in ReservationNos
                                     /\ Real(pass[p].saw[b].no, b)

\* A receipt is of a message that is still there.
ReceiptsAreOfMessages ==
    \A b \in Bookings : inFlight[b] # NoBooking => queue[b] # <<>>

Inv ==
    /\ TypeOK
    /\ ReceiptsAreOfMessages
    /\ NumbersAreReal
    /\ \A w \in Workers : SoundWorker(w)
    /\ \A p \in Passes : SoundPass(p)

\* The messages of a group stay messages.
LEMMA Messages ==
    ASSUME NEW s \in Seq(Message), NEW type \in Types
    PROVE  /\ Append(s, NewMessage(type)) \in Seq(Message)
           /\ s # <<>> => Tail(s) \in Seq(Message)
           /\ s # <<>> => [s EXCEPT ![1].receives = @ + 1] \in Seq(Message)
           /\ s # <<>> => Head(s).type \in Types
<1>1. NewMessage(type) \in Message
  BY DEF NewMessage, Message
<1>2. Append(s, NewMessage(type)) \in Seq(Message)
  BY <1>1
<1>3. ASSUME s # <<>>
      PROVE  /\ Tail(s) \in Seq(Message)
             /\ [s EXCEPT ![1].receives = @ + 1] \in Seq(Message)
             /\ Head(s).type \in Types
  <2>1. 1 \in 1..Len(s) /\ s[1] \in Message
    BY <1>3
  <2>2. [s[1] EXCEPT !.receives = @ + 1] \in Message
    BY <2>1 DEF Message
  <2>3. [s EXCEPT ![1] = [s[1] EXCEPT !.receives = @ + 1]] \in Seq(Message)
    BY <2>1, <2>2, ExceptSeq
  <2>4. Tail(s) \in Seq(Message) /\ Head(s) = s[1]
    BY <1>3
  <2>5. QED
    BY <2>1, <2>3, <2>4 DEF Message
<1>4. QED
  BY <1>2, <1>3

LEMMA PollingIsHandler == Polling \in Handler
BY DEF Polling, Handler, Steps, Types

LEMMA RestingIsPass == Resting \in Pass /\ NewBooking \in BookingRow
BY DEF Resting, Pass, NewBooking, BookingRow, Statuses, Ended

LEMMA InitInv == Init => Inv
<1> SUFFICES ASSUME Init PROVE Inv
  OBVIOUS
<1>1. /\ <<>> \in Seq(Message) /\ <<NewMessage("insert")>> \in Seq(Message)
      /\ <<NewMessage("insert"), NewMessage("insert")>> \in Seq(Message)
  BY DEF NewMessage, Message, Types
<1>2. TypeOK
  <2>1. queue \in [Bookings -> Seq(Message)]
    BY <1>1 DEF Init
  <2>2. row \in [Bookings -> BookingRow] /\ worker \in [Workers -> Handler]
        /\ pass \in [Passes -> Pass]
    BY PollingIsHandler, RestingIsPass DEF Init
  <2>3. pms \in [ReservationNos -> Reservation]
    BY DEF Init, Reservation
  <2>4. QED
    BY <2>1, <2>2, <2>3, BoundsAssumption DEF Init, TypeOK
<1>3. NumbersAreReal
  BY DEF Init, NumbersAreReal, NewBooking
<1>4. (\A w \in Workers : SoundWorker(w)) /\ (\A p \in Passes : SoundPass(p))
  BY DEF Init, SoundWorker, SoundPass, Polling, Resting, Numbered
<1>5. ReceiptsAreOfMessages
  BY DEF Init, ReceiptsAreOfMessages
<1>6. QED
  BY <1>2, <1>3, <1>4, <1>5 DEF Inv
-----------------------------------------------------------------------------
(* Types, one variable at a time. *)

LEMMA QueueType ==
    ASSUME Inv, [Next]_vars
    PROVE  queue' \in [Bookings -> Seq(Message)]
<1>0. queue \in [Bookings -> Seq(Message)] /\ "insert" \in Types /\ "charge" \in Types
  BY DEF Inv, TypeOK, Types
<1>1. ASSUME NEW b \in Bookings, NEW type \in Types, Send(b, type)
      PROVE  queue' \in [Bookings -> Seq(Message)]
  BY <1>0, <1>1, Messages DEF Send
<1>2. ASSUME NEW b \in Bookings, QueueStep(b)
      PROVE  queue' \in [Bookings -> Seq(Message)]
  <2>1. ASSUME NEW w \in Workers, Receive(w, b)
        PROVE  queue' \in [Bookings -> Seq(Message)]
    <3>1. queue' = [queue EXCEPT ![b] = [queue[b] EXCEPT ![1].receives = @ + 1]]
          /\ queue[b] # <<>>
      BY <2>1 DEF Receive, Visible
    <3>2. [queue[b] EXCEPT ![1].receives = @ + 1] \in Seq(Message)
      BY <1>0, <3>1, Messages
    <3>3. QED
      BY <1>0, <3>1, <3>2
  <2>2. CASE DeadLetter(b)
    <3>1. queue' = [queue EXCEPT ![b] = Tail(queue[b])] /\ queue[b] # <<>>
      BY <2>2 DEF DeadLetter, Visible
    <3>2. Tail(queue[b]) \in Seq(Message)
      BY <1>0, <3>1, Messages
    <3>3. QED
      BY <1>0, <3>1, <3>2
  <2>3. CASE Expire(b)
    BY <1>0, <2>3 DEF Expire
  <2>4. QED
    BY <1>2, <2>1, <2>2, <2>3 DEF QueueStep
<1>3. ASSUME NEW b \in Bookings, SellAddon(b)
      PROVE  queue' \in [Bookings -> Seq(Message)]
  BY <1>0, <1>1, <1>3 DEF SellAddon
<1>4. ASSUME NEW w \in Workers, Delete(w)
      PROVE  queue' \in [Bookings -> Seq(Message)]
  <2> DEFINE b == worker[w].booking
  <2>1. b \in Bookings
    BY <1>4 DEF Delete, Inv, SoundWorker
  <2>2. CASE inFlight[b] = w
    <3>1. queue' = [queue EXCEPT ![b] = Tail(queue[b])] /\ queue[b] # <<>>
      BY <1>4, <2>1, <2>2, NoValueAssumption
      DEF Delete, Inv, ReceiptsAreOfMessages
    <3>2. Tail(queue[b]) \in Seq(Message)
      BY <1>0, <2>1, <3>1, Messages
    <3>3. QED
      BY <1>0, <3>1, <3>2
  <2>3. CASE inFlight[b] # w
    BY <1>0, <1>4, <2>3 DEF Delete
  <2>4. QED
    BY <2>2, <2>3
<1>5. ASSUME NEW p \in Passes, NEW b \in Nightly, Resend(p, b)
      PROVE  queue' \in [Bookings -> Seq(Message)]
  BY <1>0, <1>1, <1>5 DEF Resend, Bookings
<1>6. CASE queue' = queue
  BY <1>0, <1>6
<1>7. QED
  BY <1>2, <1>3, <1>4, <1>5, <1>6
  DEF Next, vars, WorkerStep, PassStep, ReadBooking, ReadBookingToCharge,
      InsertBooking, PersistNo, ProcessBooking, AddPayment, Finish,
      AddExtraCharge, Refused, Crash, FindUnsynced, FindActive, WriteStatus,
      EndPass, FetchBooking, AbandonPass, FrontDesk

LEMMA ReceiptsStep ==
    ASSUME Inv, [Next]_vars
    PROVE  ReceiptsAreOfMessages'
<1>0. /\ queue \in [Bookings -> Seq(Message)]
      /\ inFlight \in [Bookings -> Workers \cup {NoBooking}]
      /\ \A b \in Bookings : inFlight[b] # NoBooking => queue[b] # <<>>
  BY DEF Inv, TypeOK, ReceiptsAreOfMessages
<1>1. ASSUME NEW s \in Seq(Message)
      PROVE  /\ \A type : Append(s, NewMessage(type)) # <<>>
             /\ s # <<>> => [s EXCEPT ![1].receives = @ + 1] # <<>>
  <2>1. \A type : Append(s, NewMessage(type)) # <<>>
    BY DEF NewMessage
  <2>2. ASSUME s # <<>> PROVE [s EXCEPT ![1].receives = @ + 1] # <<>>
    <3>1. DOMAIN [s EXCEPT ![1].receives = @ + 1] = DOMAIN s
      OBVIOUS
    <3>2. DOMAIN s # {} /\ DOMAIN <<>> = {}
      BY <2>2
    <3>3. QED
      BY <3>1, <3>2
  <2>3. QED
    BY <2>1, <2>2
<1>2. SUFFICES ASSUME NEW b \in Bookings, inFlight'[b] # NoBooking
               PROVE  queue'[b] # <<>>
  BY DEF ReceiptsAreOfMessages
<1>3. ASSUME NEW d \in Bookings, NEW type, Send(d, type), inFlight' = inFlight
      PROVE  queue'[b] # <<>>
  BY <1>0, <1>1, <1>2, <1>3 DEF Send
<1>4. ASSUME NEW w \in Workers, NEW d \in Bookings, Receive(w, d)
      PROVE  queue'[b] # <<>>
  <2>1. queue' = [queue EXCEPT ![d] = [queue[d] EXCEPT ![1].receives = @ + 1]]
        /\ queue[d] # <<>>
        /\ inFlight' = [inFlight EXCEPT ![d] = w]
    BY <1>4 DEF Receive, Visible
  <2>2. [queue[d] EXCEPT ![1].receives = @ + 1] # <<>>
    BY <1>0, <1>1, <2>1
  <2>3. QED
    BY <1>0, <1>2, <2>1, <2>2
<1>5. ASSUME NEW d \in Bookings, DeadLetter(d) \/ Expire(d)
      PROVE  queue'[b] # <<>>
  BY <1>0, <1>2, <1>5 DEF DeadLetter, Expire, Visible
<1>6. ASSUME NEW w \in Workers, Delete(w)
      PROVE  queue'[b] # <<>>
  BY <1>0, <1>2, <1>6 DEF Delete
<1>7. ASSUME NEW d \in Bookings, SellAddon(d)
      PROVE  queue'[b] # <<>>
  BY <1>0, <1>2, <1>3, <1>7 DEF SellAddon
<1>8. ASSUME NEW p \in Passes, NEW d \in Nightly, Resend(p, d)
      PROVE  queue'[b] # <<>>
  BY <1>0, <1>2, <1>3, <1>8 DEF Resend, Bookings
<1>9. CASE UNCHANGED <<queue, inFlight>>
  BY <1>0, <1>2, <1>9
<1>10. QED
  BY <1>4, <1>5, <1>6, <1>7, <1>8, <1>9
  DEF Next, vars, WorkerStep, PassStep, QueueStep, ReadBooking,
      ReadBookingToCharge, InsertBooking, PersistNo, ProcessBooking, AddPayment,
      Finish, AddExtraCharge, Refused, Crash, FindUnsynced, FindActive,
      WriteStatus, EndPass, FetchBooking, AbandonPass, FrontDesk

LEMMA WorkerType ==
    ASSUME Inv, [Next]_vars
    PROVE  worker' \in [Workers -> Handler]
<1>0. worker \in [Workers -> Handler] /\ Polling \in Handler
      /\ row \in [Bookings -> BookingRow]
  BY PollingIsHandler DEF Inv, TypeOK
<1>1. ASSUME NEW w \in Workers, NEW rows, Throw(w, rows)
      PROVE  worker' \in [Workers -> Handler]
  BY <1>0, <1>1 DEF Throw
<1>2. ASSUME NEW w \in Workers, NEW step \in Steps,
             NEW no \in ReservationNos \cup {NoReservation}, GoOn(w, step, no)
      PROVE  worker' \in [Workers -> Handler]
  BY <1>0, <1>2 DEF GoOn, Handler
<1>3. ASSUME NEW w \in Workers, NEW step \in Steps,
             NEW no \in ReservationNos \cup {NoReservation}, NEW rows,
             Called(w, step, no, rows)
      PROVE  worker' \in [Workers -> Handler]
  BY <1>1, <1>2, <1>3 DEF Called
<1>4. ASSUME NEW w \in Workers, WorkerStep(w) \/ Crash(w)
      PROVE  worker' \in [Workers -> Handler]
  <2>1. /\ worker[w].no \in ReservationNos \cup {NoReservation}
        /\ worker[w].at # "idle" => worker[w].booking \in Bookings
    BY <1>0 DEF Handler, Inv, SoundWorker
  <2>2. \A b \in Bookings : row[b].no \in ReservationNos \cup {NoReservation}
    BY <1>0 DEF BookingRow
  <2>3. {"insert", "persist", "process", "pay", "finish", "charge", "delete"}
            \subseteq Steps
    BY DEF Steps
  <2>4. CASE ReadBooking(w)
    BY <1>2, <2>1, <2>2, <2>3, <2>4 DEF ReadBooking
  <2>5. CASE ReadBookingToCharge(w)
    BY <1>1, <1>2, <2>1, <2>2, <2>3, <2>5 DEF ReadBookingToCharge
  <2>6. ASSUME NEW n \in ReservationNos, InsertBooking(w, n)
        PROVE  worker' \in [Workers -> Handler]
    BY <1>3, <2>3, <2>6 DEF InsertBooking
  <2>7. CASE PersistNo(w)
    BY <1>3, <2>1, <2>3, <2>7 DEF PersistNo
  <2>8. CASE ProcessBooking(w)
    BY <1>1, <1>2, <1>3, <2>1, <2>3, <2>8 DEF ProcessBooking
  <2>9. CASE AddPayment(w)
    BY <1>2, <2>1, <2>3, <2>9 DEF AddPayment
  <2>10. CASE Finish(w)
    BY <1>3, <2>1, <2>3, <2>10 DEF Finish
  <2>11. CASE AddExtraCharge(w)
    BY <1>3, <2>1, <2>3, <2>11 DEF AddExtraCharge
  <2>12. CASE Refused(w) \/ Delete(w) \/ Crash(w)
    BY <1>0, <1>1, <2>12 DEF Refused, Delete, Crash
  <2>13. QED
    BY <1>4, <2>4, <2>5, <2>6, <2>7, <2>8, <2>9, <2>10, <2>11, <2>12
    DEF WorkerStep
<1>5. ASSUME NEW w \in Workers, NEW b \in Bookings, Receive(w, b)
      PROVE  worker' \in [Workers -> Handler]
  <2>1. Head(queue[b]).type \in Types
    BY <1>5, Messages DEF Receive, Visible, Inv, TypeOK, Types
  <2>2. [Polling EXCEPT !.at = "read", !.type = Head(queue[b]).type, !.booking = b]
            \in Handler
    BY <2>1 DEF Polling, Handler, Steps
  <2>3. QED
    BY <1>0, <1>5, <2>2 DEF Receive
<1>6. CASE worker' = worker
  BY <1>0, <1>6
<1>7. QED
  BY <1>4, <1>5, <1>6
  DEF Next, vars, PassStep, QueueStep, FindUnsynced, FindActive, WriteStatus,
      EndPass, Resend, FetchBooking, AbandonPass, FrontDesk, SellAddon,
      DeadLetter, Expire

\* A handler's own row, and a pass's, are all that change in the tables; the
\* number changes only when a handler persists it.
LEMMA RowStep ==
    ASSUME Inv, [Next]_vars
    PROVE  /\ row' \in [Bookings -> BookingRow]
           /\ \A b \in Bookings :
                 \/ row'[b].no = row[b].no
                 \/ \E w \in Workers : /\ PersistNo(w) /\ worker[w].booking = b
                                       /\ row'[b].no = worker[w].no
           /\ \A b \in Nightly :
                 \/ row'[b].status = row[b].status /\ row'[b].active = row[b].active
                 \/ \E p \in Passes : WriteStatus(p) /\ pass[p].booking = b
<1>0. /\ row \in [Bookings -> BookingRow]
      /\ worker \in [Workers -> Handler]
      /\ \A w \in Workers : /\ worker[w].at # "idle" => worker[w].booking \in Bookings
                            /\ worker[w].no \in ReservationNos \cup {NoReservation}
  BY DEF Inv, TypeOK, SoundWorker, Handler
<1> DEFINE Same(rows) ==
               /\ rows \in [Bookings -> BookingRow]
               /\ \A b \in Bookings : /\ rows[b].no = row[b].no
                                      /\ rows[b].status = row[b].status
                                      /\ rows[b].active = row[b].active
<1>1. Same(row)
  BY <1>0
<1>2. ASSUME NEW w \in Workers, NEW rows \in [Bookings -> BookingRow],
             worker[w].booking \in Bookings, Throw(w, rows)
      PROVE  /\ row' \in [Bookings -> BookingRow]
             /\ \A b \in Bookings : /\ row'[b].no = rows[b].no
                                    /\ row'[b].status = rows[b].status
                                    /\ row'[b].active = rows[b].active
  BY <1>2 DEF Throw, BookingRow
<1>3. ASSUME NEW w \in Workers, NEW rows \in [Bookings -> BookingRow],
             NEW step, NEW no, worker[w].booking \in Bookings, Called(w, step, no, rows)
      PROVE  /\ row' \in [Bookings -> BookingRow]
             /\ \A b \in Bookings : /\ row'[b].no = rows[b].no
                                    /\ row'[b].status = rows[b].status
                                    /\ row'[b].active = rows[b].active
  BY <1>2, <1>3 DEF Called
<1>4. ASSUME NEW w \in Workers, WorkerStep(w), ~PersistNo(w)
      PROVE  Same(row')
  <2>1. CASE ReadBooking(w) \/ AddPayment(w) \/ Delete(w)
    BY <1>1, <2>1 DEF ReadBooking, AddPayment, Delete
  <2>2. CASE ReadBookingToCharge(w) \/ ProcessBooking(w) \/ Refused(w)
             \/ AddExtraCharge(w)
             \/ \E n \in ReservationNos : InsertBooking(w, n)
    BY <1>0, <1>1, <1>2, <1>3, <2>2
    DEF ReadBookingToCharge, ProcessBooking, Refused, AddExtraCharge, InsertBooking
  <2>3. CASE Finish(w)
    <3> DEFINE b == worker[w].booking
               rows == [row EXCEPT ![b].sync = IF b \in Colive THEN "SYNCED" ELSE @]
    <3>1. b \in Bookings /\ Called(w, "delete", worker[w].no, rows)
      BY <1>0, <2>3 DEF Finish
    <3>2. Same(rows)
      BY <1>0, <3>1 DEF BookingRow
    <3> HIDE DEF rows
    <3>3. QED
      BY <1>3, <3>1, <3>2
  <2>4. QED
    BY <1>4, <2>1, <2>2, <2>3 DEF WorkerStep
<1>5. ASSUME NEW w \in Workers, PersistNo(w)
      PROVE  /\ row' \in [Bookings -> BookingRow]
             /\ \A b \in Bookings :
                   /\ row'[b].status = row[b].status /\ row'[b].active = row[b].active
                   /\ row'[b].no = IF b = worker[w].booking THEN worker[w].no
                                                            ELSE row[b].no
  <2> DEFINE b == worker[w].booking
             rows == [row EXCEPT ![b].no = worker[w].no,
                                 ![b].sync = IF b \in Colive THEN "PARTIAL" ELSE @]
  <2>1. b \in Bookings /\ Called(w, "process", worker[w].no, rows)
        /\ worker[w].no \in ReservationNos \cup {NoReservation}
    BY <1>0, <1>5 DEF PersistNo
  <2>2. /\ rows \in [Bookings -> BookingRow]
        /\ \A d \in Bookings :
              /\ rows[d].status = row[d].status /\ rows[d].active = row[d].active
              /\ rows[d].no = IF d = worker[w].booking THEN worker[w].no ELSE row[d].no
    BY <1>0, <2>1 DEF BookingRow
  <2> HIDE DEF rows
  <2>3. QED
    BY <1>3, <2>1, <2>2
<1>6. ASSUME NEW p \in Passes, WriteStatus(p)
      PROVE  /\ row' \in [Bookings -> BookingRow]
             /\ \A b \in Bookings :
                   /\ row'[b].no = row[b].no
                   /\ b # pass[p].booking =>
                         row'[b].status = row[b].status /\ row'[b].active = row[b].active
  <2>1. pass[p].found \in Statuses
    BY DEF Inv, TypeOK, Pass
  <2> DEFINE b == pass[p].booking
             found == pass[p].found
  <2>2. row' = [d \in Bookings |->
                  IF d = b THEN [row[d] EXCEPT
                                   !.status = found,
                                   !.active = IF found \in Ended THEN FALSE ELSE @]
                           ELSE row[d]]
    BY <1>0, <1>6 DEF WriteStatus
  <2>3. \A d \in Bookings : row'[d] \in BookingRow
    BY <1>0, <2>1, <2>2 DEF BookingRow
  <2>4. \A d \in Bookings : row'[d].no = row[d].no
    BY <1>0, <2>2 DEF BookingRow
  <2>5. QED
    BY <2>2, <2>3, <2>4
<1>7. CASE row' = row
  BY <1>1, <1>7
<1>8. Nightly \subseteq Bookings
  BY DEF Bookings
<1>9. CASE \E w \in Workers : WorkerStep(w) /\ ~PersistNo(w)
  BY <1>4, <1>8, <1>9
<1>10. CASE \E w \in Workers : PersistNo(w)
  BY <1>0, <1>5, <1>8, <1>10 DEF PersistNo
<1>11. CASE \E p \in Passes : WriteStatus(p)
  BY <1>6, <1>8, <1>11
<1>12. QED
  <2>1. CASE row' = row
    BY <1>0, <2>1
  <2>2. QED
    BY <1>9, <1>10, <1>11, <2>1
    DEF Next, vars, PassStep, QueueStep, FindUnsynced, FindActive, EndPass, Resend,
        FetchBooking, AbandonPass, FrontDesk, SellAddon, DeadLetter, Expire, Crash,
        Receive

\* How a reservation's status can change.
Moves == {<<"new", "CONFIRMED">>, <<"CONFIRMED", "CHECKED_IN">>,
          <<"CONFIRMED", "CANCELLED">>, <<"CONFIRMED", "NO_SHOW">>,
          <<"CHECKED_IN", "CHECKED_OUT">>}

\* What a step does to a reservation.
ReservationStep(n) ==
    \/ pms'[n] = pms[n]
    \/ /\ pms[n].status = "none" /\ pms'[n].status = "new"
       /\ pms'[n].paid = pms[n].paid
    \/ /\ <<pms[n].status, pms'[n].status>> \in Moves
       /\ pms'[n].booking = pms[n].booking /\ pms'[n].paid = pms[n].paid
    \/ /\ pms'[n].status = pms[n].status /\ pms'[n].booking = pms[n].booking
       /\ pms'[n].paid = pms[n].paid
    \/ /\ pms'[n].status = pms[n].status /\ pms'[n].booking = pms[n].booking
       /\ \E w \in Workers : worker[w].at = "pay" /\ worker[w].no = n

LEMMA PmsStep ==
    ASSUME Inv, [Next]_vars
    PROVE  /\ pms' \in [ReservationNos -> Reservation]
           /\ \A n \in ReservationNos : ReservationStep(n)
<1>0. pms \in [ReservationNos -> Reservation]
  BY DEF Inv, TypeOK
<1>1. ASSUME NEW w \in Workers, NEW n \in ReservationNos, InsertBooking(w, n)
      PROVE  /\ pms' \in [ReservationNos -> Reservation]
             /\ \A m \in ReservationNos : ReservationStep(m)
  <2>1. worker[w].booking \in Bookings
    BY <1>1 DEF InsertBooking, Inv, SoundWorker
  <2>2. QED
    BY <1>0, <1>1, <2>1 DEF InsertBooking, Reservation, ReservationStep
<1>2. ASSUME NEW w \in Workers, ProcessBooking(w)
      PROVE  /\ pms' \in [ReservationNos -> Reservation]
             /\ \A m \in ReservationNos : ReservationStep(m)
  <2>1. worker[w].no \in ReservationNos
    BY <1>2 DEF ProcessBooking, Inv, SoundWorker, Numbered
  <2>2. CASE pms[worker[w].no].status = "new"
    <3>1. pms' = [pms EXCEPT ![worker[w].no].status = "CONFIRMED"]
      BY <1>2, <2>2 DEF ProcessBooking
    <3>2. QED
      BY <1>0, <2>1, <2>2, <3>1 DEF Reservation, ReservationStep, Statuses, Moves
  <2>3. CASE pms[worker[w].no].status # "new"
    BY <1>0, <1>2, <2>3 DEF ProcessBooking, ReservationStep
  <2>4. QED
    BY <2>2, <2>3
<1>3. ASSUME NEW w \in Workers, AddPayment(w)
      PROVE  /\ pms' \in [ReservationNos -> Reservation]
             /\ \A m \in ReservationNos : ReservationStep(m)
  <2>1. worker[w].no \in ReservationNos /\ worker[w].at = "pay"
    BY <1>3 DEF AddPayment, Inv, SoundWorker, Numbered
  <2>2. CASE pms' = pms
    BY <1>0, <2>2 DEF ReservationStep
  <2>3. CASE pms' # pms
    <3> DEFINE n == worker[w].no
               paid == IF pms[n].paid < MaxPaid THEN pms[n].paid + 1 ELSE pms[n].paid
    <3>1. pms' = [pms EXCEPT ![n].paid = paid]
      BY <1>3, <2>3 DEF AddPayment
    <3>2. paid \in Nat
      BY <1>0, <2>1 DEF Reservation
    <3> HIDE DEF paid
    <3>3. QED
      BY <1>0, <2>1, <3>1, <3>2 DEF Reservation, ReservationStep
  <2>4. QED
    BY <2>2, <2>3
<1>4. ASSUME NEW w \in Workers, AddExtraCharge(w)
      PROVE  /\ pms' \in [ReservationNos -> Reservation]
             /\ \A m \in ReservationNos : ReservationStep(m)
  <2> DEFINE n == worker[w].no
             charge == ChargeOf(Price, Quantity)
  <2>1. pms' = [pms EXCEPT ![n].charged = @ + charge]
    BY <1>4 DEF AddExtraCharge
  <2>2. charge \in Nat
    BY BoundsAssumption DEF ChargeOf
  <2>3. n \in ReservationNos
    BY <1>4 DEF AddExtraCharge, Inv, SoundWorker, Numbered
  <2> HIDE DEF charge
  <2>4. QED
    BY <1>0, <2>1, <2>2, <2>3 DEF Reservation, ReservationStep
<1>5. ASSUME NEW n \in ReservationNos, FrontDesk(n)
      PROVE  /\ pms' \in [ReservationNos -> Reservation]
             /\ \A m \in ReservationNos : ReservationStep(m)
  <2>1. PICK to \in Statuses :
              pms' = [pms EXCEPT ![n].status = to] /\ <<pms[n].status, to>> \in Moves
    BY <1>5 DEF FrontDesk, Statuses, Ended, Moves
  <2>2. QED
    BY <1>0, <2>1 DEF Reservation, ReservationStep
<1>6. CASE pms' = pms
  BY <1>0, <1>6 DEF ReservationStep
<1>7. QED
  BY <1>1, <1>2, <1>3, <1>4, <1>5, <1>6
  DEF Next, vars, WorkerStep, PassStep, QueueStep, ReadBooking,
      ReadBookingToCharge, PersistNo, Finish, Refused, Delete, Crash,
      FindUnsynced, FindActive, WriteStatus, EndPass, Resend, FetchBooking,
      AbandonPass, SellAddon, Receive, DeadLetter, Expire

\* What was reached stays reached, what was made stays of its booking.
LEMMA Onward ==
    ASSUME Inv, [Next]_vars
    PROVE  /\ \A n \in ReservationNos, b \in Bookings : Real(n, b) => Real(n, b)'
           /\ \A n \in ReservationNos : pms[n].status \in Statuses =>
                                            pms'[n].status \in Statuses
           /\ \A b \in Bookings, status \in Statuses :
                 Reached(b, status) => Reached(b, status)'
           /\ \A b \in Bookings :
                 (\E n \in ReservationNos : pms[n].booking = b /\ pms[n].status \in Ended)
                 => \E n \in ReservationNos : pms'[n].booking = b /\ pms'[n].status \in Ended
<1>0. \A n \in ReservationNos : ReservationStep(n) /\ pms[n] \in Reservation
  BY PmsStep DEF Inv, TypeOK
<1>1. \A n \in ReservationNos, b \in Bookings : Real(n, b) => Real(n, b)'
  BY <1>0 DEF ReservationStep, Real, Moves
<1>2. \A n \in ReservationNos : pms[n].status \in Statuses => pms'[n].status \in Statuses
  BY <1>0 DEF ReservationStep, Moves, Statuses, Ended
<1>3. ASSUME NEW b \in Bookings, NEW status \in Statuses, Reached(b, status)
      PROVE  Reached(b, status)'
  <2>1. CASE status = "CONFIRMED"
    BY <2>1 DEF Reached
  <2>2. ASSUME NEW n \in ReservationNos, status # "CONFIRMED",
               pms[n].booking = b, status \in Behind(pms[n].status)
        PROVE  Reached(b, status)'
    <3>1. pms[n].status \in Statuses \ {"CONFIRMED"}
      BY <2>2 DEF Behind, Statuses, Ended
    <3>2. pms'[n].booking = b /\ status \in Behind(pms'[n].status)
      BY <1>0, <2>2, <3>1 DEF ReservationStep, Moves, Behind, Statuses, Ended
    <3>3. QED
      BY <3>2 DEF Reached
  <2>3. QED
    BY <1>3, <2>1, <2>2 DEF Reached
<1>4. ASSUME NEW b \in Bookings, NEW n \in ReservationNos,
             pms[n].booking = b, pms[n].status \in Ended
      PROVE  pms'[n].booking = b /\ pms'[n].status \in Ended
  BY <1>0, <1>4 DEF ReservationStep, Moves, Ended
<1>5. QED
  BY <1>1, <1>2, <1>3, <1>4
-----------------------------------------------------------------------------
(* The invariant, part by part. *)

LEMMA PassType ==
    ASSUME Inv, [Next]_vars
    PROVE  pass' \in [Passes -> Pass]
<1>0. pass \in [Passes -> Pass] /\ Resting \in Pass /\ NewBooking \in BookingRow
      /\ row \in [Bookings -> BookingRow] /\ Nightly \subseteq Bookings
  BY RestingIsPass DEF Inv, TypeOK, Bookings
<1>1. ASSUME NEW p \in Passes, PassStep(p) \/ AbandonPass(p)
      PROVE  pass' \in [Passes -> Pass]
  <2>1. CASE FindUnsynced(p)
    BY <1>0, <2>1 DEF FindUnsynced, Pass
  <2>2. CASE FindActive(p)
    <3> DEFINE todo == {b \in Nightly : /\ row[b].status \in {"CONFIRMED", "CHECKED_IN"}
                                        /\ row[b].active
                                        /\ row[b].no # NoReservation}
               saw == [b \in Nightly |-> IF b \in todo THEN row[b] ELSE NewBooking]
    <3>1. todo \in SUBSET Nightly /\ saw \in [Nightly -> BookingRow]
      BY <1>0
    <3>2. pass' = [pass EXCEPT ![p].at = "check", ![p].todo = todo, ![p].saw = saw]
      BY <2>2 DEF FindActive
    <3> HIDE DEF todo, saw
    <3>3. QED
      BY <1>0, <3>1, <3>2 DEF Pass
  <2>3. CASE WriteStatus(p) \/ EndPass(p) \/ AbandonPass(p)
    BY <1>0, <2>3 DEF WriteStatus, EndPass, AbandonPass, Pass, Statuses
  <2>4. ASSUME NEW b \in Nightly, Resend(p, b) \/ FetchBooking(p, b)
        PROVE  pass' \in [Passes -> Pass]
    BY <1>0, <2>4 DEF Resend, FetchBooking, Pass
  <2>5. QED
    BY <1>1, <2>1, <2>2, <2>3, <2>4 DEF PassStep
<1>2. CASE pass' = pass
  BY <1>0, <1>2
<1>3. QED
  BY <1>1, <1>2
  DEF Next, vars, WorkerStep, QueueStep, ReadBooking, ReadBookingToCharge,
      InsertBooking, PersistNo, ProcessBooking, AddPayment, Finish,
      AddExtraCharge, Refused, Delete, Crash, FrontDesk, SellAddon, Receive,
      DeadLetter, Expire

LEMMA TypeStep ==
    ASSUME Inv, [Next]_vars
    PROVE  TypeOK'
<1>0. TypeOK /\ \A w \in Workers : worker[w].at # "idle" => worker[w].booking \in Bookings
  BY DEF Inv, SoundWorker
<1>1. inFlight' \in [Bookings -> Workers \cup {NoBooking}]
  <2>1. ASSUME NEW b \in Bookings, QueueStep(b)
        PROVE  inFlight' \in [Bookings -> Workers \cup {NoBooking}]
    BY <1>0, <2>1 DEF QueueStep, Receive, DeadLetter, Expire, TypeOK
  <2>2. ASSUME NEW w \in Workers, Delete(w)
        PROVE  inFlight' \in [Bookings -> Workers \cup {NoBooking}]
    BY <1>0, <2>2 DEF Delete, TypeOK
  <2>3. CASE inFlight' = inFlight
    BY <1>0, <2>3 DEF TypeOK
  <2>4. QED
    BY <2>1, <2>2, <2>3
    DEF Next, vars, WorkerStep, PassStep, ReadBooking, ReadBookingToCharge,
        InsertBooking, PersistNo, ProcessBooking, AddPayment, Finish,
        AddExtraCharge, Refused, Crash, FindUnsynced, FindActive, WriteStatus,
        EndPass, Resend, FetchBooking, AbandonPass, FrontDesk, SellAddon
<1>2. sold' \in [Bookings -> Nat] /\ faults' \in 0..MaxFaults
  <2>1. CASE UNCHANGED sold /\ (UNCHANGED faults \/ Fault)
    BY <1>0, <2>1, BoundsAssumption DEF TypeOK, Fault
  <2>2. ASSUME NEW b \in Bookings, SellAddon(b)
        PROVE  sold' \in [Bookings -> Nat] /\ faults' \in 0..MaxFaults
    <3>1. faults' \in 0..MaxFaults
      BY <1>0, <2>2, BoundsAssumption DEF SellAddon, Fault, TypeOK
    <3>2. sold[b] + Price \in Nat /\ sold' = [sold EXCEPT ![b] = sold[b] + Price]
      BY <1>0, <2>2, BoundsAssumption DEF SellAddon, TypeOK
    <3>3. QED
      BY <1>0, <3>1, <3>2 DEF TypeOK
  <2>3. ASSUME NEW w \in Workers, WorkerStep(w) \/ Crash(w)
        PROVE  UNCHANGED sold /\ (UNCHANGED faults \/ Fault)
    BY <2>3 DEF WorkerStep, ReadBooking, ReadBookingToCharge, InsertBooking,
        PersistNo, ProcessBooking, AddPayment, Finish, AddExtraCharge, Refused,
        Called, Delete, Crash
  <2>4. ASSUME NEW p \in Passes, PassStep(p) \/ AbandonPass(p)
        PROVE  UNCHANGED sold /\ (UNCHANGED faults \/ Fault)
    BY <2>4 DEF PassStep, FindUnsynced, FindActive, WriteStatus, EndPass, Resend,
        FetchBooking, AbandonPass
  <2>5. QED
    BY <2>1, <2>2, <2>3, <2>4
    DEF Next, vars, QueueStep, FrontDesk, Receive, DeadLetter, Expire
<1>3. QED
  BY <1>1, <1>2, QueueType, WorkerType, RowStep, PmsStep, PassType DEF TypeOK

LEMMA NumbersStep ==
    ASSUME Inv, [Next]_vars
    PROVE  NumbersAreReal'
<1> SUFFICES ASSUME NEW b \in Bookings, NEW n, n = row'[b].no, n # NoReservation
             PROVE  Real(n, b)'
  BY DEF NumbersAreReal, Real
<1>1. CASE n = row[b].no
  <2>1. n \in ReservationNos /\ Real(n, b)
    BY <1>1 DEF Inv, TypeOK, BookingRow, NumbersAreReal
  <2>2. QED
    BY <2>1, Onward
<1>2. ASSUME NEW w \in Workers, PersistNo(w), worker[w].booking = b,
             n = worker[w].no
      PROVE  Real(n, b)'
  <2>1. Real(n, b)
    BY <1>2 DEF PersistNo, Inv, SoundWorker, Numbered
  <2>2. pms' = pms
    BY <1>2 DEF PersistNo
  <2>3. QED
    BY <2>1, <2>2 DEF Real
<1>3. QED
  BY <1>1, <1>2, RowStep

\* A handler that did not move still relies on what holds.
LEMMA SoundWorkerStays ==
    ASSUME Inv, [Next]_vars, NEW w \in Workers,
           \/ worker'[w] = worker[w]
           \/ worker'[w] = Polling
    PROVE  SoundWorker(w)'
<1>1. CASE worker'[w] = Polling
  BY <1>1 DEF SoundWorker, Polling, Numbered
<1>2. CASE worker'[w] = worker[w]
  <2>1. SoundWorker(w)
    BY DEF Inv
  <2>2. /\ worker[w].at \in Numbered => Real(worker[w].no, worker[w].booking)'
        /\ worker[w].at = "pay" => pms'[worker[w].no].status \in Statuses
    <3> DEFINE n == worker[w].no
               b == worker[w].booking
    <3>1. \A m \in ReservationNos, d \in Bookings : Real(m, d) =>
              pms'[m].status # "none" /\ pms'[m].booking = d
      BY Onward DEF Real
    <3>2. \A m \in ReservationNos : pms[m].status \in Statuses =>
              pms'[m].status \in Statuses
      BY Onward
    <3>3. worker[w].at \in Numbered => n \in ReservationNos /\ Real(n, b) /\ b \in Bookings
      BY <2>1 DEF SoundWorker, Numbered
    <3>4. worker[w].at = "pay" => n \in ReservationNos /\ pms[n].status \in Statuses
      BY <2>1 DEF SoundWorker, Numbered
    <3>5. QED
      BY <1>2, <3>1, <3>2, <3>3, <3>4 DEF Real
  <2>3. QED
    BY <1>2, <2>1, <2>2 DEF SoundWorker, Real
<1>3. QED
  BY <1>1, <1>2

\* What a handler does to itself.
LEMMA HandlerMoves ==
    ASSUME Inv, NEW w \in Workers
    PROVE  /\ \A step, no : GoOn(w, step, no) =>
                 /\ \A v \in Workers \ {w} : worker'[v] = worker[v]
                 /\ worker'[w].at = step /\ worker'[w].no = no
                 /\ worker'[w].booking = worker[w].booking
           /\ \A rows : Throw(w, rows) =>
                 /\ \A v \in Workers \ {w} : worker'[v] = worker[v]
                 /\ worker'[w] = Polling
BY DEF Inv, TypeOK, Handler, GoOn, Throw

LEMMA SoundWorkerStep ==
    ASSUME Inv, [Next]_vars, NEW v \in Workers
    PROVE  SoundWorker(v)'
<1>0. /\ worker \in [Workers -> Handler]
      /\ pms \in [ReservationNos -> Reservation]
      /\ \A w \in Workers : SoundWorker(w)
  BY DEF Inv, TypeOK
<1>1. CASE worker'[v] = worker[v] \/ worker'[v] = Polling
  BY <1>1, SoundWorkerStays
<1>2. ASSUME WorkerStep(v), worker'[v] # Polling
      PROVE  SoundWorker(v)'
  <2> DEFINE b == worker[v].booking
             no == worker[v].no
  <2>0. /\ worker[v].at # "idle" => b \in Bookings
        /\ worker[v].at \in Numbered => no \in ReservationNos /\ Real(no, b)
    BY <1>0 DEF SoundWorker
  <2>1. CASE ReadBooking(v) \/ ReadBookingToCharge(v)
    <3>1. PICK step \in {"insert", "process", "charge", "delete"} :
              /\ GoOn(v, step, row[b].no)
              /\ step \in {"process", "charge"} => row[b].no # NoReservation
              /\ worker[v].at # "idle" /\ pms' = pms
      BY <1>2, <2>1, HandlerMoves DEF ReadBooking, ReadBookingToCharge
    <3>2. worker'[v].at = step /\ worker'[v].no = row[b].no /\ worker'[v].booking = b
      BY <3>1, HandlerMoves
    <3>3. row[b].no # NoReservation => row[b].no \in ReservationNos /\ Real(row[b].no, b)
      BY <2>0, <3>1 DEF Inv, TypeOK, BookingRow, NumbersAreReal
    <3>4. QED
      BY <2>0, <3>1, <3>2, <3>3 DEF SoundWorker, Numbered, Real
  <2>2. ASSUME NEW n \in ReservationNos, InsertBooking(v, n)
        PROVE  SoundWorker(v)'
    <3>1. GoOn(v, "persist", n) /\ worker[v].at = "insert"
          /\ pms' = [pms EXCEPT ![n].booking = b, ![n].status = "new"]
      BY <1>2, <2>2, HandlerMoves DEF InsertBooking, Called
    <3>2. pms'[n].booking = b /\ pms'[n].status = "new"
      BY <1>0, <3>1 DEF Reservation
    <3>3. worker'[v].at = "persist" /\ worker'[v].no = n /\ worker'[v].booking = b
      BY <3>1, HandlerMoves
    <3>4. QED
      BY <2>0, <3>1, <3>2, <3>3 DEF SoundWorker, Numbered, Real
  <2>3. CASE PersistNo(v) \/ AddPayment(v) \/ Finish(v) \/ AddExtraCharge(v)
    <3>1. PICK step \in {"process", "finish", "delete"} :
              GoOn(v, step, no) /\ worker[v].at \in Numbered
      BY <1>2, <2>3, HandlerMoves
      DEF PersistNo, AddPayment, Finish, AddExtraCharge, Called, Numbered
    <3>2. \A n \in ReservationNos, d \in Bookings :
              Real(n, d) => pms'[n].status # "none" /\ pms'[n].booking = d
      BY Onward DEF Real
    <3>3. worker'[v].at = step /\ worker'[v].no = no /\ worker'[v].booking = b
      BY <3>1, HandlerMoves
    <3>4. worker[v].at # "idle"
      BY <3>1 DEF Numbered
    <3>5. QED
      BY <2>0, <3>1, <3>2, <3>3, <3>4 DEF SoundWorker, Numbered, Real
  <2>4. CASE ProcessBooking(v)
    <3>1. GoOn(v, "pay", no) /\ worker[v].at = "process" /\ no \in ReservationNos
          /\ b \in Bookings /\ Real(no, b)
      BY <1>2, <2>0, <2>4, HandlerMoves DEF ProcessBooking, Called, Numbered
    <3>2. pms'[no].status \in Statuses /\ pms'[no].booking = b
      <4>1. CASE pms[no].status = "new"
        <5>1. pms' = [pms EXCEPT ![no].status = "CONFIRMED"]
          BY <2>4, <4>1 DEF ProcessBooking
        <5>2. QED
          BY <1>0, <3>1, <5>1 DEF Reservation, Real, Statuses
      <4>2. CASE pms[no].status # "new"
        <5>1. pms' = pms
          BY <2>4, <4>2 DEF ProcessBooking
        <5>2. QED
          BY <1>0, <3>1, <4>2, <5>1 DEF Reservation, Real
      <4>3. QED
        BY <4>1, <4>2
    <3>3. "none" \notin Statuses
      BY DEF Statuses, Ended
    <3>4. QED
      BY <3>1, <3>2, <3>3, HandlerMoves DEF SoundWorker, Numbered, Real
  <2>5. CASE Refused(v) \/ Delete(v)
    BY <1>0, <1>2, <2>5, HandlerMoves DEF Refused, Delete
  <2>6. QED
    BY <1>2, <2>1, <2>2, <2>3, <2>4, <2>5 DEF WorkerStep
<1>3. ASSUME NEW w \in Workers, WorkerStep(w) \/ Crash(w), w # v
      PROVE  worker'[v] = worker[v]
  <2> DEFINE Goes == \/ \E step, no : GoOn(w, step, no)
                     \/ \E rows : Throw(w, rows)
                     \/ worker' = [worker EXCEPT ![w] = Polling]
  <2>1. CASE ReadBooking(w) \/ ReadBookingToCharge(w)
    <3>1. Goes
      BY <2>1 DEF ReadBooking, ReadBookingToCharge
    <3>2. QED
      BY <1>0, <1>3, <3>1, HandlerMoves
  <2>2. CASE (\E n \in ReservationNos : InsertBooking(w, n)) \/ PersistNo(w)
    <3>1. Goes
      BY <2>2 DEF InsertBooking, PersistNo, Called
    <3>2. QED
      BY <1>0, <1>3, <3>1, HandlerMoves
  <2>3. CASE ProcessBooking(w) \/ AddPayment(w)
    <3>1. Goes
      BY <2>3 DEF ProcessBooking, AddPayment, Called
    <3>2. QED
      BY <1>0, <1>3, <3>1, HandlerMoves
  <2>4. CASE Finish(w) \/ AddExtraCharge(w)
    <3>1. Goes
      BY <2>4 DEF Finish, AddExtraCharge, Called
    <3>2. QED
      BY <1>0, <1>3, <3>1, HandlerMoves
  <2>5. CASE Refused(w) \/ Delete(w) \/ Crash(w)
    <3>1. Goes
      BY <2>5 DEF Refused, Delete, Crash
    <3>2. QED
      BY <1>0, <1>3, <3>1, HandlerMoves
  <2>6. QED
    BY <1>3, <2>1, <2>2, <2>3, <2>4, <2>5 DEF WorkerStep
<1>4. ASSUME NEW w \in Workers, NEW b \in Bookings, Receive(w, b)
      PROVE  SoundWorker(v)'
  <2>1. worker'[w].at = "read" /\ worker'[w].booking = b
        /\ (v # w => worker'[v] = worker[v])
    BY <1>0, <1>4 DEF Receive, Polling
  <2>2. QED
    BY <1>1, <2>1 DEF SoundWorker, Numbered
<1>5. CASE Crash(v)
  BY <1>0, <1>1, <1>5 DEF Crash
<1>6. QED
  <2>1. CASE \E w \in Workers : WorkerStep(w) \/ Crash(w)
    BY <1>1, <1>2, <1>3, <1>5, <2>1
  <2>2. CASE worker' = worker
    BY <1>1, <2>2
  <2>3. QED
    BY <1>4, <2>1, <2>2
    DEF Next, vars, PassStep, QueueStep, FindUnsynced, FindActive, WriteStatus,
        EndPass, Resend, FetchBooking, AbandonPass, FrontDesk, SellAddon,
        DeadLetter, Expire

LEMMA SoundPassStep ==
    ASSUME Inv, [Next]_vars, NEW q \in Passes
    PROVE  SoundPass(q)'
<1>0. /\ pass \in [Passes -> Pass]
      /\ SoundPass(q)
      /\ Nightly \subseteq Bookings
  BY DEF Inv, TypeOK, Bookings
\* What a pass knows of a reservation stays true.
<1>1. ASSUME pass'[q] = pass[q]
      PROVE  SoundPass(q)'
  <2>1. \A n \in ReservationNos, b \in Nightly :
            Real(n, b) => pms'[n].status # "none" /\ pms'[n].booking = b
    BY <1>0, Onward DEF Real
  <2>2. pass[q].at = "write" => Reached(pass[q].booking, pass[q].found)'
    <3>1. ASSUME pass[q].at = "write", NEW b, NEW status,
                 b = pass[q].booking, status = pass[q].found
          PROVE  Reached(b, status)'
      <4>1. b \in Bookings /\ status \in Statuses /\ Reached(b, status)
        BY <1>0, <3>1 DEF SoundPass, Pass
      <4>2. QED
        BY <4>1, Onward
    <3>2. QED
      BY <1>1, <3>1 DEF Reached
  <2>3. pass[q].todo \subseteq Nightly
    BY <1>0 DEF Pass
  <2>4. QED
    BY <1>0, <1>1, <2>1, <2>2, <2>3 DEF SoundPass, Real, Reached
<1>2. ASSUME PassStep(q) \/ AbandonPass(q)
      PROVE  SoundPass(q)'
  <2>0. pms' = pms
    BY <1>2 DEF PassStep, AbandonPass, FindUnsynced, FindActive, WriteStatus,
        EndPass, Resend, FetchBooking
  <2>1. CASE FindUnsynced(q) \/ EndPass(q) \/ AbandonPass(q)
    <3>1. pass'[q].at \in {"send", "idle"}
      BY <1>0, <2>1 DEF FindUnsynced, EndPass, AbandonPass, Resting, Pass
    <3>2. QED
      BY <3>1 DEF SoundPass
  <2>2. CASE FindActive(q)
    <3>1. /\ pass'[q].at = "check"
          /\ \A b \in pass'[q].todo : /\ b \in Nightly /\ row[b].no # NoReservation
                                      /\ pass'[q].saw[b] = row[b]
      BY <1>0, <2>2 DEF FindActive, Pass
    <3>2. \A b \in Nightly : row[b].no # NoReservation =>
              row[b].no \in ReservationNos /\ Real(row[b].no, b)
      BY <1>0 DEF Inv, TypeOK, BookingRow, NumbersAreReal
    <3>3. QED
      BY <2>0, <3>1, <3>2 DEF SoundPass, Real
  <2>3. ASSUME NEW b \in Nightly, Resend(q, b)
        PROVE  SoundPass(q)'
    <3>1. pass'[q].at = "send"
      BY <1>0, <2>3 DEF Resend, Pass
    <3>2. QED
      BY <3>1 DEF SoundPass
  <2>4. ASSUME NEW b \in Nightly, FetchBooking(q, b)
        PROVE  SoundPass(q)'
    <3> DEFINE n == pass[q].saw[b].no
    <3>1. /\ pass[q].at = "check" /\ b \in pass[q].todo
          /\ \A d \in pass[q].todo : pass[q].saw[d].no \in ReservationNos
                                     /\ Real(pass[q].saw[d].no, d)
      BY <1>0, <2>4 DEF FetchBooking, SoundPass
    <3>2. /\ pass'[q].todo \subseteq pass[q].todo /\ pass'[q].saw = pass[q].saw
          /\ \/ pass'[q].at = "check"
             \/ /\ pass'[q].at = "write" /\ pass'[q].booking = b
                /\ pass'[q].found = pms[n].status /\ pms[n].status \in Statuses
      BY <1>0, <2>4 DEF FetchBooking, Pass
    <3>3. pms[n].status \in Statuses =>
              \E m \in ReservationNos :
                  pms'[m].booking = b /\ pms[n].status \in Behind(pms'[m].status)
      BY <2>0, <3>1 DEF Real, Behind, Statuses, Ended
    <3>4. QED
      BY <2>0, <2>4, <3>1, <3>2, <3>3 DEF SoundPass, Real, Reached
  <2>5. CASE WriteStatus(q)
    <3>1. pass'[q].at = "check" /\ pass'[q].todo = pass[q].todo
          /\ pass'[q].saw = pass[q].saw /\ pass[q].at = "write"
      BY <1>0, <2>5 DEF WriteStatus, Pass
    <3>2. QED
      BY <1>0, <2>0, <3>1 DEF SoundPass, Real
  <2>6. QED
    BY <1>2, <2>1, <2>2, <2>3, <2>4, <2>5 DEF PassStep
<1>3. ASSUME NEW p \in Passes, PassStep(p) \/ AbandonPass(p), p # q
      PROVE  pass'[q] = pass[q]
  BY <1>0, <1>3
  DEF PassStep, AbandonPass, FindUnsynced, FindActive, WriteStatus, EndPass,
      Resend, FetchBooking
<1>4. QED
  <2>1. CASE \E p \in Passes : PassStep(p) \/ AbandonPass(p)
    BY <1>1, <1>2, <1>3, <2>1
  <2>2. CASE pass' = pass
    BY <1>1, <2>2
  <2>3. QED
    BY <2>1, <2>2
    DEF Next, vars, WorkerStep, QueueStep, ReadBooking, ReadBookingToCharge,
        InsertBooking, PersistNo, ProcessBooking, AddPayment, Finish,
        AddExtraCharge, Refused, Delete, Crash, FrontDesk, SellAddon, Receive,
        DeadLetter, Expire

LEMMA InvStep == Inv /\ [Next]_vars => Inv'
<1> SUFFICES ASSUME Inv, [Next]_vars PROVE Inv'
  OBVIOUS
<1>1. QED
  BY TypeStep, ReceiptsStep, NumbersStep, SoundWorkerStep, SoundPassStep DEF Inv

LEMMA Invariant == Spec => []Inv
<1>1. QED
  BY InitInv, InvStep, PTL DEF Spec
-----------------------------------------------------------------------------
(* What it is for. *)

\* Every state of worker, pass and queue is one the types describe: no status
\* that the map does not know is ever taken over from eZee.
THEOREM TypeCorrect == Spec => []TypeOK
<1>1. Inv => TypeOK
  BY DEF Inv
<1>2. QED
  BY <1>1, Invariant, PTL

\* Payments are posted only to reservations that eZee has confirmed, with any
\* number of workers, resends and slow handlers on the same booking.
THEOREM PaidAreProcessed == Spec => []PaidIsProcessed
<1>1. Init => PaidIsProcessed
  BY DEF Init, PaidIsProcessed
<1>2. Inv /\ PaidIsProcessed /\ [Next]_vars => PaidIsProcessed'
  <2> SUFFICES ASSUME Inv, PaidIsProcessed, [Next]_vars,
                      NEW n \in ReservationNos, pms'[n].paid > 0
               PROVE  pms'[n].status \in Statuses
    BY DEF PaidIsProcessed
  <2>1. /\ pms[n].paid > 0 => pms[n].status \in Statuses
        /\ pms[n].status \in Statuses => pms'[n].status \in Statuses
        /\ ReservationStep(n)
        /\ "none" \notin Statuses
    BY Onward, PmsStep DEF PaidIsProcessed, Statuses, Ended
  <2>2. ASSUME NEW w \in Workers, worker[w].at = "pay", worker[w].no = n
        PROVE  pms[n].status \in Statuses
    BY <2>2 DEF Inv, SoundWorker
  <2>3. QED
    BY <2>1, <2>2 DEF ReservationStep
<1>3. QED
  BY <1>1, <1>2, Invariant, PTL DEF Spec

\* A booking's row never says of a stay what no reservation of it has been,
\* though passes overlap and write what they read long before.
THEOREM RowsFollow == Spec => []NeverAhead
<1>1. Init => NeverAhead
  BY DEF Init, NeverAhead, NewBooking, Reached, Bookings
<1>2. Inv /\ NeverAhead /\ [Next]_vars => NeverAhead'
  <2> SUFFICES ASSUME Inv, NeverAhead, [Next]_vars, NEW b \in Nightly
               PROVE  /\ Reached(b, row[b].status)'
                      /\ ~row'[b].active => \E n \in ReservationNos :
                             pms'[n].booking = b /\ pms'[n].status \in Ended
    BY DEF NeverAhead
  <2>0. b \in Bookings /\ row \in [Bookings -> BookingRow]
    BY DEF Inv, TypeOK, Bookings
  <2>1. CASE row'[b].status = row[b].status /\ row'[b].active = row[b].active
    <3>1. ASSUME NEW status, status = row[b].status
          PROVE  Reached(b, status)'
      BY <2>0, <3>1, Onward DEF NeverAhead, BookingRow
    <3>2. Reached(b, row[b].status)'
      BY <2>1, <3>1 DEF Reached
    <3>3. QED
      BY <2>0, <2>1, <3>2, Onward DEF NeverAhead
  <2>2. ASSUME NEW p \in Passes, WriteStatus(p), pass[p].booking = b
        PROVE  /\ Reached(b, row[b].status)'
               /\ ~row'[b].active => \E n \in ReservationNos :
                      pms'[n].booking = b /\ pms'[n].status \in Ended
    <3> DEFINE found == pass[p].found
    <3>1. Reached(b, found) /\ found \in Statuses
      BY <2>2 DEF WriteStatus, Inv, TypeOK, Pass, SoundPass
    <3>2. row'[b].status = found /\ pms' = pms
          /\ (~row'[b].active => found \in Ended \/ ~row[b].active)
      BY <2>0, <2>2 DEF WriteStatus, BookingRow
    <3>3. ASSUME found \in Ended
          PROVE  \E n \in ReservationNos : pms[n].booking = b /\ pms[n].status \in Ended
      <4>1. PICK n \in ReservationNos : pms[n].booking = b /\ found \in Behind(pms[n].status)
        BY <3>1, <3>3 DEF Reached, Ended
      <4>2. pms[n].status \in Ended
        BY <3>3, <4>1 DEF Behind, Ended
      <4>3. QED
        BY <4>1, <4>2
    <3>4. QED
      BY <3>1, <3>2, <3>3 DEF NeverAhead, Reached
  <2>3. QED
    BY <2>1, <2>2, RowStep
<1>3. QED
  BY <1>1, <1>2, Invariant, PTL DEF Spec
-----------------------------------------------------------------------------
(* When no handler outlasts its receipt, the handlers of a booking exclude    *)
(* each other, and one that inserts finds that nobody has done so.            *)

Exclusive ==
    \A w \in Workers :
        /\ worker[w].at # "idle" => inFlight[worker[w].booking] = w
        /\ worker[w].at \in {"insert", "persist"} =>
              row[worker[w].booking].no = NoReservation

\* Two handlers of one booking are the same.
LEMMA OneHandler ==
    ASSUME Exclusive, NEW v \in Workers, NEW w \in Workers,
           worker[v].at # "idle", worker[w].at # "idle",
           worker[v].booking = worker[w].booking
    PROVE  v = w
BY DEF Exclusive

\* A handler that did not move keeps its receipt, and its booking's number.
LEMMA ExclusiveStays ==
    ASSUME Inv, Exclusive, ~SlowCalls, [Next]_vars, NEW v \in Workers,
           worker'[v] = worker[v], worker[v].at # "idle"
    PROVE  /\ inFlight'[worker[v].booking] = v
           /\ worker[v].at \in {"insert", "persist"} =>
                 row'[worker[v].booking].no = NoReservation
<1> DEFINE b == worker[v].booking
<1>0. /\ b \in Bookings /\ inFlight[b] = v
      /\ inFlight \in [Bookings -> Workers \cup {NoBooking}]
      /\ worker \in [Workers -> Handler] /\ NoBooking # v
  BY NoValueAssumption DEF Inv, TypeOK, SoundWorker, Exclusive
<1>1. inFlight'[b] = v
  <2>1. ASSUME NEW d \in Bookings, QueueStep(d)
        PROVE  inFlight'[b] = v
    BY <1>0, <2>1 DEF QueueStep, Receive, Visible, DeadLetter, Expire
  <2>2. ASSUME NEW w \in Workers, Delete(w)
        PROVE  inFlight'[b] = v
    <3>1. CASE w = v
      <4>1. worker'[v] = Polling /\ worker[v] # Polling
        BY <1>0, <2>2, <3>1 DEF Delete, Polling
      <4>2. QED
        BY <4>1
    <3>2. CASE w # v
      <4>1. worker[w].booking # b /\ worker[w].booking \in Bookings
        BY <2>2, <3>2, OneHandler DEF Delete, Inv, SoundWorker
      <4>2. QED
        BY <1>0, <2>2, <4>1 DEF Delete
    <3>3. QED
      BY <3>1, <3>2
  <2>3. CASE inFlight' = inFlight
    BY <1>0, <2>3
  <2>4. QED
    BY <2>1, <2>2, <2>3
    DEF Next, vars, WorkerStep, PassStep, ReadBooking, ReadBookingToCharge,
        InsertBooking, PersistNo, ProcessBooking, AddPayment, Finish,
        AddExtraCharge, Refused, Crash, FindUnsynced, FindActive, WriteStatus,
        EndPass, Resend, FetchBooking, AbandonPass, FrontDesk, SellAddon
<1>2. ASSUME worker[v].at \in {"insert", "persist"}
      PROVE  row'[b].no = NoReservation
  <2>1. row[b].no = NoReservation
    BY <1>2 DEF Exclusive
  <2>2. ASSUME NEW w \in Workers, PersistNo(w), worker[w].booking = b
        PROVE  FALSE
    <3>1. w = v
      BY <2>2, OneHandler DEF PersistNo
    <3>2. worker'[v] = Polling \/ worker'[v].at = "process"
      BY <1>0, <2>2, <3>1 DEF PersistNo, Called, GoOn, Throw, Handler
    <3>3. worker'[v].at # "persist"
      BY <3>2 DEF Polling
    <3>4. QED
      BY <2>2, <3>1, <3>3 DEF PersistNo
  <2>3. QED
    BY <1>0, <2>1, <2>2, RowStep
<1>3. QED
  BY <1>1, <1>2

LEMMA ExclusiveStep ==
    ASSUME Inv, Exclusive, ~SlowCalls, [Next]_vars
    PROVE  Exclusive'
<1> SUFFICES ASSUME NEW v \in Workers, worker'[v].at # "idle"
             PROVE  /\ inFlight'[worker'[v].booking] = v
                    /\ worker'[v].at \in {"insert", "persist"} =>
                          row'[worker'[v].booking].no = NoReservation
  BY DEF Exclusive
<1>0. worker \in [Workers -> Handler] /\ worker'[v] # Polling
  BY DEF Inv, TypeOK, Polling
<1>1. CASE worker'[v] = worker[v]
  BY <1>1, ExclusiveStays
<1>2. CASE WorkerStep(v)
  <2> DEFINE b == worker[v].booking
  <2>1. worker[v].at # "idle" /\ inFlight[b] = v /\ ~Delete(v)
    BY <1>0, <1>2
    DEF WorkerStep, ReadBooking, ReadBookingToCharge, InsertBooking, PersistNo,
        ProcessBooking, AddPayment, Finish, AddExtraCharge, Refused, Delete,
        Exclusive
  <2>2. worker'[v].booking = b /\ inFlight' = inFlight
    BY <1>0, <1>2, <2>1, HandlerMoves
    DEF WorkerStep, ReadBooking, ReadBookingToCharge, InsertBooking, PersistNo,
        ProcessBooking, AddPayment, Finish, AddExtraCharge, Refused, Called
  <2>3. CASE ReadBooking(v)
    <3>1. worker'[v].at = "insert" \/ worker'[v].at = "delete" \/ worker'[v].at = "process"
      BY <2>3, HandlerMoves DEF ReadBooking
    <3>2. worker'[v].at = "insert" => row[b].no = NoReservation
      BY <2>3, HandlerMoves DEF ReadBooking
    <3>3. QED
      BY <2>1, <2>2, <2>3, <3>1, <3>2 DEF ReadBooking
  <2>4. ASSUME NEW n \in ReservationNos, InsertBooking(v, n)
        PROVE  row'[b].no = NoReservation
    <3>1. row[b].no = NoReservation
      BY <2>4 DEF InsertBooking, Exclusive
    <3>2. row' = row
      BY <1>0, <2>4, HandlerMoves DEF InsertBooking, Called
    <3>3. QED
      BY <3>1, <3>2
  <2>5. CASE ~ReadBooking(v) /\ ~(\E n \in ReservationNos : InsertBooking(v, n))
    <3>1. worker'[v].at \in {"process", "pay", "finish", "charge", "delete"}
      BY <1>0, <1>2, <2>1, <2>5, HandlerMoves
      DEF WorkerStep, ReadBookingToCharge, PersistNo, ProcessBooking, AddPayment,
          Finish, AddExtraCharge, Refused, Called
    <3>2. QED
      BY <2>1, <2>2, <3>1
  <2>6. QED
    BY <2>1, <2>2, <2>3, <2>4, <2>5
<1>3. ASSUME NEW w \in Workers, NEW b \in Bookings, Receive(w, b), w = v
      PROVE  inFlight'[worker'[v].booking] = v /\ worker'[v].at = "read"
  BY <1>0, <1>3 DEF Receive, Polling, Inv, TypeOK
<1>4. QED
  <2>1. ASSUME NEW w \in Workers, WorkerStep(w) \/ Crash(w), w # v
        PROVE  worker'[v] = worker[v]
    BY <1>0, <2>1, HandlerMoves
    DEF WorkerStep, ReadBooking, ReadBookingToCharge, InsertBooking, PersistNo,
        ProcessBooking, AddPayment, Finish, AddExtraCharge, Called, Refused, Delete,
        Crash
  <2>2. ASSUME NEW w \in Workers, NEW b \in Bookings, Receive(w, b), w # v
        PROVE  worker'[v] = worker[v]
    BY <1>0, <2>2 DEF Receive
  <2>3. ~Crash(v)
    BY <1>0 DEF Crash
  <2>4. CASE worker' = worker
    BY <1>1, <2>4
  <2>5. CASE \E w \in Workers : WorkerStep(w) \/ Crash(w)
    BY <1>1, <1>2, <2>1, <2>3, <2>5
  <2>6. CASE \E w \in Workers, b \in Bookings : Receive(w, b)
    BY <1>1, <1>3, <2>2, <2>6
  <2>7. QED
    BY <2>4, <2>5, <2>6
    DEF Next, vars, PassStep, QueueStep, FindUnsynced, FindActive, WriteStatus,
        EndPass, Resend, FetchBooking, AbandonPass, FrontDesk, SellAddon,
        DeadLetter, Expire

\* The number of a booking in eZee, once known, never changes, and so a booking
\* is never inserted over another insertion that was recorded: this is what the
\* FIFO group and its receipts are for.
THEOREM NumberIsForEver == ~SlowCalls => (Spec => NumberStays)
<1> SUFFICES ASSUME ~SlowCalls PROVE Spec => NumberStays
  OBVIOUS
<1>1. Init => Exclusive
  BY DEF Init, Exclusive, Polling
<1>2. Inv /\ Exclusive /\ [Next]_vars => Exclusive'
  BY ExclusiveStep
<1>3. Inv /\ Exclusive /\ [Next]_vars =>
          [\A b \in Bookings : row[b].no # NoReservation => row'[b].no = row[b].no]_vars
  <2> SUFFICES ASSUME Inv, Exclusive, [Next]_vars, NEW b \in Bookings,
                      row[b].no # NoReservation
               PROVE  row'[b].no = row[b].no
    OBVIOUS
  <2>1. ASSUME NEW w \in Workers, PersistNo(w), worker[w].booking = b
        PROVE  FALSE
    BY <2>1 DEF PersistNo, Exclusive
  <2>2. QED
    BY <2>1, RowStep
<1>4. QED
  BY <1>1, <1>2, <1>3, Invariant, PTL DEF Spec, NumberStays
=============================================================================
