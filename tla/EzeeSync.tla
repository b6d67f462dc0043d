----------------------------- MODULE EzeeSync -----------------------------
(***************************************************************************)
(* Keeping the eZee property management system and our bookings in step:   *)
(* the worker of the ezee-sync FIFO queue (EzeeSyncWorker, run by          *)
(* SqsConsumerService), and the pass that runs at start-up and every 15    *)
(* minutes (EzeeReconciliationService).                                    *)
(*                                                                         *)
(* Several processes run both.  A message that is not deleted comes back,  *)
(* at most MaxReceives times; any call to eZee or to the database may      *)
(* fail, with or without its effect, and a process may stop at any await.  *)
(***************************************************************************)
EXTENDS Integers, Sequences, FiniteSets

CONSTANTS
    Nightly,          \* CONFIRMED bookings of the website, their payment captured
    Colive,           \* confirmed long-stay drafts
    Workers,          \* polling loops of the queue
    Passes,           \* reconciliation passes that can run at one time
    ReservationNos,   \* numbers eZee can give to reservations
    MaxReceives,      \* maxReceiveCount: receptions before the dead-letter queue
    SlowCalls,        \* a handler may outlast the visibility timeout
    Quantity,         \* units of the product in a paid addon order
    Price,            \* their price together: total_price
    MaxOrders,        \* bound: paid addon orders of a booking
    MaxQueue,         \* bound: messages of a booking in the queue
    MaxPaid,          \* bound: payments of a reservation that are told apart
    MaxFaults,        \* bound: calls that fail, processes that stop
    NoBooking, NoReservation

Bookings == Nightly \cup Colive

ASSUME BoundsAssumption ==
    /\ MaxReceives \in Nat /\ MaxOrders \in Nat /\ MaxQueue \in Nat
    /\ MaxPaid \in Nat /\ MaxFaults \in Nat /\ Quantity \in Nat /\ Price \in Nat
ASSUME SlowCallsAssumption == SlowCalls \in BOOLEAN
ASSUME NoValueAssumption ==
    NoReservation \notin ReservationNos /\ NoBooking \notin Workers \cup Bookings

VARIABLES
    row,        \* ezee_booking_cache and colive_draft_bookings
    queue,      \* the booking's message group
    inFlight,   \* who holds the valid receipt of the group's first message
    worker,     \* the handler each polling loop is in
    pass,       \* where each reconciliation pass is
    pms,        \* the reservations eZee has
    sold,       \* money guests paid for addons of a booking (history)
    faults

vars == <<row, queue, inFlight, worker, pass, pms, sold, faults>>
-----------------------------------------------------------------------------
\* eZee's statuses, as EZEE_STATUS_MAP names them; a reservation that was
\* never processed has one the map does not know.
Ended == {"CANCELLED", "NO_SHOW", "CHECKED_OUT"}
Statuses == {"CONFIRMED", "CHECKED_IN"} \cup Ended

\* `sync` is ezee_sync_status, which only drafts have.
BookingRow == [status : Statuses, active : BOOLEAN,
               no : ReservationNos \cup {NoReservation},
               sync : {"PENDING", "PARTIAL", "SYNCED", "FAILED"}]

NewBooking == [status |-> "CONFIRMED", active |-> TRUE, no |-> NoReservation,
               sync |-> "PENDING"]

\* Of a nightly booking INSERT_BOOKING, of a draft INSERT_COLIVE_BOOKING; and
\* ADD_EXTRA_CHARGE for addons sold.
Types == {"insert", "charge"}

Message == [type : Types, receives : Nat]

NewMessage(type) == [type |-> type, receives |-> 0]

\* The next await of a handler.
Steps == {"idle", "read", "insert", "persist", "process", "pay", "finish",
          "charge", "delete"}

Handler == [at : Steps, type : Types, booking : Bookings \cup {NoBooking},
            no : ReservationNos \cup {NoReservation}]

Polling == [at |-> "idle", type |-> "insert", booking |-> NoBooking,
            no |-> NoReservation]

\* A pass reads bookings, then goes through them one at a time.
Pass == [at : {"idle", "send", "check", "write"}, todo : SUBSET Nightly,
         saw : [Nightly -> BookingRow], booking : Nightly \cup {NoBooking},
         found : Statuses]

Resting == [at |-> "idle", todo |-> {}, saw |-> [b \in Nightly |-> NewBooking],
            booking |-> NoBooking, found |-> "CONFIRMED"]

Reservation == [booking : Bookings \cup {NoBooking},
                status : Statuses \cup {"none", "new"},
                paid : Nat, charged : Nat]

TypeOK ==
    /\ row \in [Bookings -> BookingRow]
    /\ queue \in [Bookings -> Seq(Message)]
    /\ inFlight \in [Bookings -> Workers \cup {NoBooking}]
    /\ worker \in [Workers -> Handler]
    /\ pass \in [Passes -> Pass]
    /\ pms \in [ReservationNos -> Reservation]
    /\ sold \in [Bookings -> Nat]
    /\ faults \in 0..MaxFaults

\* The payment of each booking has just been captured.  Its message was sent;
\* or lost, for the sender only logs that; or sent twice, by two calls that
\* captured the payment at once.
Init ==
    /\ row = [b \in Bookings |-> NewBooking]
    /\ queue \in [Bookings -> {<<>>, <<NewMessage("insert")>>,
                               <<NewMessage("insert"), NewMessage("insert")>>}]
    /\ inFlight = [b \in Bookings |-> NoBooking]
    /\ worker = [w \in Workers |-> Polling]
    /\ pass = [p \in Passes |-> Resting]
    /\ pms = [n \in ReservationNos |->
                [booking |-> NoBooking, status |-> "none", paid |-> 0, charged |-> 0]]
    /\ sold = [b \in Bookings |-> 0]
    /\ faults = 0
-----------------------------------------------------------------------------
(* The queue: SQS with one message group for each booking. *)

Fault == faults < MaxFaults /\ faults' = faults + 1

Send(b, type) == queue' = [queue EXCEPT ![b] = Append(@, NewMessage(type))]

\* An addon order of the booking is fulfilled; a failed send is only logged.
SellAddon(b) ==
    /\ b \in Nightly
    /\ sold[b] < MaxOrders * Price /\ Len(queue[b]) < MaxQueue
    /\ sold' = [sold EXCEPT ![b] = @ + Price]
    /\ \/ Send(b, "charge") /\ UNCHANGED faults
       \/ Fault /\ UNCHANGED queue
    /\ UNCHANGED <<row, inFlight, worker, pass, pms>>

\* Nobody holds a receipt of the group's first message.
Visible(b) == queue[b] # <<>> /\ inFlight[b] = NoBooking

\* An idle loop receives the first visible message of a group.
Receive(w, b) ==
    /\ worker[w].at = "idle"
    /\ Visible(b) /\ Head(queue[b]).receives < MaxReceives
    /\ queue' = [queue EXCEPT ![b][1].receives = @ + 1]
    /\ inFlight' = [inFlight EXCEPT ![b] = w]
    /\ worker' = [worker EXCEPT ![w] = [Polling EXCEPT !.at = "read",
                                           !.type = Head(queue[b]).type,
                                           !.booking = b]]
    /\ UNCHANGED <<row, pass, pms, sold, faults>>

\* Received too often, it goes to the dead-letter queue, which nobody reads.
DeadLetter(b) ==
    /\ Visible(b) /\ Head(queue[b]).receives >= MaxReceives
    /\ queue' = [queue EXCEPT ![b] = Tail(@)]
    /\ UNCHANGED <<row, inFlight, worker, pass, pms, sold, faults>>

\* The visibility timeout is over.
Expire(b) ==
    /\ inFlight[b] \in Workers
    /\ SlowCalls \/ worker[inFlight[b]].booking # b
    /\ inFlight' = [inFlight EXCEPT ![b] = NoBooking]
    /\ UNCHANGED <<row, queue, worker, pass, pms, sold, faults>>

\* A loop that has handled its message deletes it, if the receipt is valid.
Delete(w) ==
    LET b == worker[w].booking
    IN  /\ worker[w].at = "delete"
        /\ IF inFlight[b] = w
           THEN /\ queue' = [queue EXCEPT ![b] = Tail(@)]
                /\ inFlight' = [inFlight EXCEPT ![b] = NoBooking]
           ELSE UNCHANGED <<queue, inFlight>>
        /\ worker' = [worker EXCEPT ![w] = Polling]
        /\ UNCHANGED <<row, pass, pms, sold, faults>>

\* A process stops in the middle of a handler.
Crash(w) ==
    /\ worker[w].at # "idle"
    /\ Fault
    /\ worker' = [worker EXCEPT ![w] = Polling]
    /\ UNCHANGED <<row, queue, inFlight, pass, pms, sold>>
-----------------------------------------------------------------------------
(* The handlers.  A call either succeeds, and the handler goes on, or throws, *)
(* with or without its effect.                                                *)

GoOn(w, step, no) ==
    worker' = [worker EXCEPT ![w].at = step, ![w].no = no]

\* A throw leaves the message where it is; a draft's is recorded in its row.
Throw(w, rows) ==
    /\ worker' = [worker EXCEPT ![w] = Polling]
    /\ row' = IF worker[w].booking \in Colive
              THEN [rows EXCEPT ![worker[w].booking].sync = "FAILED"] ELSE rows

\* The call had its effect (rows are then the bookings).
Called(w, step, no, rows) ==
    \/ GoOn(w, step, no) /\ row' = rows /\ UNCHANGED faults
    \/ Fault /\ Throw(w, rows)

Refused(w) ==
    /\ worker[w].at \in {"insert", "persist", "process", "charge", "finish"}
    /\ Fault
    /\ Throw(w, row)
    /\ UNCHANGED <<queue, inFlight, pass, pms, sold>>

\* Mutant of ReadBooking: the number is not looked at.
ReadBookingAlwaysInserting(w) ==
    /\ worker[w].at = "read" /\ worker[w].type = "insert"
    /\ GoOn(w, "insert", NoReservation)
    /\ UNCHANGED <<row, queue, inFlight, pass, pms, sold, faults>>

\* A handler of an insert message: what has a number is not inserted again,
\* and a draft that has one is left alone.
ReadBooking(w) ==
    LET b == worker[w].booking
        no == row[b].no
    IN  /\ worker[w].at = "read" /\ worker[w].type = "insert"
        /\ GoOn(w, IF no = NoReservation THEN "insert"
                   ELSE IF b \in Colive THEN "delete" ELSE "process", no)
        /\ UNCHANGED <<row, queue, inFlight, pass, pms, sold, faults>>

\* eZee makes a reservation and answers with its number.
InsertBooking(w, n) ==
    /\ worker[w].at = "insert"
    /\ pms[n].status = "none"
    /\ pms' = [pms EXCEPT ![n].booking = worker[w].booking, ![n].status = "new"]
    /\ Called(w, "persist", n, row)
    /\ UNCHANGED <<queue, inFlight, pass, sold>>

PersistNo(w) ==
    LET b == worker[w].booking
        no == worker[w].no
    IN  /\ worker[w].at = "persist"
        /\ Called(w, "process", no,
                  [row EXCEPT ![b].no = no,
                              ![b].sync = IF b \in Colive THEN "PARTIAL" ELSE @])
        /\ UNCHANGED <<queue, inFlight, pass, pms, sold>>

\* Mutant of ProcessBooking: payment does not wait for it.
ProcessBookingUnasked(w) ==
    /\ worker[w].at = "process"
    /\ Called(w, "pay", worker[w].no, row)
    /\ UNCHANGED <<queue, inFlight, pass, pms, sold>>

\* eZee confirms the reservation; one it confirmed before it may refuse.
ProcessBooking(w) ==
    LET no == worker[w].no
    IN  /\ worker[w].at = "process"
        /\ IF pms[no].status = "new"
           THEN /\ pms' = [pms EXCEPT ![no].status = "CONFIRMED"]
                /\ Called(w, "pay", no, row)
           ELSE /\ \/ GoOn(w, "pay", no) /\ UNCHANGED row
                   \/ Throw(w, row)
                /\ UNCHANGED <<pms, faults>>
        /\ UNCHANGED <<queue, inFlight, pass, sold>>

\* The payment is posted to the reservation; a failure is only logged.
AddPayment(w) ==
    LET no == worker[w].no
    IN  /\ worker[w].at = "pay"
        /\ \/ /\ pms' = [pms EXCEPT ![no].paid = IF @ < MaxPaid THEN @ + 1 ELSE @]
              /\ UNCHANGED faults
           \/ Fault /\ UNCHANGED pms
        /\ GoOn(w, "finish", no)
        /\ UNCHANGED <<row, queue, inFlight, pass, sold>>

\* The sync log, the cache and a draft's status are written last.
Finish(w) ==
    LET b == worker[w].booking
    IN  /\ worker[w].at = "finish"
        /\ Called(w, "delete", worker[w].no,
                  [row EXCEPT ![b].sync = IF b \in Colive THEN "SYNCED" ELSE @])
        /\ UNCHANGED <<queue, inFlight, pass, pms, sold>>

\* A handler of a charge needs the booking's number, or throws.
ReadBookingToCharge(w) ==
    LET no == row[worker[w].booking].no
    IN  /\ worker[w].at = "read" /\ worker[w].type = "charge"
        /\ IF no = NoReservation THEN Throw(w, row)
                                 ELSE GoOn(w, "charge", no) /\ UNCHANGED row
        /\ UNCHANGED <<queue, inFlight, pass, pms, sold, faults>>

\* What an item is charged: its amount, which is its total price already, for
\* each of its units.
ChargeOf(amount, quantity) == amount * quantity

AddExtraCharge(w) ==
    LET no == worker[w].no
    IN  /\ worker[w].at = "charge"
        /\ pms' = [pms EXCEPT ![no].charged = @ + ChargeOf(Price, Quantity)]
        /\ Called(w, "delete", no, row)
        /\ UNCHANGED <<queue, inFlight, pass, sold>>
-----------------------------------------------------------------------------
(* Reconciliation. *)

\* Mutant of FindUnsynced: the test for a number is the wrong way round.
FindUnsyncedNumbered(p) ==
    /\ pass[p].at = "idle"
    /\ pass' = [pass EXCEPT ![p].at = "send",
                   ![p].todo = {b \in Nightly : row[b].no # NoReservation}]
    /\ UNCHANGED <<row, queue, inFlight, worker, pms, sold, faults>>

\* First the bookings that eZee does not know yet are read,
FindUnsynced(p) ==
    /\ pass[p].at = "idle"
    /\ pass' = [pass EXCEPT ![p].at = "send",
                   ![p].todo = {b \in Nightly : /\ row[b].status = "CONFIRMED"
                                                /\ row[b].active
                                                /\ row[b].no = NoReservation}]
    /\ UNCHANGED <<row, queue, inFlight, worker, pms, sold, faults>>

\* and queued, one by one, whatever the queue holds of them already.
Resend(p, b) ==
    /\ pass[p].at = "send" /\ b \in pass[p].todo
    /\ pass' = [pass EXCEPT ![p].todo = @ \ {b}]
    /\ \/ Len(queue[b]) < MaxQueue /\ Send(b, "insert") /\ UNCHANGED faults
       \/ Len(queue[b]) >= MaxQueue /\ UNCHANGED <<queue, faults>>
       \/ Fault /\ UNCHANGED queue
    /\ UNCHANGED <<row, inFlight, worker, pms, sold>>

\* Then the bookings under way are read,
FindActive(p) ==
    /\ pass[p].at = "send" /\ pass[p].todo = {}
    /\ LET todo == {b \in Nightly : /\ row[b].status \in {"CONFIRMED", "CHECKED_IN"}
                                    /\ row[b].active
                                    /\ row[b].no # NoReservation}
       IN  pass' = [pass EXCEPT ![p].at = "check", ![p].todo = todo,
                       ![p].saw = [b \in Nightly |->
                                     IF b \in todo THEN row[b] ELSE NewBooking]]
    /\ UNCHANGED <<row, queue, inFlight, worker, pms, sold, faults>>

\* Mutant of FetchBooking: a status without a counterpart is not left alone.
FetchBookingUnmapped(p, b) ==
    LET status == pms[pass[p].saw[b].no].status
    IN  /\ pass[p].at = "check" /\ b \in pass[p].todo
        /\ status # pass[p].saw[b].status
        /\ pass' = [pass EXCEPT ![p].at = "write", ![p].booking = b,
                                ![p].found = status, ![p].todo = @ \ {b}]
        /\ UNCHANGED <<row, queue, inFlight, worker, pms, sold, faults>>

\* eZee is asked for the reservation of one of them.  A failure, and a status
\* that has no counterpart, leave it as it is.
FetchBooking(p, b) ==
    LET status == pms[pass[p].saw[b].no].status
    IN  /\ pass[p].at = "check" /\ b \in pass[p].todo
        /\ \/ /\ status \in Statuses \ {pass[p].saw[b].status}
              /\ pass' = [pass EXCEPT ![p].at = "write", ![p].booking = b,
                             ![p].found = status, ![p].todo = @ \ {b}]
              /\ UNCHANGED faults
           \/ /\ status \notin Statuses \ {pass[p].saw[b].status}
              /\ pass' = [pass EXCEPT ![p].todo = @ \ {b}]
              /\ UNCHANGED faults
           \/ /\ Fault
              /\ pass' = [pass EXCEPT ![p].todo = @ \ {b}]
        /\ UNCHANGED <<row, queue, inFlight, worker, pms, sold>>

\* Mutant of WriteStatus: what has not ended is also taken out of the lists.
WriteStatusInactive(p) ==
    /\ pass[p].at = "write"
    /\ row' = [row EXCEPT ![pass[p].booking].status = pass[p].found,
                          ![pass[p].booking].active = FALSE]
    /\ pass' = [pass EXCEPT ![p].at = "check", ![p].booking = NoBooking,
                            ![p].found = "CONFIRMED"]
    /\ UNCHANGED <<queue, inFlight, worker, pms, sold, faults>>

\* What eZee said is written, whatever has been written since.
WriteStatus(p) ==
    LET b == pass[p].booking
        found == pass[p].found
    IN  /\ pass[p].at = "write"
        /\ row' = [row EXCEPT ![b].status = found,
                              ![b].active = IF found \in Ended THEN FALSE ELSE @]
        /\ pass' = [pass EXCEPT ![p].at = "check", ![p].booking = NoBooking,
                                ![p].found = "CONFIRMED"]
        /\ UNCHANGED <<queue, inFlight, worker, pms, sold, faults>>

EndPass(p) ==
    /\ pass[p].at = "check" /\ pass[p].todo = {}
    /\ pass' = [pass EXCEPT ![p] = Resting]
    /\ UNCHANGED <<row, queue, inFlight, worker, pms, sold, faults>>

\* A query fails or the process stops: the pass is over.
AbandonPass(p) ==
    /\ pass[p].at # "idle"
    /\ Fault
    /\ pass' = [pass EXCEPT ![p] = Resting]
    /\ UNCHANGED <<row, queue, inFlight, worker, pms, sold>>

\* External: guests come and go, staff cancel.
FrontDesk(n) ==
    /\ \/ /\ pms[n].status = "CONFIRMED"
          /\ \E to \in {"CHECKED_IN", "CANCELLED", "NO_SHOW"} :
                pms' = [pms EXCEPT ![n].status = to]
       \/ /\ pms[n].status = "CHECKED_IN"
          /\ pms' = [pms EXCEPT ![n].status = "CHECKED_OUT"]
    /\ UNCHANGED <<row, queue, inFlight, worker, pass, sold, faults>>
-----------------------------------------------------------------------------
WorkerStep(w) ==
    \/ ReadBooking(w) \/ ReadBookingToCharge(w)
    \/ \E n \in ReservationNos : InsertBooking(w, n)
    \/ PersistNo(w) \/ ProcessBooking(w) \/ AddPayment(w) \/ Finish(w)
    \/ AddExtraCharge(w) \/ Refused(w) \/ Delete(w)

PassStep(p) ==
    \/ FindUnsynced(p) \/ FindActive(p) \/ WriteStatus(p) \/ EndPass(p)
    \/ \E b \in Nightly : Resend(p, b) \/ FetchBooking(p, b)

QueueStep(b) == (\E w \in Workers : Receive(w, b)) \/ DeadLetter(b) \/ Expire(b)

Next ==
    \/ \E w \in Workers : WorkerStep(w) \/ Crash(w)
    \/ \E p \in Passes : PassStep(p) \/ AbandonPass(p)
    \/ \E b \in Bookings : QueueStep(b) \/ SellAddon(b)
    \/ \E n \in ReservationNos : FrontDesk(n)

Spec == Init /\ [][Next]_vars

\* Handlers run to their end, passes go on for ever, SQS delivers from every
\* group and ends every visibility timeout; nothing makes guests come.
Fairness ==
    /\ \A w \in Workers : WF_vars(WorkerStep(w))
    /\ \A p \in Passes : WF_vars(PassStep(p))
    /\ \A b \in Bookings :
          /\ SF_vars(\E w \in Workers : Receive(w, b))
          /\ WF_vars(DeadLetter(b) \/ Expire(b))

FairSpec == Spec /\ Fairness
-----------------------------------------------------------------------------
(* Safety. *)

\* A payment is only ever posted to a reservation that eZee has confirmed,
\* however retries, resends and slow handlers overlap.
PaidIsProcessed ==
    \A n \in ReservationNos : pms[n].paid > 0 => pms[n].status \in Statuses

\* The stages a reservation goes through, each with those it has then behind it.
Behind(status) ==
    CASE status = "CHECKED_OUT" -> {"CONFIRMED", "CHECKED_IN", "CHECKED_OUT"}
      [] status = "CHECKED_IN" -> {"CONFIRMED", "CHECKED_IN"}
      [] OTHER -> {"CONFIRMED", status}

\* A reservation of the booking has been what the status says.
Reached(b, status) ==
    \/ status = "CONFIRMED"
    \/ \E n \in ReservationNos :
          pms[n].booking = b /\ status \in Behind(pms[n].status)

\* eZee is the source of truth: what our row says of a stay, a reservation of
\* that booking has been, and a booking is out of the lists only when one ended.
NeverAhead ==
    \A b \in Nightly :
        /\ Reached(b, row[b].status)
        /\ ~row[b].active =>
              \E n \in ReservationNos : pms[n].booking = b /\ pms[n].status \in Ended

\* While no handler outlasts its receipt, the number of a booking never changes:
\* two handlers never insert the same booking, whatever is queued twice.
NumberStays ==
    [][\A b \in Bookings : row[b].no # NoReservation => row'[b].no = row[b].no]_vars

\* Liveness: with calls failing and processes stopping only so often, every
\* nightly booking is in eZee in the end, even when its message was lost.
EventuallySynced == \A b \in Nightly : <>(row[b].no # NoReservation)
=============================================================================
