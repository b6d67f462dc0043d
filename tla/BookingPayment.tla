--------------------------- MODULE BookingPayment ---------------------------
(***************************************************************************)
(* Buying a stay: the booking order, its Razorpay payments and the stock   *)
(* its addons hold (PaymentService and GuestBookingService).               *)
(*                                                                         *)
(* Several requests run at once: the browser's verify call, Razorpay's     *)
(* webhooks (repeated, late, out of order) and the browser's fail call.    *)
(* Every await is a point where another request may run, so each request   *)
(* is a little process that remembers what it has read.  A database        *)
(* transaction is one step, except that rollbackPendingBooking reads the   *)
(* addon order before it holds any row lock: that read is a step too.      *)
(***************************************************************************)
EXTENDS Stock, FiniteSets

CONSTANTS
    Bookings,       \* reservation ids the site can generate (ERIs)
    Payments,       \* rows of `payments` with purpose 'booking'
    Requests,       \* requests the instances can be serving at one time
    Products,       \* COMMODITY products of the property
    Baskets,        \* addon quantities a guest may order with a stay
    InitialStock,   \* units of each product when the model starts
    MaxCrashes,     \* bound: requests that die half way
    Submitting,     \* bound: bookings whose guests may submit a KYC form
    NoBooking, NoPayment   \* "no such row"

ASSUME BookingsAssumption == IsFiniteSet(Bookings)
ASSUME BasketsAssumption == Baskets \subseteq [Products -> Nat]
ASSUME InitialStockAssumption == InitialStock \in [Products -> Nat]
ASSUME MaxCrashesAssumption == MaxCrashes \in Nat
ASSUME SubmittingAssumption == Submitting \subseteq Bookings
ASSUME NullAssumption == NoBooking \notin Bookings /\ NoPayment \notin Payments

VARIABLES
    stock,       \* inventory: product -> row
    booking,     \* ezee_booking_cache, with slots and guest access
    order,       \* the addon order created together with each booking
    payment,     \* payments
    paid,        \* Razorpay's side: payments whose money was captured
    request,     \* what each running request is about to do
    insertQueue, \* bookings with an INSERT_BOOKING message sent to SQS
    crashes      \* how many requests have died so far

vars == <<stock, booking, order, payment, paid, request, insertQueue, crashes>>

-----------------------------------------------------------------------------

Nothing == [product \in Products |-> 0]

NoOrder == [status |-> "none", qty |-> Nothing]

\* A booking row exists unless its status is "none"; `access` says that the
\* booking's slots and the guest's APPROVED access rows exist, `kyc` that a
\* KYC form was submitted for one of the slots.  deleteSlot may take a submission
\* away at any time: whether it is still there is left open.
BookingRow == [status : {"none", "PENDING_PAYMENT", "CONFIRMED", "CANCELLED"},
               active : BOOLEAN, access : BOOLEAN, kyc : BOOLEAN]

NoBookingRow ==
    [status |-> "none", active |-> FALSE, access |-> FALSE, kyc |-> FALSE]

\* What createBookingOrder creates and rollbackPendingBooking leaves.
Reserved == [NoBookingRow EXCEPT !.status = "PENDING_PAYMENT",
                                 !.active = TRUE, !.access = TRUE]
Cancelled == [NoBookingRow EXCEPT !.status = "CANCELLED"]

Order == [status : {"none", "PENDING", "PAID"}, qty : [Products -> Nat]]

\* `recorded`: the row has Razorpay's payment id, which nothing takes away.
PaymentRow == [status : {"none", "CREATED", "CAPTURED", "FAILED"},
               booking : Bookings \cup {NoBooking}, recorded : BOOLEAN]

\* The next await of a request: "fulfil..." and "capture_only", "send" belong
\* to verify and the capture webhooks, the others to payment failure.
Steps == {"idle", "fulfil_booking", "capture_only", "fulfil_tx", "send",
          "mark_failed", "rollback_booking", "rollback_find", "rollback_tx"}

\* `payment` is the row the request works for, `saw` the addon order that
\* rollbackPendingBooking found.
Request == [at : Steps, payment : Payments \cup {NoPayment}, saw : Order]

Idle == [at |-> "idle", payment |-> NoPayment, saw |-> NoOrder]

\* The booking that request r's payment pays for.
BookingOf(r) == payment[request[r].payment].booking

\* Request r goes on to its next await, or is answered.
GoTo(r, step) == request' = [request EXCEPT ![r].at = step]
Answer(r) == request' = [request EXCEPT ![r] = Idle]

\* The units of a whole basket change place.
MoveAll(from, to, qty) ==
    [product \in Products |-> Move(stock[product], from, to, qty[product])]

\* Mutant of LegalStock: the migration that adds the CHECKs was never run.
LegalStockUnchecked(s) == TRUE

\* The CHECK constraints hold of every inventory row.
LegalStock(s) == \A product \in Products : Legal(s[product])

TypeOK ==
    /\ stock \in [Products -> Row]
    /\ booking \in [Bookings -> BookingRow]
    /\ order \in [Bookings -> Order]
    /\ payment \in [Payments -> PaymentRow]
    /\ paid \subseteq Payments
    /\ request \in [Requests -> Request]
    /\ insertQueue \subseteq Bookings
    /\ crashes \in 0..MaxCrashes

Init ==
    /\ stock = [product \in Products |-> NewRow(InitialStock[product])]
    /\ booking = [b \in Bookings |-> NoBookingRow]
    /\ order = [b \in Bookings |-> NoOrder]
    /\ payment = [p \in Payments |->
                    [status |-> "none", booking |-> NoBooking,
                     recorded |-> FALSE]]
    /\ paid = {}
    /\ request = [r \in Requests |-> Idle]
    /\ insertQueue = {}
    /\ crashes = 0
-----------------------------------------------------------------------------
(* The guest places the order and opens the checkout. *)

\* Mutant of CreateBookingOrder: the id of a cancelled booking is used again.
CreateBookingOrderReusing(b, addons) ==
    /\ booking[b].status \in {"none", "CANCELLED"}
    /\ \A product \in Products :
           addons.qty[product] <= stock[product]["available"]
    /\ stock' = MoveAll("available", "reserved", addons.qty)
    /\ booking' = [booking EXCEPT ![b] = Reserved]
    /\ order' = [order EXCEPT ![b] = addons]
    /\ UNCHANGED <<payment, paid, request, insertQueue, crashes>>

\* createBookingOrder: one transaction locks the inventory rows, reserves the
\* addons and creates the booking, its access, its addon order and its slots.
\* A shortage aborts all of it.
CreateBookingOrder(b, addons) ==
    /\ booking[b].status = "none"
    /\ \A product \in Products :
           addons.qty[product] <= stock[product]["available"]
    /\ stock' = MoveAll("available", "reserved", addons.qty)
    /\ booking' = [booking EXCEPT ![b] = Reserved]
    /\ order' = [order EXCEPT ![b] = addons]
    /\ UNCHANGED <<payment, paid, request, insertQueue, crashes>>

\* What a guest may order with a stay: nothing, or a basket.
AddonChoices == {NoOrder} \cup [status : {"PENDING"}, qty : Baskets]

\* Mutant of CreateBookingPayment: the row keeps the column's default status.
CreateBookingPaymentByDefault(p, b) ==
    /\ booking[b].status # "none"
    /\ payment[p].status = "none"
    /\ payment' = [payment EXCEPT ![p].status = "PENDING", ![p].booking = b]
    /\ UNCHANGED <<stock, booking, order, paid, request, insertQueue, crashes>>

\* createBookingPayment: a Razorpay order and its row.  Nothing is asked of
\* the booking's status or of other payments for it.
CreateBookingPayment(p, b) ==
    /\ booking[b].status # "none"
    /\ payment[p].status = "none"
    /\ payment' = [payment EXCEPT ![p].status = "CREATED", ![p].booking = b]
    /\ UNCHANGED <<stock, booking, order, paid, request, insertQueue, crashes>>

\* submitKyc, whose insert a missing slot refuses: it asks for access to the
\* booking, not for its payment.
SubmitKyc(b) ==
    /\ b \in Submitting
    /\ booking[b].access
    /\ booking' = [booking EXCEPT ![b].kyc = TRUE]
    /\ UNCHANGED <<stock, order, payment, paid, request, insertQueue, crashes>>

\* Razorpay captures the guest's money.  Its order stays payable after a
\* failed attempt, whatever our row says.
GatewayCapture(p) ==
    /\ payment[p].status # "none"
    /\ p \notin paid
    /\ paid' = paid \cup {p}
    /\ UNCHANGED <<stock, booking, order, payment, request, insertQueue,
                   crashes>>
-----------------------------------------------------------------------------
(* verifyPayment, and the payment.captured and order.paid webhooks. *)

\* Mutants of StartFulfil: the signature is not verified; a payment that was
\* marked FAILED is not fulfilled any more.
StartFulfilUnverified(r, p) ==
    /\ request[r].at = "idle"
    /\ payment[p].status \notin {"none", "CAPTURED"}
    /\ request' = [request EXCEPT ![r] = [at |-> "fulfil_booking",
                                          payment |-> p, saw |-> NoOrder]]
    /\ UNCHANGED <<stock, booking, order, payment, paid, insertQueue, crashes>>

StartFulfilUnlessFailed(r, p) ==
    /\ request[r].at = "idle"
    /\ p \in paid
    /\ payment[p].status = "CREATED"
    /\ request' = [request EXCEPT ![r] = [at |-> "fulfil_booking",
                                          payment |-> p, saw |-> NoOrder]]
    /\ UNCHANGED <<stock, booking, order, payment, paid, insertQueue, crashes>>

\* Both find the payment, return if it is CAPTURED, and call fulfilOrder,
\* which reads and tests it again: the second read is the one that counts.
StartFulfil(r, p) ==
    /\ request[r].at = "idle"
    /\ p \in paid
    /\ payment[p].status # "CAPTURED"
    /\ request' = [request EXCEPT ![r] = [at |-> "fulfil_booking",
                                          payment |-> p, saw |-> NoOrder]]
    /\ UNCHANGED <<stock, booking, order, payment, paid, insertQueue, crashes>>

\* Mutant of ReadBookingToFulfil: eZee is told before the transaction.
ReadBookingToFulfilSendingFirst(r) ==
    /\ request[r].at = "fulfil_booking"
    /\ GoTo(r, IF booking[BookingOf(r)].status = "CONFIRMED"
               THEN "capture_only" ELSE "send")
    /\ UNCHANGED <<stock, booking, order, payment, paid, insertQueue, crashes>>

\* fulfilBookingOrder reads the booking: a CONFIRMED one needs no more than
\* its payment marked.
ReadBookingToFulfil(r) ==
    /\ request[r].at = "fulfil_booking"
    /\ GoTo(r, IF booking[BookingOf(r)].status = "CONFIRMED"
               THEN "capture_only" ELSE "fulfil_tx")
    /\ UNCHANGED <<stock, booking, order, payment, paid, insertQueue, crashes>>

\* The payment is marked with the id of what Razorpay captured.
Captured(p) == [payment EXCEPT ![p].status = "CAPTURED", ![p].recorded = TRUE]

CaptureOnly(r) ==
    /\ request[r].at = "capture_only"
    /\ payment' = Captured(request[r].payment)
    /\ Answer(r)
    /\ UNCHANGED <<stock, booking, order, paid, insertQueue, crashes>>

\* The stock after the booking's pending addons are sold, if it has any.
SoldStock(b) ==
    IF order[b].status = "PENDING"
    THEN MoveAll("reserved", "sold", order[b].qty) ELSE stock

\* The transaction of fulfilBookingOrder.  Its first statement locks the
\* booking row, which every other writer of the booking's order must lock
\* before it commits.  It does not look at the booking's status again, and
\* leaves is_active and the access rows as they are.
FulfilTx(r) ==
    LET b == BookingOf(r)
    IN  /\ request[r].at = "fulfil_tx"
        /\ LegalStock(SoldStock(b))
        /\ stock' = SoldStock(b)
        /\ booking' = [booking EXCEPT ![b].status = "CONFIRMED"]
        /\ order' = [order EXCEPT ![b].status =
                        IF @ = "PENDING" THEN "PAID" ELSE @]
        /\ payment' = Captured(request[r].payment)
        /\ GoTo(r, "send")
        /\ UNCHANGED <<paid, insertQueue, crashes>>

\* A CHECK constraint refuses the update: the transaction rolls back and the
\* request fails.
FulfilAbort(r) ==
    /\ request[r].at = "fulfil_tx"
    /\ ~LegalStock(SoldStock(BookingOf(r)))
    /\ Answer(r)
    /\ UNCHANGED <<stock, booking, order, payment, paid, insertQueue, crashes>>

\* sendEzeeInsertBooking, last of the messages after the commit.  A send
\* that fails is logged and forgotten.
SendInsertBooking(r) ==
    /\ request[r].at = "send"
    /\ \/ insertQueue' = insertQueue \cup {BookingOf(r)}
       \/ insertQueue' = insertQueue
    /\ Answer(r)
    /\ UNCHANGED <<stock, booking, order, payment, paid, crashes>>
-----------------------------------------------------------------------------
(* handlePaymentFailure: the payment.failed webhook and POST /payment/fail. *)

\* The row is read once; there must be one, and FAILED and CAPTURED end the
\* call.
StartFailure(r, p) ==
    /\ request[r].at = "idle"
    /\ payment[p].status \notin {"none", "CAPTURED", "FAILED"}
    /\ request' = [request EXCEPT ![r] = [at |-> "mark_failed",
                                          payment |-> p, saw |-> NoOrder]]
    /\ UNCHANGED <<stock, booking, order, payment, paid, insertQueue, crashes>>

\* Mutant of MarkFailed: the booking is not rolled back.
MarkFailedOnly(r) ==
    /\ request[r].at = "mark_failed"
    /\ payment' = [payment EXCEPT ![request[r].payment].status = "FAILED"]
    /\ Answer(r)
    /\ UNCHANGED <<stock, booking, order, paid, insertQueue, crashes>>

\* The update names the row by id only.
MarkFailed(r) ==
    /\ request[r].at = "mark_failed"
    /\ payment' = [payment EXCEPT ![request[r].payment].status = "FAILED"]
    /\ GoTo(r, "rollback_booking")
    /\ UNCHANGED <<stock, booking, order, paid, insertQueue, crashes>>

\* rollbackPendingBooking reads the booking and returns unless it is pending.
ReadBookingToRollback(r) ==
    /\ request[r].at = "rollback_booking"
    /\ IF booking[BookingOf(r)].status = "PENDING_PAYMENT"
       THEN GoTo(r, "rollback_find") ELSE Answer(r)
    /\ UNCHANGED <<stock, booking, order, payment, paid, insertQueue, crashes>>

\* First statement of its transaction: find the PENDING addon order.
FindPendingOrder(r) ==
    LET b == BookingOf(r)
    IN  /\ request[r].at = "rollback_find"
        /\ request' = [request EXCEPT
                        ![r].at = "rollback_tx",
                        ![r].saw = IF order[b].status = "PENDING"
                                   THEN order[b] ELSE NoOrder]
        /\ UNCHANGED <<stock, booking, order, payment, paid, insertQueue,
                       crashes>>

\* Mutant of ReleasedStock: the order is deleted, its units stay reserved.
ReleasedStockForgotten(r) == stock

\* The stock after the order that request r found is released.
ReleasedStock(r) ==
    IF request[r].saw.status = "PENDING"
    THEN MoveAll("reserved", "available", request[r].saw.qty) ELSE stock

\* The deletion of an order row that is gone fails, and so does an illegal
\* release: either aborts the transaction.
RollbackPossible(r) ==
    /\ LegalStock(ReleasedStock(r))
    /\ request[r].saw.status = "PENDING" => order[BookingOf(r)].status # "none"

\* Mutant of RollbackTx: slots and access rows are left behind.
RollbackTxKeepingAccess(r) ==
    LET b == BookingOf(r)
    IN  /\ request[r].at = "rollback_tx"
        /\ RollbackPossible(r)
        /\ stock' = ReleasedStock(r)
        /\ order' = IF request[r].saw.status = "PENDING"
                    THEN [order EXCEPT ![b] = NoOrder] ELSE order
        /\ booking' = [booking EXCEPT ![b].status = "CANCELLED",
                                      ![b].active = FALSE]
        /\ Answer(r)
        /\ UNCHANGED <<payment, paid, insertQueue, crashes>>

\* The writes of the transaction: release and delete the order it found,
\* delete slots and access, cancel the booking.
RollbackTx(r) ==
    LET b == BookingOf(r)
    IN  /\ request[r].at = "rollback_tx"
        /\ RollbackPossible(r)
        /\ stock' = ReleasedStock(r)
        /\ order' = IF request[r].saw.status = "PENDING"
                    THEN [order EXCEPT ![b] = NoOrder] ELSE order
        /\ booking' = [booking EXCEPT ![b] = Cancelled]
        /\ Answer(r)
        /\ UNCHANGED <<payment, paid, insertQueue, crashes>>

\* The transaction also aborts when kyc_submissions still refers to a slot that
\* it deletes: the foreign key is NoAction.
RollbackAbort(r) ==
    /\ request[r].at = "rollback_tx"
    /\ ~RollbackPossible(r) \/ booking[BookingOf(r)].kyc
    /\ Answer(r)
    /\ UNCHANGED <<stock, booking, order, payment, paid, insertQueue, crashes>>
-----------------------------------------------------------------------------
\* A request dies between two awaits: the instance is replaced, the database
\* connection is lost, the transaction times out or is a deadlock's victim.
Crash(r) ==
    /\ request[r].at # "idle"
    /\ crashes < MaxCrashes
    /\ crashes' = crashes + 1
    /\ Answer(r)
    /\ UNCHANGED <<stock, booking, order, payment, paid, insertQueue>>

Step(r) ==
    \/ ReadBookingToFulfil(r)
    \/ CaptureOnly(r)
    \/ FulfilTx(r)
    \/ FulfilAbort(r)
    \/ SendInsertBooking(r)
    \/ MarkFailed(r)
    \/ ReadBookingToRollback(r)
    \/ FindPendingOrder(r)
    \/ RollbackTx(r)
    \/ RollbackAbort(r)

Next ==
    \/ \E b \in Bookings, addons \in AddonChoices : CreateBookingOrder(b, addons)
    \/ \E p \in Payments, b \in Bookings : CreateBookingPayment(p, b)
    \/ \E b \in Bookings : SubmitKyc(b)
    \/ \E p \in Payments : GatewayCapture(p)
    \/ \E r \in Requests, p \in Payments : StartFulfil(r, p) \/ StartFailure(r, p)
    \/ \E r \in Requests : Step(r) \/ Crash(r)

Spec == Init /\ [][Next]_vars

\* As long as requests are running, one of them goes on: the event loop serves
\* every settled await, which is more than is asked here.
\* Razorpay repeats the webhook of a captured payment until it is answered
\* with success, which it is not before the payment is recorded (what is
\* promised below looks no further than that).  Guests owe nothing: they may
\* never pay, or never call.
Fairness ==
    /\ WF_vars(\E r \in Requests : Step(r))
    /\ \A p \in Payments : SF_vars(\E r \in Requests : StartFulfil(r, p))

FairSpec == Spec /\ Fairness
-----------------------------------------------------------------------------
(* Safety. *)

\* The units of a product that the addon orders o of some status ask for.
UnitsIn(o, product, status) ==
    UNION {{b} \X (1..o[b].qty[product]) :
              b \in {c \in Bookings : o[c].status = status}}

Units(product, status) == UnitsIn(order, product, status)

\* No interleaving of checkouts, confirmations and rollbacks creates or loses
\* a unit: the counters of every inventory row always add up to its total,
\* and none is negative.
StockConserved ==
    \A product \in Products :
        Conserved(stock[product]) /\ Legal(stock[product])

\* The inventory, seen alone, behaves as StockLedger promises: checkouts,
\* confirmations and rollbacks, aborted ones included, only ever move units
\* from a place that has them to another.
Ledger == INSTANCE StockLedger WITH stock <- stock, Products <- Products,
                                    InitialStock <- InitialStock
KeepsLedger == Ledger!Spec

\* A stay is confirmed, a payment marked CAPTURED, and eZee told about a
\* booking only when Razorpay has captured a payment for that very booking.
HonouredWasPaid ==
    /\ \A p \in Payments : payment[p].status = "CAPTURED" => p \in paid
    /\ \A b \in Bookings :
          booking[b].status = "CONFIRMED" \/ b \in insertQueue =>
              \E p \in paid : payment[p].booking = b

\* Creation and rollback are all or nothing, however requests overlap: a
\* pending booking still has its access and slots and its addons unsold, and
\* a cancelled one keeps no access and no pending order.
PendingIsWhole ==
    \A b \in Bookings :
        /\ booking[b].status = "PENDING_PAYMENT" =>
              booking[b].active /\ booking[b].access /\ order[b].status # "PAID"
        /\ booking[b].status = "CANCELLED" =>
              /\ ~booking[b].active /\ ~booking[b].access
              /\ order[b].status # "PENDING"

\* No unit stays reserved for an order that is gone, and none is promised
\* twice: what is reserved is covered by pending orders, and every unit of a
\* PAID order was counted as sold.
NoLeakedReservation ==
    \A product \in Products :
        /\ stock[product]["reserved"] <= Cardinality(Units(product, "PENDING"))
        /\ stock[product]["sold"] >= Cardinality(Units(product, "PAID"))

\* eZee is never told about a booking before the commit that confirms it:
\* neither a message nor a request about to send one concerns a booking that
\* is still waiting for its payment.
SentAfterCommit ==
    \A b \in Bookings :
        \/ b \in insertQueue
        \/ \E r \in Requests : request[r].at = "send" /\ BookingOf(r) = b
        => booking[b].status \in {"CONFIRMED", "CANCELLED"}

\* A payment or an addon order that exists names a booking that exists;
\* Razorpay captures only payments that exist; a running request works for a
\* payment that exists.
ReferencesExist ==
    /\ \A b \in Bookings :
          order[b].status # "none" => booking[b].status # "none"
    /\ \A p \in Payments :
          payment[p].status # "none" =>
              /\ payment[p].booking \in Bookings
              /\ booking[payment[p].booking].status # "none"
    /\ \A p \in paid : payment[p].status # "none"
    /\ \A r \in Requests :
          request[r].at # "idle" =>
              /\ request[r].payment \in Payments
              /\ payment[request[r].payment].status # "none"

\* The steps of verify and of the capture webhooks.
Fulfilling == {"fulfil_booking", "capture_only", "fulfil_tx", "send"}

\* What a running request goes by stays true until it acts, whatever other
\* requests do meanwhile: Razorpay has captured the payment it is fulfilling,
\* a rollback that found no pending order has none to miss, and the order that
\* a rollback found still asks for the same units if it is still there.
SoundRequest(r) ==
    /\ request[r].at \in Fulfilling => request[r].payment \in paid
    /\ request[r].at = "rollback_tx" =>
          LET found == order[BookingOf(r)]
          IN  IF request[r].saw.status = "PENDING"
              THEN found.status # "none" => found.qty = request[r].saw.qty
              ELSE found.status # "PENDING"

\* Every running request can rely on what it has read.
RequestsStaySound == ReferencesExist /\ \A r \in Requests : SoundRequest(r)
-----------------------------------------------------------------------------
(* Liveness. *)

\* What is reserved is exactly what the pending addon orders ask for.
\* rollbackPendingBooking promises as much: it "releases reserved inventory,
\* deletes pending records", and only those.
ReservationsIntact ==
    \A product \in Products :
        stock[product]["reserved"] = Cardinality(Units(product, "PENDING"))

\* Money that Razorpay captured is recorded in the end, by verify or by a
\* repeated webhook, even if a request dies on the way; unless a stale
\* rollback has taken another booking's reservation (see ReservationsIntact).
CapturedIsRecorded ==
    []<>(~ReservationsIntact \/ \A p \in paid : payment[p].recorded)

\* A failed payment frees what its booking holds, whatever verify calls and
\* webhooks overlap, unless a request died, a stale rollback took the
\* reservation, or the guest has submitted a KYC form for the unpaid stay: then
\* the rollback may be refused, and as the payment is FAILED by now nobody
\* tries again.
HeldForNothing(b) ==
    /\ \E p \in Payments : payment[p].status = "FAILED" /\ payment[p].booking = b
    /\ booking[b].status = "PENDING_PAYMENT" /\ ~booking[b].kyc
    /\ crashes = 0 /\ ReservationsIntact

FailedReleasesBooking == []<>(\A b \in Bookings : ~HeldForNothing(b))
=============================================================================
