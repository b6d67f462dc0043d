------------------------ MODULE BookingPaymentProofs ------------------------
(***************************************************************************)
(* Proofs about BookingPayment, for every number of bookings, payments,    *)
(* products, overlapping requests and crashes.                             *)
(***************************************************************************)
EXTENDS BookingPayment, FiniteSetTheorems, TLAPS

USE DEF NoBookingRow, Reserved, Cancelled, Captured

\* A unit that changes place is neither created nor lost.
LEMMA MoveConserves ==
    ASSUME NEW row \in Row, NEW from \in Places, NEW to \in Places,
           from # to, NEW q \in Int, Conserved(row)
    PROVE  Move(row, from, to, q) \in Row /\ Conserved(Move(row, from, to, q))
BY DEF Counters, Places, Row, Move, Conserved

\* A row as it is created is legal, and holds all it has on the shelf.
LEMMA NewRowConserves ==
    ASSUME NEW n \in Nat
    PROVE  NewRow(n) \in Row /\ Conserved(NewRow(n)) /\ Legal(NewRow(n))
BY DEF NewRow, Row, Counters, Places, Conserved, Legal

\* Moving baskets of units keeps every inventory row a row, and its sum.
LEMMA MoveAllType ==
    ASSUME TypeOK, NEW from \in Places, NEW to \in Places, from # to,
           NEW qty \in [Products -> Nat]
    PROVE  MoveAll(from, to, qty) \in [Products -> Row]
BY DEF MoveAll, TypeOK, Move, Row, Counters, Places

LEMMA MoveAllConserves ==
    ASSUME TypeOK, NEW from \in Places, NEW to \in Places, from # to,
           NEW qty \in [Products -> Nat],
           \A product \in Products : Conserved(stock[product])
    PROVE  \A product \in Products : Conserved(MoveAll(from, to, qty)[product])
<1> SUFFICES ASSUME NEW product \in Products
             PROVE  Conserved(Move(stock[product], from, to, qty[product]))
  BY DEF MoveAll
<1>1. stock[product] \in Row /\ qty[product] \in Int
  BY DEF TypeOK
<1>2. QED
  BY <1>1, MoveConserves

\* A service request always finds the places it names.
LEMMA PlacesAre ==
    /\ "available" \in Places /\ "reserved" \in Places /\ "sold" \in Places
BY DEF Places

LEMMA NoOrderIsOrder == NoOrder \in Order
BY DEF NoOrder, Order, Nothing

LEMMA IdleIsRequest == Idle \in Request
BY NoOrderIsOrder DEF Idle, Request, Steps

LEMMA AddonChoicesAreOrders ==
    ASSUME NEW addons \in AddonChoices PROVE addons \in Order
BY BasketsAssumption, NoOrderIsOrder DEF AddonChoices, Order

\* The stock that each transaction writes is a stock.
LEMMA SoldStockType ==
    ASSUME TypeOK, NEW b \in Bookings
    PROVE  SoldStock(b) \in [Products -> Row]
<1>1. order[b].qty \in [Products -> Nat]
  BY DEF TypeOK, Order
<1>2. QED
  BY <1>1, MoveAllType, PlacesAre DEF SoldStock, TypeOK

LEMMA ReleasedStockType ==
    ASSUME TypeOK, NEW r \in Requests
    PROVE  ReleasedStock(r) \in [Products -> Row]
<1>1. request[r].saw.qty \in [Products -> Nat]
  BY DEF TypeOK, Request, Order
<1>2. QED
  BY <1>1, MoveAllType, PlacesAre DEF ReleasedStock, TypeOK
-----------------------------------------------------------------------------
(* The inductive invariant: types, and what running requests rely on. *)

Inv == TypeOK /\ RequestsStaySound

LEMMA BookingOfType ==
    ASSUME Inv, NEW r \in Requests, request[r].at # "idle"
    PROVE  /\ request[r].payment \in Payments
           /\ BookingOf(r) \in Bookings
           /\ booking[BookingOf(r)].status # "none"
           /\ payment[request[r].payment].status # "none"
BY DEF Inv, RequestsStaySound, ReferencesExist, BookingOf

LEMMA KycKeepsTheRest ==
    ASSUME TypeOK, NEW b \in Bookings, SubmitKyc(b), NEW c \in Bookings
    PROVE  /\ booking'[c].status = booking[c].status
           /\ booking'[c].active = booking[c].active
           /\ booking'[c].access = booking[c].access
BY DEF SubmitKyc, TypeOK, BookingRow

LEMMA InitInv == Init => Inv
<1> SUFFICES ASSUME Init PROVE Inv
  OBVIOUS
<1>1. stock \in [Products -> Row]
  BY InitialStockAssumption, NewRowConserves DEF Init
<1>2. TypeOK
  BY <1>1, NoOrderIsOrder, IdleIsRequest, MaxCrashesAssumption
  DEF Init, TypeOK, BookingRow, PaymentRow
<1>3. RequestsStaySound
  BY DEF Init, RequestsStaySound, ReferencesExist, SoundRequest, Idle, NoOrder,
         Fulfilling
<1>4. QED
  BY <1>2, <1>3 DEF Inv

\* Types, action by action.
LEMMA TypeStep == Inv /\ [Next]_vars => TypeOK'
<1> SUFFICES ASSUME Inv, [Next]_vars PROVE TypeOK'
  OBVIOUS
<1> USE DEF Inv
<1>1. ASSUME NEW b \in Bookings, NEW addons \in AddonChoices,
             CreateBookingOrder(b, addons)
      PROVE  TypeOK'
  <2>1. addons \in Order /\ addons.qty \in [Products -> Nat]
    BY AddonChoicesAreOrders DEF Order
  <2>2. stock' \in [Products -> Row]
    BY <1>1, <2>1, MoveAllType, PlacesAre DEF CreateBookingOrder
  <2>3. QED
    BY <1>1, <2>1, <2>2 DEF CreateBookingOrder, TypeOK, BookingRow
<1>2. ASSUME NEW p \in Payments, NEW b \in Bookings, CreateBookingPayment(p, b)
      PROVE  TypeOK'
  BY <1>2 DEF CreateBookingPayment, TypeOK, PaymentRow
<1>3. ASSUME NEW p \in Payments, GatewayCapture(p)
      PROVE  TypeOK'
  BY <1>3 DEF GatewayCapture, TypeOK
<1>4. ASSUME NEW r \in Requests, NEW p \in Payments,
             StartFulfil(r, p) \/ StartFailure(r, p)
      PROVE  TypeOK'
  BY <1>4, NoOrderIsOrder
  DEF StartFulfil, StartFailure, TypeOK, Request, Steps
<1>5. ASSUME NEW r \in Requests, Step(r) \/ Crash(r)
      PROVE  TypeOK'
  <2> DEFINE b == BookingOf(r)
  <2>0. request[r].at # "idle" => request[r].payment \in Payments /\ b \in Bookings
    BY BookingOfType
  <2>1. CASE ReadBookingToFulfil(r)
    BY <2>1 DEF ReadBookingToFulfil, GoTo, TypeOK, Request, Steps
  <2>2. CASE CaptureOnly(r)
    BY <2>0, <2>2, IdleIsRequest
    DEF CaptureOnly, Answer, TypeOK, PaymentRow
  <2>3. CASE FulfilTx(r)
    <3>1. b \in Bookings /\ request[r].payment \in Payments
      BY <2>0, <2>3 DEF FulfilTx
    <3>2. stock' \in [Products -> Row]
      BY <2>3, <3>1, SoldStockType DEF FulfilTx
    <3>3. booking' \in [Bookings -> BookingRow]
      BY <2>3, <3>1 DEF FulfilTx, TypeOK, BookingRow
    <3>4. order' \in [Bookings -> Order]
      BY <2>3, <3>1 DEF FulfilTx, TypeOK, Order
    <3>5. payment' \in [Payments -> PaymentRow]
      BY <2>3, <3>1 DEF FulfilTx, TypeOK, PaymentRow
    <3>6. request' \in [Requests -> Request]
      BY <2>3 DEF FulfilTx, GoTo, TypeOK, Request, Steps
    <3>7. QED
      BY <2>3, <3>2, <3>3, <3>4, <3>5, <3>6 DEF FulfilTx, TypeOK
  <2>4. CASE FulfilAbort(r)
    BY <2>4, IdleIsRequest DEF FulfilAbort, Answer, TypeOK
  <2>5. CASE SendInsertBooking(r)
    BY <2>0, <2>5, IdleIsRequest DEF SendInsertBooking, Answer, TypeOK
  <2>6. CASE MarkFailed(r)
    BY <2>0, <2>6 DEF MarkFailed, GoTo, TypeOK, PaymentRow, Request, Steps
  <2>7. CASE ReadBookingToRollback(r)
    BY <2>7, IdleIsRequest
    DEF ReadBookingToRollback, GoTo, Answer, TypeOK, Request, Steps
  <2>8. CASE FindPendingOrder(r)
    <3>1. order[b] \in Order
      BY <2>0, <2>8 DEF FindPendingOrder, TypeOK
    <3> DEFINE found == IF order[b].status = "PENDING" THEN order[b] ELSE NoOrder
    <3>2. found \in Order
      BY <3>1, NoOrderIsOrder
    <3>3. request' = [request EXCEPT ![r].at = "rollback_tx", ![r].saw = found]
      BY <2>8 DEF FindPendingOrder
    <3> HIDE DEF found
    <3>4. request' \in [Requests -> Request]
      BY <3>2, <3>3 DEF TypeOK, Request, Steps
    <3>5. QED
      BY <2>8, <3>4 DEF FindPendingOrder, TypeOK
  <2>9. CASE RollbackTx(r)
    <3>1. b \in Bookings
      BY <2>0, <2>9 DEF RollbackTx
    <3>2. stock' \in [Products -> Row]
      BY <2>9, ReleasedStockType DEF RollbackTx
    <3>3. QED
      BY <2>9, <3>1, <3>2, NoOrderIsOrder, IdleIsRequest
      DEF RollbackTx, Answer, TypeOK, BookingRow
  <2>10. CASE RollbackAbort(r)
    BY <2>10, IdleIsRequest DEF RollbackAbort, Answer, TypeOK
  <2>11. CASE Crash(r)
    BY <2>11, IdleIsRequest, MaxCrashesAssumption DEF Crash, Answer, TypeOK
  <2>12. QED
    BY <1>5, <2>1, <2>2, <2>3, <2>4, <2>5, <2>6, <2>7, <2>8, <2>9, <2>10,
       <2>11 DEF Step
<1>6. CASE UNCHANGED vars
  BY <1>6 DEF vars, TypeOK
<1>7. ASSUME NEW b \in Bookings, SubmitKyc(b)
      PROVE  TypeOK'
  BY <1>7 DEF SubmitKyc, TypeOK, BookingRow
<1>8. QED
  BY <1>1, <1>2, <1>3, <1>4, <1>5, <1>6, <1>7 DEF Next

\* What a request relies on, action by action.
LEMMA SoundStep == Inv /\ [Next]_vars => RequestsStaySound'
<1> SUFFICES ASSUME Inv, [Next]_vars PROVE RequestsStaySound'
  OBVIOUS
<1> USE DEF Inv, RequestsStaySound, ReferencesExist, SoundRequest
<1>1. ASSUME NEW b \in Bookings, NEW addons \in AddonChoices,
             CreateBookingOrder(b, addons)
      PROVE  RequestsStaySound'
  BY <1>1 DEF CreateBookingOrder, TypeOK, BookingOf, Fulfilling
<1>2. ASSUME NEW p \in Payments, NEW b \in Bookings, CreateBookingPayment(p, b)
      PROVE  RequestsStaySound'
  BY <1>2 DEF CreateBookingPayment, TypeOK, BookingOf, Fulfilling
<1>3. ASSUME NEW p \in Payments, GatewayCapture(p)
      PROVE  RequestsStaySound'
  BY <1>3 DEF GatewayCapture, TypeOK, BookingOf, Fulfilling
<1>4. ASSUME NEW r \in Requests, NEW p \in Payments,
             StartFulfil(r, p) \/ StartFailure(r, p)
      PROVE  RequestsStaySound'
  BY <1>4 DEF StartFulfil, StartFailure, TypeOK, BookingOf, Fulfilling
<1>5. ASSUME NEW r \in Requests, Step(r) \/ Crash(r)
      PROVE  RequestsStaySound'
  <2> DEFINE b == BookingOf(r)
  <2>0. request[r].at # "idle" => request[r].payment \in Payments /\ b \in Bookings
    BY BookingOfType
  <2>1. CASE ReadBookingToFulfil(r)
    BY <2>1 DEF ReadBookingToFulfil, GoTo, TypeOK, BookingOf, Fulfilling
  <2>2. CASE CaptureOnly(r)
    <3>1. request[r].payment \in Payments /\ request[r].payment \in paid
      BY <2>0, <2>2 DEF CaptureOnly, Fulfilling
    <3>2. \A p \in Payments :
              /\ payment'[p].booking = payment[p].booking
              /\ payment'[p].status = "none" <=> payment[p].status = "none"
      BY <2>2, <3>1 DEF CaptureOnly, TypeOK, PaymentRow
    <3>3. \A q \in Requests : request'[q] = request[q] \/ request'[q] = Idle
      BY <2>2 DEF CaptureOnly, Answer, TypeOK
    <3>4. UNCHANGED <<booking, order, paid>>
      BY <2>2 DEF CaptureOnly
    <3>5. \A q \in Requests : request'[q] = request[q]
                /\ request[q].at # "idle" => BookingOf(q)' = BookingOf(q)
      BY <3>2 DEF BookingOf
    <3>6. ReferencesExist'
      <4>1. \A p \in Payments : payment'[p].status # "none" =>
                /\ payment'[p].booking \in Bookings
                /\ booking'[payment'[p].booking].status # "none"
        BY <3>2, <3>4
      <4>2. \A p \in paid' : payment'[p].status # "none"
        BY <3>2, <3>4 DEF TypeOK
      <4>3. \A q \in Requests : request'[q].at # "idle" =>
                /\ request'[q].payment \in Payments
                /\ payment'[request'[q].payment].status # "none"
        BY <3>2, <3>3 DEF Idle
      <4>4. QED
        BY <3>4, <4>1, <4>2, <4>3
    <3>7. \A q \in Requests : SoundRequest(q)'
      BY <3>3, <3>4, <3>5 DEF Idle, Fulfilling
    <3>8. QED
      BY <3>6, <3>7
  <2>3. CASE FulfilTx(r)
    <3>1. /\ request[r].payment \in Payments /\ b \in Bookings
          /\ request[r].payment \in paid
      BY <2>0, <2>3 DEF FulfilTx, Fulfilling
    <3>2. \A c \in Bookings :
              /\ booking'[c].status = "none" => booking[c].status = "none"
              /\ order'[c].status = "PENDING" => order[c].status = "PENDING"
              /\ order'[c].status = "none" <=> order[c].status = "none"
              /\ order'[c].qty = order[c].qty
      BY <2>3, <3>1 DEF FulfilTx, TypeOK, BookingRow, Order
    <3>3. \A p \in Payments :
              /\ payment'[p].booking = payment[p].booking
              /\ payment'[p].status = "none" <=> payment[p].status = "none"
      BY <2>3, <3>1 DEF FulfilTx, TypeOK, PaymentRow
    <3>4. paid' = paid
      BY <2>3 DEF FulfilTx
    <3>5. \A q \in Requests :
              \/ request'[q] = request[q]
              \/ /\ q = r /\ request'[q].at = "send"
                 /\ request'[q].payment = request[q].payment
      BY <2>3 DEF FulfilTx, GoTo, TypeOK, Request
    <3>6. ReferencesExist'
      BY <3>1, <3>2, <3>3, <3>4, <3>5 DEF TypeOK
    <3>7. ASSUME NEW q \in Requests PROVE SoundRequest(q)'
      <4>1. CASE request'[q] = request[q]
        <5>1. request[q].at # "idle" => BookingOf(q)' = BookingOf(q)
                                        /\ BookingOf(q) \in Bookings
          BY <3>3, <4>1 DEF BookingOf
        <5>2. QED
          BY <3>2, <3>4, <4>1, <5>1
      <4>2. CASE q = r /\ request'[q].at = "send"
                 /\ request'[q].payment = request[q].payment
        BY <3>1, <3>4, <4>2
      <4>3. QED
        BY <3>5, <4>1, <4>2
    <3>8. QED
      BY <3>6, <3>7
  <2>4. CASE FulfilAbort(r)
    BY <2>4 DEF FulfilAbort, Answer, Idle, TypeOK, BookingOf, Fulfilling
  <2>5. CASE SendInsertBooking(r)
    BY <2>5 DEF SendInsertBooking, Answer, Idle, TypeOK, BookingOf, Fulfilling
  <2>6. CASE MarkFailed(r)
    BY <2>0, <2>6 DEF MarkFailed, GoTo, TypeOK, BookingOf, Fulfilling
  <2>7. CASE ReadBookingToRollback(r)
    <3>1. CASE GoTo(r, "rollback_find")
      BY <2>7, <3>1 DEF ReadBookingToRollback, GoTo, TypeOK, BookingOf, Fulfilling
    <3>2. CASE Answer(r)
      BY <2>7, <3>2 DEF ReadBookingToRollback, Answer, Idle, TypeOK,
                        BookingOf, Fulfilling
    <3>3. QED
      BY <2>7, <3>1, <3>2 DEF ReadBookingToRollback
  <2>8. CASE FindPendingOrder(r)
    <3> DEFINE seen == IF order[b].status = "PENDING" THEN order[b] ELSE NoOrder
    <3>1. /\ b \in Bookings
          /\ request' = [request EXCEPT ![r].at = "rollback_tx", ![r].saw = seen]
          /\ order' = order /\ booking' = booking /\ payment' = payment
          /\ paid' = paid
      BY <2>0, <2>8 DEF FindPendingOrder
    <3>2. IF seen.status = "PENDING"
          THEN order[b].qty = seen.qty ELSE order[b].status # "PENDING"
      BY DEF NoOrder
    <3> HIDE DEF seen
    <3>3. \A q \in Requests :
              \/ request'[q] = request[q]
              \/ /\ q = r /\ request'[q].at = "rollback_tx"
                 /\ request[q].at # "idle"
                 /\ request'[q].payment = request[q].payment
                 /\ request'[q].saw = seen
      BY <2>8, <3>1 DEF FindPendingOrder, TypeOK, Request
    <3>4. ReferencesExist'
      BY <3>1, <3>3
    <3>5. ASSUME NEW q \in Requests PROVE SoundRequest(q)'
      <4>1. BookingOf(q)' = BookingOf(q)
        BY <3>1, <3>3 DEF BookingOf
      <4>2. CASE request'[q] = request[q]
        <5>1. order'[BookingOf(q)'] = order[BookingOf(q)]
          BY <3>1, <4>1
        <5>2. /\ request'[q].at = request[q].at
              /\ request'[q].payment = request[q].payment
              /\ request'[q].saw = request[q].saw
          BY <4>2
        <5>3. QED
          BY <3>1, <5>1, <5>2, <4>1
      <4>3. CASE q = r /\ request'[q].at = "rollback_tx"
                 /\ request'[q].saw = seen
        BY <3>1, <3>2, <4>1, <4>3 DEF Fulfilling
      <4>4. QED
        BY <3>3, <4>2, <4>3
    <3>6. QED
      BY <3>4, <3>5
  <2>9. CASE RollbackTx(r)
    BY <2>0, <2>9 DEF RollbackTx, Answer, Idle, NoOrder, TypeOK,
                      BookingOf, Fulfilling
  <2>10. CASE RollbackAbort(r)
    BY <2>10 DEF RollbackAbort, Answer, Idle, TypeOK, BookingOf, Fulfilling
  <2>11. CASE Crash(r)
    BY <2>11 DEF Crash, Answer, Idle, TypeOK, BookingOf, Fulfilling
  <2>12. QED
    BY <1>5, <2>1, <2>2, <2>3, <2>4, <2>5, <2>6, <2>7, <2>8, <2>9, <2>10,
       <2>11 DEF Step
<1>6. CASE UNCHANGED vars
  BY <1>6 DEF vars, TypeOK, BookingOf, Fulfilling
<1>7. ASSUME NEW b \in Bookings, SubmitKyc(b)
      PROVE  RequestsStaySound'
  BY <1>7, KycKeepsTheRest DEF SubmitKyc, TypeOK, BookingOf, Fulfilling
<1>8. QED
  BY <1>1, <1>2, <1>3, <1>4, <1>5, <1>6, <1>7 DEF Next

LEMMA InvStep == Inv /\ [Next]_vars => Inv'
BY TypeStep, SoundStep DEF Inv

LEMMA InvHolds == Spec => []Inv
BY InitInv, InvStep, PTL DEF Spec

\* Every reachable state is well typed.
THEOREM TypeCorrect == Spec => []TypeOK
<1>1. Inv => TypeOK
  BY DEF Inv
<1>2. QED
  BY <1>1, InvHolds, PTL

\* What a running request goes by stays true until it acts.
THEOREM RequestsSound == Spec => []RequestsStaySound
<1>1. Inv => RequestsStaySound
  BY DEF Inv
<1>2. QED
  BY <1>1, InvHolds, PTL
-----------------------------------------------------------------------------
(* The stock. *)

\* Only a few actions write the inventory; each writes a moved basket, and
\* none leaves a negative counter.
LEMMA StockStep ==
    ASSUME Inv, StockConserved, [Next]_vars
    PROVE  StockConserved'
<1> USE DEF Inv
<1>0. \A product \in Products :
          /\ stock[product] \in Row
          /\ Conserved(stock[product])
          /\ Legal(stock[product])
  BY DEF TypeOK, StockConserved
<1>1. ASSUME NEW b \in Bookings, NEW addons \in AddonChoices,
             CreateBookingOrder(b, addons)
      PROVE  StockConserved'
  <2>1. addons.qty \in [Products -> Nat]
    BY AddonChoicesAreOrders DEF Order
  <2>2. stock' = MoveAll("available", "reserved", addons.qty)
    BY <1>1 DEF CreateBookingOrder
  <2>3. \A product \in Products : Conserved(stock'[product])
    BY <1>0, <2>1, <2>2, MoveAllConserves, PlacesAre
  <2>4. ASSUME NEW product \in Products PROVE Legal(stock'[product])
    <3>1. /\ addons.qty[product] \in Nat
          /\ addons.qty[product] <= stock[product]["available"]
      BY <1>1, <2>1 DEF CreateBookingOrder
    <3>2. stock'[product] =
              Move(stock[product], "available", "reserved", addons.qty[product])
      BY <2>2 DEF MoveAll
    <3>3. QED
      BY <1>0, <3>1, <3>2 DEF Move, Legal, Row, Counters, Places
  <2>5. QED
    BY <2>3, <2>4 DEF StockConserved
<1>2. ASSUME NEW r \in Requests, FulfilTx(r)
      PROVE  StockConserved'
  <2> DEFINE b == BookingOf(r)
  <2>1. b \in Bookings
    BY <1>2, BookingOfType DEF FulfilTx
  <2>2. stock' = SoldStock(b) /\ LegalStock(SoldStock(b))
    BY <1>2 DEF FulfilTx
  <2>3. order[b].qty \in [Products -> Nat]
    BY <2>1 DEF TypeOK, Order
  <2>4. \A product \in Products : Conserved(stock'[product])
    BY <1>0, <2>2, <2>3, MoveAllConserves, PlacesAre DEF SoldStock
  <2>5. QED
    BY <2>2, <2>4 DEF StockConserved, LegalStock
<1>3. ASSUME NEW r \in Requests, RollbackTx(r)
      PROVE  StockConserved'
  <2>1. stock' = ReleasedStock(r) /\ LegalStock(ReleasedStock(r))
    BY <1>3 DEF RollbackTx, RollbackPossible
  <2>2. request[r].saw.qty \in [Products -> Nat]
    BY DEF TypeOK, Request, Order
  <2>3. \A product \in Products : Conserved(stock'[product])
    BY <1>0, <2>1, <2>2, MoveAllConserves, PlacesAre DEF ReleasedStock
  <2>4. QED
    BY <2>1, <2>3 DEF StockConserved, LegalStock
<1>4. CASE UNCHANGED stock
  BY <1>0, <1>4 DEF StockConserved
<1>5. QED
  BY <1>1, <1>2, <1>3, <1>4
  DEF Next, vars, Step, CreateBookingPayment, SubmitKyc, GatewayCapture, StartFulfil,
      StartFailure, ReadBookingToFulfil, CaptureOnly, FulfilAbort,
      SendInsertBooking, MarkFailed, ReadBookingToRollback, FindPendingOrder,
      RollbackAbort, Crash

\* No overlap of checkouts, confirmations and rollbacks creates or loses a
\* unit or drives a counter below zero.
THEOREM StockIsConserved == Spec => []StockConserved
<1>1. Init => StockConserved
  BY InitialStockAssumption, NewRowConserves DEF Init, StockConserved
<1>2. Inv /\ StockConserved /\ [Next]_vars => StockConserved'
  BY StockStep
<1>3. QED
  BY <1>1, <1>2, InvHolds, PTL DEF Spec
-----------------------------------------------------------------------------
(* Money and confirmations. *)

\* What the actions may do to bookings and payments: a step that confirms a
\* booking, marks a payment CAPTURED or sends a message works for a payment
\* that Razorpay has captured.
LEMMA HonouredStep ==
    ASSUME Inv, HonouredWasPaid, [Next]_vars
    PROVE  HonouredWasPaid'
<1> USE DEF Inv
<1>0. \A p \in paid : payment[p].status # "none" /\ p \in Payments
  BY DEF TypeOK, RequestsStaySound, ReferencesExist
<1>1. ASSUME NEW b \in Bookings, NEW addons \in AddonChoices,
             CreateBookingOrder(b, addons)
      PROVE  HonouredWasPaid'
  BY <1>1 DEF CreateBookingOrder, HonouredWasPaid, TypeOK, BookingRow
<1>2. ASSUME NEW p \in Payments, NEW b \in Bookings, CreateBookingPayment(p, b)
      PROVE  HonouredWasPaid'
  BY <1>0, <1>2 DEF CreateBookingPayment, HonouredWasPaid, TypeOK, PaymentRow
<1>3. ASSUME NEW p \in Payments, GatewayCapture(p)
      PROVE  HonouredWasPaid'
  BY <1>3 DEF GatewayCapture, HonouredWasPaid
<1>4. ASSUME NEW r \in Requests, request[r].at \in Fulfilling
      PROVE  request[r].payment \in paid /\ request[r].payment \in Payments
             /\ BookingOf(r) \in Bookings
  BY <1>0, <1>4 DEF RequestsStaySound, ReferencesExist, SoundRequest, BookingOf
<1>5. ASSUME NEW r \in Requests, CaptureOnly(r)
      PROVE  HonouredWasPaid'
  <2>1. request[r].payment \in paid /\ request[r].payment \in Payments
    BY <1>4, <1>5 DEF CaptureOnly, Fulfilling
  <2>2. QED
    BY <1>0, <1>5, <2>1 DEF CaptureOnly, HonouredWasPaid, TypeOK, PaymentRow
<1>6. ASSUME NEW r \in Requests, FulfilTx(r)
      PROVE  HonouredWasPaid'
  <2>1. /\ request[r].payment \in paid /\ request[r].payment \in Payments
        /\ BookingOf(r) \in Bookings
    BY <1>4, <1>6 DEF FulfilTx, Fulfilling
  <2>2. payment[request[r].payment].booking = BookingOf(r)
    BY DEF BookingOf
  <2>3. \A p \in Payments : payment'[p].booking = payment[p].booking
    BY <1>6, <2>1 DEF FulfilTx, TypeOK, PaymentRow
  <2>4. \A p \in Payments : payment'[p].status = "CAPTURED" => p \in paid
    BY <1>6, <2>1 DEF FulfilTx, TypeOK, PaymentRow, HonouredWasPaid
  <2>5. \A b \in Bookings : booking'[b].status = "CONFIRMED" =>
            booking[b].status = "CONFIRMED" \/ b = BookingOf(r)
    BY <1>6, <2>1 DEF FulfilTx, TypeOK, BookingRow
  <2>6. paid' = paid /\ insertQueue' = insertQueue
    BY <1>6 DEF FulfilTx
  <2>7. QED
    BY <1>0, <2>1, <2>2, <2>3, <2>4, <2>5, <2>6 DEF HonouredWasPaid
<1>7. ASSUME NEW r \in Requests, SendInsertBooking(r)
      PROVE  HonouredWasPaid'
  <2>1. /\ request[r].payment \in paid
        /\ payment[request[r].payment].booking = BookingOf(r)
    BY <1>4, <1>7 DEF SendInsertBooking, Fulfilling, BookingOf
  <2>2. QED
    BY <1>7, <2>1 DEF SendInsertBooking, HonouredWasPaid
<1>8. ASSUME NEW r \in Requests, MarkFailed(r)
      PROVE  HonouredWasPaid'
  BY <1>0, <1>8 DEF MarkFailed, HonouredWasPaid, TypeOK, PaymentRow
<1>9. ASSUME NEW r \in Requests, RollbackTx(r)
      PROVE  HonouredWasPaid'
  BY <1>9 DEF RollbackTx, HonouredWasPaid, TypeOK, BookingRow
<1>10. CASE UNCHANGED <<booking, payment, paid, insertQueue>>
  BY <1>10 DEF HonouredWasPaid
<1>11. ASSUME NEW k \in Bookings, SubmitKyc(k)
      PROVE  HonouredWasPaid'
  BY <1>11, KycKeepsTheRest DEF SubmitKyc, HonouredWasPaid
<1>12. QED
  BY <1>1, <1>2, <1>3, <1>5, <1>6, <1>7, <1>8, <1>9, <1>10, <1>11
  DEF Next, vars, Step, StartFulfil, StartFailure, ReadBookingToFulfil,
      FulfilAbort, ReadBookingToRollback, FindPendingOrder, RollbackAbort, Crash

\* Nothing is confirmed, marked CAPTURED or announced to eZee without money
\* that Razorpay has captured for it.
THEOREM HonouredIsPaid == Spec => []HonouredWasPaid
<1>1. Init => HonouredWasPaid
  BY DEF Init, HonouredWasPaid
<1>2. Inv /\ HonouredWasPaid /\ [Next]_vars => HonouredWasPaid'
  BY HonouredStep
<1>3. QED
  BY <1>1, <1>2, InvHolds, PTL DEF Spec
-----------------------------------------------------------------------------
(* Bookings are created, cancelled and announced as wholes. *)

LEMMA WholeStep ==
    ASSUME Inv, PendingIsWhole, [Next]_vars
    PROVE  PendingIsWhole'
<1> USE DEF Inv
<1>1. ASSUME NEW b \in Bookings, NEW addons \in AddonChoices,
             CreateBookingOrder(b, addons)
      PROVE  PendingIsWhole'
  <2>1. addons.status # "PAID"
    BY DEF AddonChoices, NoOrder
  <2>2. QED
    BY <1>1, <2>1 DEF CreateBookingOrder, PendingIsWhole, TypeOK
<1>2. ASSUME NEW r \in Requests, FulfilTx(r)
      PROVE  PendingIsWhole'
  <2>1. BookingOf(r) \in Bookings
    BY <1>2, BookingOfType DEF FulfilTx
  <2>2. QED
    BY <1>2, <2>1 DEF FulfilTx, PendingIsWhole, TypeOK, BookingRow, Order
<1>3. ASSUME NEW r \in Requests, RollbackTx(r)
      PROVE  PendingIsWhole'
  <2> DEFINE b == BookingOf(r)
  <2>1. b \in Bookings
    BY <1>3, BookingOfType DEF RollbackTx
  <2>2. order'[b].status # "PENDING"
    BY <1>3, <2>1 DEF RollbackTx, RequestsStaySound, SoundRequest, NoOrder,
                      TypeOK
  <2>3. \A c \in Bookings : c # b => /\ order'[c] = order[c]
                                    /\ booking'[c] = booking[c]
    BY <1>3, <2>1 DEF RollbackTx, TypeOK
  <2>4. booking'[b] = Cancelled
    BY <1>3, <2>1 DEF RollbackTx, TypeOK
  <2>5. QED
    BY <2>2, <2>3, <2>4 DEF PendingIsWhole
<1>4. CASE UNCHANGED <<booking, order>>
  BY <1>4 DEF PendingIsWhole
<1>5. ASSUME NEW k \in Bookings, SubmitKyc(k)
      PROVE  PendingIsWhole'
  BY <1>5, KycKeepsTheRest DEF SubmitKyc, PendingIsWhole
<1>6. QED
  BY <1>1, <1>2, <1>3, <1>4, <1>5
  DEF Next, vars, Step, CreateBookingPayment, GatewayCapture, StartFulfil,
      StartFailure, ReadBookingToFulfil, CaptureOnly, FulfilAbort,
      SendInsertBooking, MarkFailed, ReadBookingToRollback, FindPendingOrder,
      RollbackAbort, Crash

\* Whatever requests overlap, a pending booking keeps its access and its
\* unsold addons, and a cancelled one keeps nothing.
THEOREM BookingsAreWhole == Spec => []PendingIsWhole
<1>1. Init => PendingIsWhole
  BY DEF Init, PendingIsWhole
<1>2. Inv /\ PendingIsWhole /\ [Next]_vars => PendingIsWhole'
  BY WholeStep
<1>3. QED
  BY <1>1, <1>2, InvHolds, PTL DEF Spec

\* A booking that no longer waits for its payment never waits again.
LEMMA NeverPendingAgain ==
    ASSUME Inv, [Next]_vars, NEW b \in Bookings,
           booking[b].status \in {"CONFIRMED", "CANCELLED"}
    PROVE  booking'[b].status \in {"CONFIRMED", "CANCELLED"}
<1> USE DEF Inv
<1>1. ASSUME NEW c \in Bookings, NEW addons \in AddonChoices,
             CreateBookingOrder(c, addons)
      PROVE  booking'[b] = booking[b]
  BY <1>1 DEF CreateBookingOrder, TypeOK
<1>2. ASSUME NEW r \in Requests, FulfilTx(r)
      PROVE  booking'[b].status \in {booking[b].status, "CONFIRMED"}
  BY <1>2 DEF FulfilTx, TypeOK, BookingRow
<1>3. ASSUME NEW r \in Requests, RollbackTx(r)
      PROVE  booking'[b].status \in {booking[b].status, "CANCELLED"}
  BY <1>3 DEF RollbackTx, TypeOK, BookingRow
<1>4. CASE UNCHANGED booking
  BY <1>4
<1>5. ASSUME NEW k \in Bookings, SubmitKyc(k)
      PROVE  booking'[b].status = booking[b].status
  BY <1>5, KycKeepsTheRest
<1>6. QED
  BY <1>1, <1>2, <1>3, <1>4, <1>5
  DEF Next, vars, Step, CreateBookingPayment, GatewayCapture, StartFulfil,
      StartFailure, ReadBookingToFulfil, CaptureOnly, FulfilAbort,
      SendInsertBooking, MarkFailed, ReadBookingToRollback, FindPendingOrder,
      RollbackAbort, Crash

\* What is queued or about to be queued after a step was so before it, or is
\* about the booking that the step confirmed.
LEMMA SentStep ==
    ASSUME Inv, SentAfterCommit, [Next]_vars
    PROVE  SentAfterCommit'
<1> USE DEF Inv
<1> DEFINE Announced(b) ==
        \/ b \in insertQueue
        \/ \E r \in Requests : request[r].at = "send" /\ BookingOf(r) = b
<1>0. \A r \in Requests : request[r].at # "idle" =>
          request[r].payment \in Payments
          /\ payment[request[r].payment].status # "none"
  BY DEF RequestsStaySound, ReferencesExist
<1>1. ASSUME NEW r \in Requests, FulfilTx(r), NEW b \in Bookings, Announced(b)'
      PROVE  Announced(b) \/ booking'[b].status = "CONFIRMED"
  <2>1. BookingOf(r) \in Bookings
    BY <1>1, BookingOfType DEF FulfilTx
  <2>2. booking'[BookingOf(r)].status = "CONFIRMED"
    BY <1>1, <2>1 DEF FulfilTx, TypeOK, BookingRow
  <2>3. \A p \in Payments : payment'[p].booking = payment[p].booking
    BY <1>0, <1>1 DEF FulfilTx, TypeOK, PaymentRow
  <2>4. \A q \in Requests : q # r => request'[q] = request[q]
    BY <1>1 DEF FulfilTx, GoTo, TypeOK
  <2>5. insertQueue' = insertQueue /\ request'[r].payment = request[r].payment
    BY <1>1 DEF FulfilTx, GoTo, TypeOK, Request
  <2>6. ASSUME NEW q \in Requests, request'[q].at = "send", BookingOf(q)' = b
        PROVE  (q = r /\ b = BookingOf(r)) \/ (request[q].at = "send" /\ BookingOf(q) = b)
    <3>1. BookingOf(r)' = BookingOf(r)
      BY <1>0, <1>1, <2>3, <2>5 DEF FulfilTx, BookingOf
    <3>2. q # r => request[q].at = "send" /\ BookingOf(q) = b
      BY <1>0, <2>3, <2>4, <2>6 DEF BookingOf
    <3>3. QED
      BY <2>6, <3>1, <3>2
  <2>7. QED
    BY <1>1, <2>2, <2>5, <2>6
<1>2. ASSUME NEW p \in Payments, NEW c \in Bookings,
             CreateBookingPayment(p, c), NEW b \in Bookings, Announced(b)'
      PROVE  Announced(b)
  BY <1>0, <1>2 DEF CreateBookingPayment, BookingOf, TypeOK, PaymentRow
<1>3. ASSUME NEW r \in Requests, SendInsertBooking(r), NEW b \in Bookings,
             Announced(b)'
      PROVE  Announced(b)
  BY <1>3 DEF SendInsertBooking, Answer, Idle, BookingOf, TypeOK
<1>4. ASSUME NEW r \in Requests, CaptureOnly(r) \/ MarkFailed(r),
             NEW b \in Bookings, Announced(b)'
      PROVE  Announced(b)
  <2>1. request[r].payment \in Payments
    BY <1>0, <1>4 DEF CaptureOnly, MarkFailed
  <2>2. \A p \in Payments : payment'[p].booking = payment[p].booking
    BY <1>4, <2>1 DEF CaptureOnly, MarkFailed, TypeOK, PaymentRow
  <2>3. \A q \in Requests : request'[q].at = "send" => request'[q] = request[q]
    BY <1>4 DEF CaptureOnly, MarkFailed, Answer, GoTo, Idle, TypeOK, Request
  <2>4. insertQueue' = insertQueue
    BY <1>4 DEF CaptureOnly, MarkFailed
  <2>5. QED
    BY <1>0, <1>4, <2>2, <2>3, <2>4 DEF BookingOf
<1>5. ASSUME UNCHANGED <<payment, insertQueue>>,
             \A r \in Requests : request'[r].at # "send" \/ request'[r] = request[r],
             NEW b \in Bookings, Announced(b)'
      PROVE  Announced(b)
  BY <1>5 DEF BookingOf
<1>6. ASSUME NEW b \in Bookings, Announced(b)'
      PROVE  Announced(b) \/ booking'[b].status = "CONFIRMED"
  <2>1. ASSUME NEW r \in Requests, NEW p \in Payments,
               StartFulfil(r, p) \/ StartFailure(r, p)
        PROVE  Announced(b)
    BY <1>5, <1>6, <2>1 DEF StartFulfil, StartFailure, TypeOK
  <2>2. ASSUME NEW c \in Bookings, NEW addons \in AddonChoices,
               CreateBookingOrder(c, addons)
        PROVE  Announced(b)
    BY <1>5, <1>6, <2>2 DEF CreateBookingOrder
  <2>3. ASSUME NEW p \in Payments, GatewayCapture(p)
        PROVE  Announced(b)
    BY <1>5, <1>6, <2>3 DEF GatewayCapture
  <2>4. ASSUME NEW r \in Requests,
               \/ ReadBookingToFulfil(r) \/ FulfilAbort(r)
               \/ ReadBookingToRollback(r) \/ FindPendingOrder(r)
               \/ RollbackTx(r) \/ RollbackAbort(r) \/ Crash(r)
        PROVE  Announced(b)
    <3>1. UNCHANGED <<payment, insertQueue>>
      BY <2>4 DEF ReadBookingToFulfil, FulfilAbort, ReadBookingToRollback,
                  FindPendingOrder, RollbackTx, RollbackAbort, Crash
    <3>2. \A q \in Requests : request'[q].at # "send" \/ request'[q] = request[q]
      BY <2>4 DEF ReadBookingToFulfil, FulfilAbort, ReadBookingToRollback,
                  FindPendingOrder, RollbackTx, RollbackAbort, Crash, GoTo,
                  Answer, Idle, TypeOK, Request
    <3>3. QED
      BY <1>5, <1>6, <3>1, <3>2
  <2>5. CASE UNCHANGED vars
    BY <1>5, <1>6, <2>5 DEF vars
  <2>6. ASSUME NEW k \in Bookings, SubmitKyc(k)
        PROVE  Announced(b)
    BY <1>5, <1>6, <2>6 DEF SubmitKyc
  <2>7. QED
    BY <1>1, <1>2, <1>3, <1>4, <1>6, <2>1, <2>2, <2>3, <2>4, <2>5, <2>6
    DEF Next, Step
<1>7. QED
  BY <1>6, NeverPendingAgain DEF SentAfterCommit

\* eZee is told about a booking after the commit that confirms it, never
\* before.
THEOREM SentOnlyAfterCommit == Spec => []SentAfterCommit
<1>1. Init => SentAfterCommit
  BY DEF Init, SentAfterCommit, Idle
<1>2. Inv /\ SentAfterCommit /\ [Next]_vars => SentAfterCommit'
  BY SentStep
<1>3. QED
  BY <1>1, <1>2, InvHolds, PTL DEF Spec
-----------------------------------------------------------------------------
(* Reservations and sales against addon orders, counted unit by unit. *)

\* The units that the orders of all bookings but b ask for.
OthersIn(o, b, product, status) ==
    UNION {{c} \X (1..o[c].qty[product]) :
              c \in {d \in Bookings \ {b} : o[d].status = status}}

\* A booking's order asks for as many units as its quantity says, and the
\* rest is asked for by the others.
LEMMA SplitUnits ==
    ASSUME NEW o \in [Bookings -> Order], NEW b \in Bookings,
           NEW product \in Products, NEW status
    PROVE  /\ Cardinality(OthersIn(o, b, product, status)) \in Nat
           /\ Cardinality(UnitsIn(o, product, status)) =
                 Cardinality(OthersIn(o, b, product, status)) +
                 (IF o[b].status = status THEN o[b].qty[product] ELSE 0)
<1> DEFINE Own(c) == {c} \X (1..o[c].qty[product])
           Others == OthersIn(o, b, product, status)
<1>1. \A c \in Bookings : o[c].qty[product] \in Nat
  BY DEF Order
<1>2. ASSUME NEW c \in Bookings
      PROVE  IsFiniteSet(Own(c)) /\ Cardinality(Own(c)) = o[c].qty[product]
  <2> DEFINE n == o[c].qty[product]
  <2>1. n \in Nat
    BY <1>1
  <2>2. IsFiniteSet({c}) /\ Cardinality({c}) = 1
    BY FS_Singleton
  <2> HIDE DEF n
  <2>3. IsFiniteSet(1..n) /\ Cardinality(1..n) = n
    BY <2>1, FS_Interval
  <2>4. /\ IsFiniteSet({c} \X (1..n))
        /\ Cardinality({c} \X (1..n)) = Cardinality({c}) * Cardinality(1..n)
    BY <2>2, <2>3, FS_Product
  <2>5. Cardinality({c} \X (1..n)) = n
    BY <2>1, <2>2, <2>3, <2>4
  <2>6. QED
    BY <2>4, <2>5 DEF n
<1>3. IsFiniteSet(Others)
  <2> DEFINE D == {d \in Bookings \ {b} : o[d].status = status}
  <2>1. IsFiniteSet(D)
    BY BookingsAssumption, FS_Subset
  <2>2. IsFiniteSet({Own(c) : c \in D})
    <3> DEFINE f == [c \in D |-> Own(c)]
    <3>1. f \in Surjection(D, {Own(c) : c \in D})
      BY DEF Surjection
    <3>2. QED
      BY <2>1, <3>1, FS_Surjection
  <2>3. \A T \in {Own(c) : c \in D} : IsFiniteSet(T)
    BY <1>2
  <2>4. QED
    BY <2>2, <2>3, FS_UNION DEF OthersIn
<1>4. Cardinality(Others) \in Nat
  BY <1>3, FS_CardinalityType
<1>5. CASE o[b].status = status
  <2>1. UnitsIn(o, product, status) = Others \cup Own(b)
    BY <1>5 DEF UnitsIn, OthersIn
  <2>2. Others \cap Own(b) = {}
    BY DEF OthersIn
  <2>3. Cardinality(UnitsIn(o, product, status)) =
            Cardinality(Others) + Cardinality(Own(b)) - Cardinality({})
    BY <1>2, <1>3, <2>1, <2>2, FS_Union
  <2>4. QED
    BY <1>1, <1>2, <1>4, <1>5, <2>3, FS_EmptySet
<1>6. CASE o[b].status # status
  <2>1. UnitsIn(o, product, status) = Others
    BY <1>6 DEF UnitsIn, OthersIn
  <2>2. QED
    BY <1>4, <1>6, <2>1
<1>7. QED
  BY <1>4, <1>5, <1>6

\* When one order changes, the units asked for change by its share alone.
LEMMA OneOrderChanges ==
    ASSUME NEW o \in [Bookings -> Order], NEW o2 \in [Bookings -> Order],
           NEW b \in Bookings, \A c \in Bookings \ {b} : o2[c] = o[c],
           NEW product \in Products, NEW status
    PROVE  /\ Cardinality(UnitsIn(o, product, status)) \in Int
           /\ Cardinality(UnitsIn(o2, product, status)) =
                 Cardinality(UnitsIn(o, product, status))
                 - (IF o[b].status = status THEN o[b].qty[product] ELSE 0)
                 + (IF o2[b].status = status THEN o2[b].qty[product] ELSE 0)
<1> DEFINE others == Cardinality(OthersIn(o, b, product, status))
<1>1. OthersIn(o2, b, product, status) = OthersIn(o, b, product, status)
  BY DEF OthersIn
<1>2. /\ others \in Nat
      /\ Cardinality(UnitsIn(o, product, status)) =
            others + (IF o[b].status = status THEN o[b].qty[product] ELSE 0)
  BY SplitUnits
<1>3. Cardinality(UnitsIn(o2, product, status)) =
          Cardinality(OthersIn(o2, b, product, status))
          + (IF o2[b].status = status THEN o2[b].qty[product] ELSE 0)
  BY SplitUnits
<1>4. o[b].qty[product] \in Nat /\ o2[b].qty[product] \in Nat
  BY DEF Order
<1> HIDE DEF others
<1>5. Cardinality(UnitsIn(o2, product, status)) =
          others + (IF o2[b].status = status THEN o2[b].qty[product] ELSE 0)
  BY <1>1, <1>3 DEF others
<1>6. QED
  BY <1>2, <1>4, <1>5

\* A rollback that overlaps a confirmation may release too much, but no step
\* leaves a unit reserved for nobody, or sells one twice.
LEMMA LeakStep ==
    ASSUME Inv, NoLeakedReservation, [Next]_vars
    PROVE  NoLeakedReservation'
<1> DEFINE Asked(o, product, status) == Cardinality(UnitsIn(o, product, status))
<1>0. /\ order \in [Bookings -> Order] /\ order' \in [Bookings -> Order]
      /\ \A product \in Products :
            /\ stock[product] \in Row
            /\ stock[product]["reserved"] \in Int /\ stock[product]["sold"] \in Int
            /\ stock[product]["reserved"] <= Asked(order, product, "PENDING")
            /\ stock[product]["sold"] >= Asked(order, product, "PAID")
  BY TypeStep DEF Inv, TypeOK, NoLeakedReservation, Units, Row, Counters, Places
<1>a. SUFFICES ASSUME NEW product \in Products
               PROVE  /\ stock'[product]["reserved"] <= Asked(order', product, "PENDING")
                      /\ stock'[product]["sold"] >= Asked(order', product, "PAID")
  BY DEF NoLeakedReservation, Units
<1>b. /\ Asked(order, product, "PENDING") \in Int \/ Bookings = {}
      /\ Asked(order, product, "PAID") \in Int \/ Bookings = {}
  BY <1>0, OneOrderChanges
<1> HIDE DEF Asked
<1>1. ASSUME NEW b \in Bookings, NEW addons \in AddonChoices,
             CreateBookingOrder(b, addons)
      PROVE  /\ stock'[product]["reserved"] <= Asked(order', product, "PENDING")
             /\ stock'[product]["sold"] >= Asked(order', product, "PAID")
  <2> DEFINE q == addons.qty[product]
  <2>1. /\ order[b].status = "none" /\ order'[b] = addons
        /\ \A c \in Bookings \ {b} : order'[c] = order[c]
        /\ stock'[product] = Move(stock[product], "available", "reserved", q)
    BY <1>1 DEF CreateBookingOrder, MoveAll, Inv, TypeOK, RequestsStaySound,
                ReferencesExist
  <2>2. /\ q \in Nat
        /\ \/ addons.status = "PENDING"
           \/ addons.status = "none" /\ q = 0
    BY AddonChoicesAreOrders DEF AddonChoices, NoOrder, Nothing, Order
  <2>3. /\ stock'[product]["reserved"] = stock[product]["reserved"] + q
        /\ stock'[product]["sold"] = stock[product]["sold"]
    BY <1>0, <2>1, <2>2 DEF Move, Row, Counters, Places
  <2>4. /\ Asked(order', product, "PENDING") = Asked(order, product, "PENDING") + q
        /\ Asked(order', product, "PAID") = Asked(order, product, "PAID")
    BY <1>0, <1>b, <2>1, <2>2, OneOrderChanges DEF Asked
  <2> HIDE DEF q
  <2>5. QED
    BY <1>0, <1>b, <2>2, <2>3, <2>4
<1>2. ASSUME NEW r \in Requests, FulfilTx(r)
      PROVE  /\ stock'[product]["reserved"] <= Asked(order', product, "PENDING")
             /\ stock'[product]["sold"] >= Asked(order', product, "PAID")
  <2> DEFINE b == BookingOf(r)
             q == order[b].qty[product]
  <2>1. b \in Bookings
    BY <1>2, BookingOfType DEF FulfilTx, Inv
  <2>2. /\ \A c \in Bookings \ {b} : order'[c] = order[c]
        /\ order'[b].qty = order[b].qty
        /\ order'[b].status =
              IF order[b].status = "PENDING" THEN "PAID" ELSE order[b].status
    BY <1>2, <2>1, <1>0 DEF FulfilTx, Order
  <2>3. q \in Nat
    BY <1>0, <2>1 DEF Order
  <2>4. CASE order[b].status = "PENDING"
    <3>1. stock'[product] = Move(stock[product], "reserved", "sold", q)
      BY <1>2, <2>4 DEF FulfilTx, SoldStock, MoveAll
    <3>2. /\ stock'[product]["reserved"] = stock[product]["reserved"] - q
          /\ stock'[product]["sold"] = stock[product]["sold"] + q
      BY <1>0, <2>3, <3>1 DEF Move, Row, Counters, Places
    <3>3. /\ Asked(order', product, "PENDING") = Asked(order, product, "PENDING") - q
          /\ Asked(order', product, "PAID") = Asked(order, product, "PAID") + q
      BY <1>0, <1>b, <2>1, <2>2, <2>3, <2>4, OneOrderChanges DEF Asked
    <3> HIDE DEF q
    <3>4. QED
      BY <1>0, <1>b, <2>1, <2>3, <3>2, <3>3
  <2>5. CASE order[b].status # "PENDING"
    <3>1. stock' = stock
      BY <1>2, <2>5 DEF FulfilTx, SoldStock
    <3>2. order' = order
      BY <1>2, <2>5, <2>1, <1>0 DEF FulfilTx, Order
    <3>3. QED
      BY <1>0, <3>1, <3>2
  <2>6. QED
    BY <2>4, <2>5
<1>3. ASSUME NEW r \in Requests, RollbackTx(r)
      PROVE  /\ stock'[product]["reserved"] <= Asked(order', product, "PENDING")
             /\ stock'[product]["sold"] >= Asked(order', product, "PAID")
  <2> DEFINE b == BookingOf(r)
             q == request[r].saw.qty[product]
  <2>1. b \in Bookings
    BY <1>3, BookingOfType DEF RollbackTx, Inv
  <2>2. CASE request[r].saw.status = "PENDING"
    <3>1. /\ order[b].status # "none" /\ order[b].qty[product] = q
          /\ order' = [order EXCEPT ![b] = NoOrder]
          /\ stock'[product] = Move(stock[product], "reserved", "available", q)
      BY <1>3, <2>2 DEF RollbackTx, RollbackPossible, ReleasedStock, MoveAll,
                        Inv, RequestsStaySound, SoundRequest
    <3>2. q \in Nat /\ order[b].status \in {"PENDING", "PAID"}
      BY <1>0, <2>1, <3>1 DEF Order
    <3>3. /\ stock'[product]["reserved"] = stock[product]["reserved"] - q
          /\ stock'[product]["sold"] = stock[product]["sold"]
      BY <1>0, <3>1, <3>2 DEF Move, Row, Counters, Places
    <3>4. /\ \A c \in Bookings \ {b} : order'[c] = order[c]
          /\ order'[b].status = "none"
      BY <1>0, <2>1, <3>1 DEF NoOrder
    <3> HIDE DEF q
    <3>5. ASSUME NEW status \in {"PENDING", "PAID"}
          PROVE  Asked(order', product, status) = Asked(order, product, status)
                     - (IF order[b].status = status THEN q ELSE 0)
      <4>1. Cardinality(UnitsIn(order', product, status)) =
                Cardinality(UnitsIn(order, product, status))
                - (IF order[b].status = status THEN order[b].qty[product] ELSE 0)
                + (IF order'[b].status = status THEN order'[b].qty[product] ELSE 0)
        BY <1>0, <2>1, <3>4, OneOrderChanges
      <4>2. Asked(order, product, status) \in Int
        BY <1>b, <2>1
      <4>3. QED
        BY <3>1, <3>2, <3>4, <4>1, <4>2 DEF Asked
    <3>6. QED
      BY <1>0, <1>b, <2>1, <3>2, <3>3, <3>5
  <2>3. CASE request[r].saw.status # "PENDING"
    BY <1>0, <1>3, <2>3 DEF RollbackTx, ReleasedStock
  <2>4. QED
    BY <2>2, <2>3
<1>4. CASE UNCHANGED <<stock, order>>
  BY <1>0, <1>4
<1>5. QED
  BY <1>1, <1>2, <1>3, <1>4
  DEF Next, vars, Step, CreateBookingPayment, SubmitKyc, GatewayCapture, StartFulfil,
      StartFailure, ReadBookingToFulfil, CaptureOnly, FulfilAbort,
      SendInsertBooking, MarkFailed, ReadBookingToRollback, FindPendingOrder,
      RollbackAbort, Crash

\* No interleaving leaves a unit reserved for an order that is gone, or counts
\* fewer sales than paid orders ask for.
THEOREM NothingLeaks == Spec => []NoLeakedReservation
<1>1. Init => NoLeakedReservation
  <2> SUFFICES ASSUME Init, NEW product \in Products
               PROVE  /\ stock[product]["reserved"] <=
                            Cardinality(UnitsIn(order, product, "PENDING"))
                      /\ stock[product]["sold"] >=
                            Cardinality(UnitsIn(order, product, "PAID"))
    BY DEF NoLeakedReservation, Units
  <2>1. /\ UnitsIn(order, product, "PENDING") = {}
        /\ UnitsIn(order, product, "PAID") = {}
    BY DEF Init, NoOrder, UnitsIn
  <2>2. stock[product]["reserved"] = 0 /\ stock[product]["sold"] = 0
    BY DEF Init, NewRow, Counters, Places
  <2>3. QED
    BY <2>1, <2>2, FS_EmptySet
<1>2. Inv /\ NoLeakedReservation /\ [Next]_vars => NoLeakedReservation'
  BY LeakStep
<1>3. QED
  BY <1>1, <1>2, InvHolds, PTL DEF Spec
-----------------------------------------------------------------------------
(* BookingPayment implements StockLedger. *)

\* A basket that leaves no counter negative is a transfer of the ledger.
LEMMA MoveAllIsTransfer ==
    ASSUME TypeOK, NEW from \in Places, NEW to \in Places, from # to,
           NEW qty \in [Products -> Nat], stock' = MoveAll(from, to, qty),
           \A product \in Products : Legal(stock'[product])
    PROVE  Ledger!Transfer(from, to)
<1>1. stock' \in [Products -> Row]
  BY MoveAllType
<1>2. ASSUME NEW product \in Products
      PROVE  \E q \in 0..stock[product][from] :
                 stock'[product] = Move(stock[product], from, to, q)
  <2>1. stock'[product] = Move(stock[product], from, to, qty[product])
    BY DEF MoveAll
  <2>2. qty[product] \in Nat /\ stock[product] \in Row /\ stock[product][from] \in Int
    BY DEF TypeOK, Row, Counters
  <2>3. stock'[product][from] = stock[product][from] - qty[product]
    BY <2>1, <2>2 DEF Move, Row, Counters
  <2>4. stock'[product][from] >= 0
    BY DEF Legal
  <2>5. qty[product] \in 0..stock[product][from]
    BY <2>2, <2>3, <2>4
  <2>6. QED
    BY <2>1, <2>5
<1>3. QED
  BY <1>1, <1>2
  DEF Ledger!Transfer, Ledger!Move, Move, Ledger!Row, Row, Ledger!Counters,
      Counters, Ledger!Places, Places

LEMMA LedgerStep ==
    ASSUME Inv, StockConserved, [Next]_vars
    PROVE  [Ledger!Next]_stock
<1> USE DEF Inv
<1>0. /\ \A product \in Products : Legal(stock'[product])
      /\ "available" \in Ledger!Places /\ "reserved" \in Ledger!Places
      /\ "sold" \in Ledger!Places
  BY StockStep DEF StockConserved, Ledger!Places
<1>1. ASSUME NEW b \in Bookings, NEW addons \in AddonChoices,
             CreateBookingOrder(b, addons)
      PROVE  Ledger!Next
  <2>1. addons.qty \in [Products -> Nat]
    BY AddonChoicesAreOrders DEF Order
  <2>2. stock' = MoveAll("available", "reserved", addons.qty)
    BY <1>1 DEF CreateBookingOrder
  <2>3. Ledger!Transfer("available", "reserved")
    BY <1>0, <2>1, <2>2, MoveAllIsTransfer, PlacesAre
  <2>4. QED
    BY <1>0, <2>3 DEF Ledger!Next
<1>2. ASSUME NEW r \in Requests, FulfilTx(r)
      PROVE  Ledger!Next \/ stock' = stock
  <2> DEFINE b == BookingOf(r)
  <2>1. order[b].qty \in [Products -> Nat]
    BY <1>2, BookingOfType DEF FulfilTx, TypeOK, Order
  <2>2. CASE order[b].status = "PENDING"
    <3>1. stock' = MoveAll("reserved", "sold", order[b].qty)
      BY <1>2, <2>2 DEF FulfilTx, SoldStock
    <3>2. Ledger!Transfer("reserved", "sold")
      BY <1>0, <2>1, <3>1, MoveAllIsTransfer, PlacesAre
    <3>3. QED
      BY <1>0, <3>2 DEF Ledger!Next
  <2>3. CASE order[b].status # "PENDING"
    BY <1>2, <2>3 DEF FulfilTx, SoldStock
  <2>4. QED
    BY <2>2, <2>3
<1>3. ASSUME NEW r \in Requests, RollbackTx(r)
      PROVE  Ledger!Next \/ stock' = stock
  <2>1. request[r].saw.qty \in [Products -> Nat]
    BY DEF TypeOK, Request, Order
  <2>2. CASE request[r].saw.status = "PENDING"
    <3>1. stock' = MoveAll("reserved", "available", request[r].saw.qty)
      BY <1>3, <2>2 DEF RollbackTx, ReleasedStock
    <3>2. Ledger!Transfer("reserved", "available")
      BY <1>0, <2>1, <3>1, MoveAllIsTransfer, PlacesAre
    <3>3. QED
      BY <1>0, <3>2 DEF Ledger!Next
  <2>3. CASE request[r].saw.status # "PENDING"
    BY <1>3, <2>3 DEF RollbackTx, ReleasedStock
  <2>4. QED
    BY <2>2, <2>3
<1>4. CASE UNCHANGED stock
  BY <1>4
<1>5. QED
  BY <1>1, <1>2, <1>3, <1>4
  DEF Next, vars, Step, CreateBookingPayment, SubmitKyc, GatewayCapture, StartFulfil,
      StartFailure, ReadBookingToFulfil, CaptureOnly, FulfilAbort,
      SendInsertBooking, MarkFailed, ReadBookingToRollback, FindPendingOrder,
      RollbackAbort, Crash

\* The inventory that checkouts, payments and failures leave behind is one
\* that StockLedger allows, step by step.
THEOREM ImplementsLedger == Spec => KeepsLedger
<1>1. Init => Ledger!Init
  BY DEF Init, Ledger!Init, NewRow, Ledger!NewRow, Counters, Ledger!Counters,
         Places, Ledger!Places
<1>2. Inv /\ StockConserved /\ [Next]_vars => [Ledger!Next]_stock
  BY LedgerStep
<1>3. QED
  BY <1>1, <1>2, InvHolds, StockIsConserved, PTL DEF Spec, KeepsLedger, Ledger!Spec
-----------------------------------------------------------------------------
(* What follows from StockLedger alone, hence for every implementation.    *)

\* The counters of a row add up to its total, and no place is overdrawn.
RowsAreSafe ==
    /\ stock \in [Products -> Row]
    /\ \A product \in Products :
          /\ Conserved(stock[product])
          /\ \A place \in Places : stock[product][place] >= 0

\* The ledger is about the same rows.
LEMMA SameRows ==
    /\ Ledger!Places = Places /\ Ledger!Row = Row
    /\ \A row, from, to, q : /\ Ledger!Move(row, from, to, q) = Move(row, from, to, q)
                             /\ Ledger!Restocked(row, q) = Restocked(row, q)
                             /\ Ledger!WrittenOff(row, from, q) = WrittenOff(row, from, q)
BY DEF Ledger!Places, Places, Ledger!Row, Row, Ledger!Counters, Counters,
       Ledger!Move, Move, Ledger!Restocked, Restocked, Ledger!WrittenOff, WrittenOff

LEMMA TransferIsSafe ==
    ASSUME RowsAreSafe, NEW from \in Places, NEW to \in Places,
           Ledger!Transfer(from, to)
    PROVE  RowsAreSafe'
<1>1. stock' \in [Products -> Row] /\ from # to
  BY SameRows DEF Ledger!Transfer
<1>2. ASSUME NEW product \in Products
      PROVE  /\ Conserved(stock'[product])
             /\ \A place \in Places : stock'[product][place] >= 0
  <2>1. PICK q \in 0..stock[product][from] :
            stock'[product] = Move(stock[product], from, to, q)
    BY SameRows DEF Ledger!Transfer
  <2>2. /\ stock[product] \in Row /\ Conserved(stock[product])
        /\ \A place \in Places : stock[product][place] >= 0
    BY DEF RowsAreSafe
  <2>3. QED
    BY <1>1, <2>1, <2>2 DEF Move, Conserved, Row, Counters, Places
<1>3. QED
  BY <1>1, <1>2 DEF RowsAreSafe

LEMMA RestockIsSafe ==
    ASSUME RowsAreSafe, NEW product \in Products, Ledger!Restock(product)
    PROVE  RowsAreSafe'
<1> DEFINE q == Ledger!Arrived(product)
<1>1. q \in Nat /\ stock' = [stock EXCEPT ![product] = Restocked(@, q)]
  BY SameRows DEF Ledger!Restock
<1> HIDE DEF q
<1>2. QED
  BY <1>1 DEF RowsAreSafe, Restocked, Conserved, Row, Counters, Places

LEMMA WriteOffIsSafe ==
    ASSUME RowsAreSafe, NEW product \in Products, NEW from \in Places,
           Ledger!WriteOff(product, from)
    PROVE  RowsAreSafe'
<1> DEFINE q == -Ledger!Arrived(product)
<1>1. /\ q \in 0..stock[product][from]
      /\ stock' = [stock EXCEPT ![product] = WrittenOff(@, from, q)]
  BY SameRows DEF Ledger!WriteOff
<1> HIDE DEF q
<1>2. QED
  BY <1>1 DEF RowsAreSafe, WrittenOff, Conserved, Row, Counters, Places

\* Every implementation of the ledger, this one like the lending desk and the
\* store, conserves units and overdraws nothing.
THEOREM LedgerIsSafe == KeepsLedger => []RowsAreSafe
<1>1. Ledger!Init => RowsAreSafe
  BY SameRows, InitialStockAssumption DEF Ledger!Init, RowsAreSafe, Ledger!NewRow,
     Ledger!Counters, Conserved, Row, Counters, Places
<1>2. RowsAreSafe /\ [Ledger!Next]_stock => RowsAreSafe'
  <2> SUFFICES ASSUME RowsAreSafe, [Ledger!Next]_stock PROVE RowsAreSafe'
    OBVIOUS
  <2>1. CASE UNCHANGED stock
    BY <2>1 DEF RowsAreSafe
  <2>2. QED
    BY <2>1, SameRows, TransferIsSafe, RestockIsSafe, WriteOffIsSafe DEF Ledger!Next
<1>3. QED
  BY <1>1, <1>2, PTL DEF KeepsLedger, Ledger!Spec
=============================================================================
