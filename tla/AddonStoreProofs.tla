-------------------------- MODULE AddonStoreProofs --------------------------
(***************************************************************************)
(* Proofs about AddonStore, for every number of stays, orders, item rows,  *)
(* payments, products and overlapping calls.                               *)
(***************************************************************************)
EXTENDS AddonStore, FiniteSetTheorems, TLAPS

Decided == {"PAID", "FAILED_STOCK"}

\* What orders and payments say of each other: a link is never written before
\* its payment exists, and a payment knows the order it was opened for.
LinksAgree ==
    /\ \A o \in Orders : order[o].payment # NoPayment =>
          /\ payment[order[o].payment].status # "none"
          /\ payment[order[o].payment].order = o
    /\ \A p \in Payments :
          payment[p].status # "none" => payment[p].order \in Orders
    /\ \A p \in paid : payment[p].status # "none"

\* What a running call goes by still exists, and a call that is about to sell
\* has a payment of that order in its hands whose money was captured.
SoundCall(c) ==
    /\ call[c].at \in {"find_item", "create_item", "unlink", "open", "fulfil_tx",
                       "charge"} => call[c].order \in Orders
    /\ call[c].at \in {"mark_failed", "unlink_failed"} =>
          /\ call[c].payment \in Payments
          /\ payment[call[c].payment].status # "none"
    /\ call[c].at = "fulfil_tx" =>
          call[c].payment \in paid /\ payment[call[c].payment].order = call[c].order
    /\ call[c].at = "charge" => order[call[c].order].status \in Decided

\* The inductive invariant.
Inv ==
    /\ TypeOK
    /\ LinksAgree
    /\ \A c \in Calls : SoundCall(c)
    /\ HonouredWasPaid
    /\ CapturedIsDecided
-----------------------------------------------------------------------------
(* Types. *)

LEMMA IdleIsCall == Idle \in Call
BY DEF Idle, Call, Steps, Blank, ItemRow

LEMMA SnapshotType ==
    ASSUME TypeOK, NEW o PROVE Snapshot(o) \in [Items -> ItemRow]
BY DEF TypeOK, Snapshot, Blank, ItemRow

\* The rows that ask for units of a product are finitely many, so the units
\* asked for are a number.
LEMMA AskedType ==
    ASSUME TypeOK, NEW c \in Calls, NEW product \in Products
    PROVE  Asked(c, product) \in Nat
<1> DEFINE rows == call[c].saw
           of == {i \in Seen(c) : rows[i].product = product}
           Own(i) == {i} \X (1..rows[i].qty)
<1>1. IsFiniteSet(of)
  BY ItemsAssumption, FS_Subset DEF Seen
<1>2. ASSUME NEW i \in of
      PROVE  IsFiniteSet(Own(i))
  <2>1. rows[i].qty \in Nat
    BY DEF TypeOK, Call, ItemRow, Seen
  <2>2. IsFiniteSet(1..rows[i].qty)
    BY <2>1, FS_Interval
  <2>3. IsFiniteSet({i})
    BY FS_Singleton
  <2>4. QED
    BY <2>2, <2>3, FS_Product
<1>3. IsFiniteSet({Own(i) : i \in of})
  <2> DEFINE f == [i \in of |-> Own(i)]
  <2>1. f \in Surjection(of, {Own(i) : i \in of})
    BY DEF Surjection
  <2>2. QED
    BY <1>1, <2>1, FS_Surjection
<1>4. \A T \in {Own(i) : i \in of} : IsFiniteSet(T)
  BY <1>2
<1>5. IsFiniteSet(UNION {Own(i) : i \in of})
  BY <1>3, <1>4, FS_UNION
<1>6. Asked(c, product) = Cardinality(UNION {Own(i) : i \in of})
  BY DEF Asked, UnitsIn
<1>7. QED
  BY <1>5, <1>6, FS_CardinalityType

LEMMA SoldStockType ==
    ASSUME TypeOK, NEW c \in Calls
    PROVE  SoldStock(c) \in [Products -> Row]
BY AskedType DEF SoldStock, TypeOK, Move, Row, Counters, Places

LEMMA InitInv == Init => Inv
<1> SUFFICES ASSUME Init PROVE Inv
  OBVIOUS
<1>1. stock \in [Products -> Row]
  BY InitialStockAssumption DEF Init, NewRow, Row, Counters, Places
<1>2. TypeOK
  BY <1>1, IdleIsCall DEF Init, TypeOK, OrderRow, Blank, ItemRow, PaymentRow
<1>3. LinksAgree /\ \A c \in Calls : SoundCall(c)
  BY DEF Init, LinksAgree, SoundCall, Idle
<1>4. HonouredWasPaid /\ CapturedIsDecided
  BY DEF Init, HonouredWasPaid, CapturedIsDecided
<1>5. QED
  BY <1>2, <1>3, <1>4 DEF Inv
-----------------------------------------------------------------------------
\* Types, action by action.
LEMMA TypeStep ==
    ASSUME Inv, [Next]_vars
    PROVE  TypeOK'
<1>0. /\ TypeOK /\ \A c \in Calls : SoundCall(c)
      /\ Idle \in Call /\ \A o : Snapshot(o) \in [Items -> ItemRow]
  BY IdleIsCall, SnapshotType DEF Inv
<1> DEFINE Unmoved == UNCHANGED <<stock, order, item, payment, paid, charged>>
<1>a. ASSUME NEW c \in Calls, NEW as \in Call, Begin(c, as), Unmoved
      PROVE  TypeOK'
  BY <1>0, <1>a DEF Begin, TypeOK
<1>b. \A q \in 1..MaxQuantity : q \in Nat
  BY BoundsAssumption
<1>1. ASSUME NEW c \in Calls, Edit(c)
      PROVE  TypeOK'
  <2>1. ASSUME NEW stay \in Stays, NEW product \in Products,
               NEW q \in 1..MaxQuantity, StartAdd(c, stay, product, q)
        PROVE  TypeOK'
    <3>1. [Idle EXCEPT !.at = "find_cart", !.stay = stay, !.product = product,
                       !.qty = q] \in Call
      BY <1>0, <1>b DEF Call, Steps
    <3>2. QED
      BY <1>a, <2>1, <3>1 DEF StartAdd
  <2>2. ASSUME NEW i \in Items, StartRemove(c, i)
        PROVE  TypeOK'
    <3>1. [Idle EXCEPT !.at = "delete_item", !.item = i] \in Call
      BY <1>0 DEF Call, Steps
    <3>2. QED
      BY <1>a, <2>2, <3>1 DEF StartRemove
  <2>3. ASSUME NEW i \in Items, NEW q \in 1..MaxQuantity, StartUpdate(c, i, q)
        PROVE  TypeOK'
    <3>1. [Idle EXCEPT !.at = "write_item", !.item = i, !.qty = q] \in Call
      BY <1>0, <1>b DEF Call, Steps
    <3>2. QED
      BY <1>a, <2>3, <3>1 DEF StartUpdate
  <2>4. QED
    BY <1>1, <2>1, <2>2, <2>3 DEF Edit
<1>2. ASSUME NEW c \in Calls, Pay(c)
      PROVE  TypeOK'
  <2>1. ASSUME NEW stay \in Stays, ReadCart(c, stay)
        PROVE  TypeOK'
    <3>1. PICK o \in Orders, at \in {"open", "unlink"} :
              /\ Begin(c, [Idle EXCEPT !.at = at, !.order = o, !.saw = Snapshot(o)])
              /\ Unmoved
      BY <2>1 DEF ReadCart, Carts
    <3>2. [Idle EXCEPT !.at = at, !.order = o, !.saw = Snapshot(o)] \in Call
      BY <1>0 DEF Call, Steps
    <3>3. QED
      BY <1>a, <3>1, <3>2
  <2>2. ASSUME NEW p \in Payments, StartFulfil(c, p)
        PROVE  TypeOK'
    <3>1. PICK o \in Orders :
              /\ Begin(c, [Idle EXCEPT !.at = "fulfil_tx", !.order = o,
                                       !.payment = p, !.saw = Snapshot(o)])
              /\ Unmoved
      BY <2>2 DEF StartFulfil
    <3>2. [Idle EXCEPT !.at = "fulfil_tx", !.order = o, !.payment = p,
                       !.saw = Snapshot(o)] \in Call
      BY <1>0 DEF Call, Steps
    <3>3. QED
      BY <1>a, <3>1, <3>2
  <2>3. ASSUME NEW p \in Payments, StartFailure(c, p)
        PROVE  TypeOK'
    <3>1. [Idle EXCEPT !.at = "mark_failed", !.payment = p] \in Call
      BY <1>0 DEF Call, Steps
    <3>2. QED
      BY <1>a, <2>3, <3>1 DEF StartFailure
  <2>4. QED
    BY <1>2, <2>1, <2>2, <2>3 DEF Pay
<1>3. ASSUME NEW c \in Calls, Step(c)
      PROVE  TypeOK'
  <2>0. call[c] \in Call /\ SoundCall(c)
    BY <1>0 DEF TypeOK
  <2>a. ASSUME NEW as \in Call, call' = [call EXCEPT ![c] = as]
        PROVE  call' \in [Calls -> Call]
    BY <1>0, <2>a DEF TypeOK
  <2>b. ASSUME NEW at \in Steps, call' = [call EXCEPT ![c].at = at]
        PROVE  call' \in [Calls -> Call]
    BY <1>0, <2>b DEF TypeOK, Call
  <2>c. ASSUME NEW o \in Orders,
               call' = [call EXCEPT ![c].at = "find_item", ![c].order = o,
                                    ![c].stay = NoStay]
        PROVE  call' \in [Calls -> Call]
    <3> DEFINE as == [call[c] EXCEPT !.at = "find_item", !.order = o,
                                     !.stay = NoStay]
    <3>1. as \in Call
      BY <2>0 DEF Call, Steps
    <3>2. call' = [call EXCEPT ![c] = as]
      BY <1>0, <2>c DEF TypeOK
    <3>3. QED
      BY <2>a, <3>1, <3>2
  <2>1. CASE FindCart(c)
    <3>1. call' \in [Calls -> Call]
      BY <2>1, <2>b, <2>c DEF FindCart, Carts, Steps
    <3>2. QED
      BY <1>0, <2>1, <3>1 DEF FindCart, TypeOK
  <2>2. CASE FindItem(c)
    <3>1. ASSUME NEW i \in Items
          PROVE  call[c].qty + item[i].qty \in Nat
      BY <1>0, <2>0 DEF TypeOK, Call, ItemRow
    <3>2. ASSUME NEW i \in Items, NEW q \in Nat
          PROVE  [Idle EXCEPT !.at = "write_item", !.item = i, !.qty = q] \in Call
      BY <1>0 DEF Call, Steps
    <3>3. call' \in [Calls -> Call]
      <4>1. CASE call' = [call EXCEPT ![c].at = "create_item"]
        BY <2>b, <4>1 DEF Steps
      <4>2. CASE \E i \in Items :
                    call' = [call EXCEPT ![c] = [Idle EXCEPT
                                !.at = "write_item", !.item = i,
                                !.qty = call[c].qty + item[i].qty]]
        BY <2>a, <3>1, <3>2, <4>2
      <4>3. QED
        BY <2>2, <4>1, <4>2 DEF FindItem, ItemsOf
    <3>4. QED
      BY <1>0, <2>2, <3>3 DEF FindItem, TypeOK
  <2>3. CASE WriteItem(c)
    <3>1. item' \in [Items -> ItemRow]
      <4>1. call[c].qty \in Nat
        BY <2>0 DEF Call
      <4>2. \A q \in Nat : \A i : [item EXCEPT ![i].qty = q] \in [Items -> ItemRow]
        BY <1>0 DEF TypeOK, ItemRow
      <4>3. QED
        BY <1>0, <2>3, <4>1, <4>2 DEF WriteItem, TypeOK
    <3>2. QED
      BY <1>0, <2>3, <3>1 DEF WriteItem, Answer, TypeOK
  <2>4. CASE DeleteItem(c)
    BY <1>0, <2>0, <2>4 DEF DeleteItem, Answer, TypeOK, Blank, ItemRow
  <2>5. ASSUME NEW o \in Orders, CreateCart(c, o)
        PROVE  TypeOK'
    <3>1. call' \in [Calls -> Call]
      BY <2>5, <2>c DEF CreateCart
    <3>2. [status |-> "PENDING", stay |-> call[c].stay, payment |-> NoPayment]
            \in OrderRow
      BY <2>0 DEF Call, OrderRow
    <3>3. QED
      BY <1>0, <2>5, <3>1, <3>2 DEF CreateCart, TypeOK
  <2>6. ASSUME NEW i \in Items, CreateItem(c, i)
        PROVE  TypeOK'
    BY <1>0, <2>0, <2>6 DEF CreateItem, Answer, TypeOK, Call, ItemRow
  <2>7. CASE Unlink(c)
    <3>1. order' \in [Orders -> OrderRow]
      BY <1>0, <2>7 DEF Unlink, TypeOK, OrderRow
    <3>2. QED
      BY <1>0, <2>7, <2>b, <3>1 DEF Unlink, TypeOK, Steps
  <2>8. CASE OpenRefused(c) \/ FulfilAbort(c)
    BY <1>0, <2>8 DEF OpenRefused, FulfilAbort, Answer, TypeOK
  <2>9. ASSUME NEW p \in Payments, OpenPayment(c, p)
        PROVE  TypeOK'
    <3>1. call[c].order \in Orders
      BY <2>0, <2>9 DEF OpenPayment, SoundCall
    <3>2. QED
      BY <1>0, <2>9, <3>1
      DEF OpenPayment, Answer, TypeOK, PaymentRow, OrderRow
  <2>10. CASE FulfilTx(c)
    <3>1. stock' \in [Products -> Row]
      BY <1>0, <2>10, SoldStockType DEF FulfilTx
    <3>2. payment' \in [Payments -> PaymentRow] /\ order' \in [Orders -> OrderRow]
      BY <1>0, <2>10 DEF FulfilTx, TypeOK, PaymentRow, OrderRow
    <3>3. call' \in [Calls -> Call]
      BY <1>0, <2>0, <2>10 DEF FulfilTx, TypeOK, Call, Steps
    <3>4. QED
      BY <1>0, <2>10, <3>1, <3>2, <3>3 DEF FulfilTx, TypeOK
  <2>11. CASE FulfilShort(c)
    BY <1>0, <2>11 DEF FulfilShort, Answer, TypeOK, PaymentRow, OrderRow
  <2>12. CASE SendCharge(c)
    BY <1>0, <2>0, <2>12 DEF SendCharge, Answer, TypeOK, SoundCall
  <2>13. CASE MarkFailed(c)
    <3>1. payment' \in [Payments -> PaymentRow]
      BY <1>0, <2>13 DEF MarkFailed, TypeOK, PaymentRow
    <3>2. QED
      BY <1>0, <2>13, <2>b, <3>1 DEF MarkFailed, TypeOK, Steps
  <2>14. CASE UnlinkFailed(c)
    BY <1>0, <2>14 DEF UnlinkFailed, Answer, TypeOK, OrderRow
  <2>15. QED
    BY <1>3, <2>1, <2>2, <2>3, <2>4, <2>5, <2>6, <2>7, <2>8, <2>9, <2>10,
       <2>11, <2>12, <2>13, <2>14 DEF Step
<1>4. ASSUME NEW c \in Calls, Crash(c)
      PROVE  TypeOK'
  BY <1>0, <1>4 DEF Crash, Answer, TypeOK
<1>5. ASSUME NEW p \in Payments, GatewayCapture(p)
      PROVE  TypeOK'
  BY <1>0, <1>5 DEF GatewayCapture, TypeOK
<1>6. ASSUME NEW product \in Products, RestockUnit(product)
      PROVE  TypeOK'
  BY <1>0, <1>6
  DEF RestockUnit, TypeOK, Restocked, Row, Counters, Places
<1>7. CASE UNCHANGED vars
  BY <1>0, <1>7 DEF vars, TypeOK
<1>8. QED
  BY <1>1, <1>2, <1>3, <1>4, <1>5, <1>6, <1>7 DEF Next
-----------------------------------------------------------------------------
\* What no step takes back: money captured, the order a payment was opened for,
\* and the fate of an order.
LEMMA NothingTakenBack ==
    ASSUME Inv, [Next]_vars
    PROVE  /\ paid \subseteq paid'
           /\ \A p \in Payments : payment[p].status # "none" =>
                 payment'[p].status # "none" /\ payment'[p].order = payment[p].order
           /\ \A o \in Orders :
                 order[o].status \in Decided => order'[o].status \in Decided
<1>0. /\ payment \in [Payments -> PaymentRow] /\ order \in [Orders -> OrderRow]
      /\ TypeOK
  BY DEF Inv, TypeOK
<1>1. paid \subseteq paid'
  BY DEF Next, vars, Edit, Pay, Step, StartAdd, StartUpdate, StartRemove, ReadCart,
         StartFulfil, StartFailure, FindCart, CreateCart, FindItem, CreateItem,
         WriteItem, DeleteItem, Unlink, OpenPayment, OpenRefused, FulfilTx,
         FulfilShort, FulfilAbort, SendCharge, MarkFailed, UnlinkFailed, Crash,
         GatewayCapture, RestockUnit
<1>2. CASE UNCHANGED payment
  <2>1. CASE UNCHANGED order
    BY <1>1, <1>2, <2>1
  <2>2. ASSUME NEW c \in Calls, NEW o \in Orders, CreateCart(c, o)
        PROVE  \A d \in Orders :
                  order[d].status \in Decided => order'[d].status \in Decided
    BY <1>0, <2>2 DEF CreateCart, Decided
  <2>3. ASSUME NEW c \in Calls, Unlink(c) \/ UnlinkFailed(c)
        PROVE  \A d \in Orders : order'[d].status = order[d].status
    BY <1>0, <2>3 DEF Unlink, UnlinkFailed, OrderRow
  <2>4. ASSUME NEW c \in Calls, FulfilTx(c) \/ FulfilShort(c)
        PROVE  \A d \in Orders :
                  order[d].status \in Decided => order'[d].status \in Decided
    BY <1>0, <2>4 DEF FulfilTx, FulfilShort, Decided, OrderRow
  <2>5. ASSUME NEW c \in Calls, NEW p \in Payments, OpenPayment(c, p)
        PROVE  \A d \in Orders : order'[d].status = order[d].status
    BY <1>0, <2>5 DEF OpenPayment, OrderRow
  <2>6. QED
    BY <1>1, <1>2, <2>1, <2>2, <2>3, <2>4, <2>5
    DEF Next, vars, Edit, Pay, Step, StartAdd, StartUpdate, StartRemove, ReadCart,
        StartFulfil, StartFailure, FindCart, FindItem, CreateItem, WriteItem,
        DeleteItem, OpenRefused, FulfilAbort, SendCharge, MarkFailed, Crash,
        GatewayCapture, RestockUnit
<1>3. ASSUME NEW c \in Calls, NEW p \in Payments, OpenPayment(c, p)
      PROVE  /\ \A d \in Payments : payment[d].status # "none" => payment'[d] = payment[d]
             /\ \A d \in Orders : order'[d].status = order[d].status
  BY <1>0, <1>3 DEF OpenPayment, OrderRow
<1>4. ASSUME NEW c \in Calls, FulfilTx(c) \/ FulfilShort(c)
      PROVE  /\ \A d \in Payments : payment[d].status # "none" =>
                   payment'[d].status # "none" /\ payment'[d].order = payment[d].order
             /\ \A d \in Orders :
                   order[d].status \in Decided => order'[d].status \in Decided
  <2>1. \E to \in {"CAPTURED", "REFUND_NEEDED"} :
           payment' = [payment EXCEPT ![call[c].payment].status = to]
    BY <1>4 DEF FulfilTx, FulfilShort
  <2>2. \E to \in Decided : order' = [order EXCEPT ![call[c].order].status = to]
    BY <1>4 DEF FulfilTx, FulfilShort, Decided
  <2>3. \A d \in Payments : payment[d].status # "none" =>
           payment'[d].status # "none" /\ payment'[d].order = payment[d].order
    BY <1>0, <2>1 DEF PaymentRow
  <2>4. QED
    BY <1>0, <2>2, <2>3 DEF OrderRow
<1>5. ASSUME NEW c \in Calls, MarkFailed(c)
      PROVE  /\ \A d \in Payments : payment[d].status # "none" =>
                   payment'[d].status # "none" /\ payment'[d].order = payment[d].order
             /\ order' = order
  BY <1>0, <1>5 DEF MarkFailed, PaymentRow
<1>6. QED
  BY <1>1, <1>2, <1>3, <1>4, <1>5
  DEF Next, vars, Edit, Pay, Step, StartAdd, StartUpdate, StartRemove, ReadCart,
      StartFulfil, StartFailure, FindCart, CreateCart, FindItem, CreateItem,
      WriteItem, DeleteItem, Unlink, OpenRefused, FulfilAbort, SendCharge,
      UnlinkFailed, Crash, GatewayCapture, RestockUnit

LEMMA LinksStep ==
    ASSUME Inv, [Next]_vars
    PROVE  LinksAgree'
<1>0. /\ TypeOK /\ LinksAgree /\ \A c \in Calls : SoundCall(c)
      /\ payment \in [Payments -> PaymentRow] /\ order \in [Orders -> OrderRow]
  BY DEF Inv, TypeOK
<1>1. \A p \in Payments : payment[p].status # "none" =>
         payment'[p].status # "none" /\ payment'[p].order = payment[p].order
  BY NothingTakenBack
\* A step that opens no payment writes no link, and makes no payment.
<1>2. ASSUME \A o \in Orders : order'[o].payment \in {order[o].payment, NoPayment},
             \A p \in Payments : payment[p].status = "none" => payment'[p] = payment[p],
             paid' = paid
      PROVE  LinksAgree'
  <2>1. ASSUME NEW o \in Orders, order'[o].payment # NoPayment
        PROVE  /\ payment'[order'[o].payment].status # "none"
               /\ payment'[order'[o].payment].order = o
    BY <1>0, <1>1, <1>2, <2>1 DEF LinksAgree, OrderRow
  <2>2. \A p \in Payments : payment'[p].status # "none" => payment'[p].order \in Orders
    BY <1>0, <1>1, <1>2 DEF LinksAgree
  <2>3. \A p \in paid' : payment'[p].status # "none"
    BY <1>0, <1>1, <1>2 DEF LinksAgree, TypeOK
  <2>4. QED
    BY <2>1, <2>2, <2>3 DEF LinksAgree
<1>3. ASSUME NEW c \in Calls, NEW p \in Payments, OpenPayment(c, p)
      PROVE  LinksAgree'
  <2>1. /\ call[c].order \in Orders /\ payment[p].status = "none"
        /\ payment' = [payment EXCEPT ![p] =
                          [status |-> "CREATED", order |-> call[c].order]]
        /\ order' = [order EXCEPT ![call[c].order].payment = p]
        /\ paid' = paid
    BY <1>0, <1>3 DEF OpenPayment, SoundCall
  <2>2. QED
    BY <1>0, <2>1 DEF LinksAgree, OrderRow, TypeOK
<1>4. ASSUME NEW p \in Payments, GatewayCapture(p)
      PROVE  LinksAgree'
  BY <1>0, <1>4 DEF GatewayCapture, LinksAgree
<1>5. ASSUME NEW c \in Calls, NEW o \in Orders, CreateCart(c, o)
      PROVE  LinksAgree'
  BY <1>0, <1>2, <1>5 DEF CreateCart
<1>6. ASSUME NEW c \in Calls,
             Unlink(c) \/ UnlinkFailed(c) \/ FulfilTx(c) \/ FulfilShort(c)
               \/ MarkFailed(c)
      PROVE  LinksAgree'
  <2>1. CASE Unlink(c) \/ UnlinkFailed(c)
    BY <1>0, <1>2, <2>1 DEF Unlink, UnlinkFailed, OrderRow
  <2>2. CASE FulfilTx(c) \/ FulfilShort(c)
    <3>1. /\ call[c].payment \in Payments /\ payment[call[c].payment].status # "none"
          /\ paid' = paid
      BY <1>0, <2>2 DEF FulfilTx, FulfilShort, SoundCall, LinksAgree, TypeOK
    <3>2. \A o \in Orders : order'[o].payment = order[o].payment
      BY <1>0, <2>2 DEF FulfilTx, FulfilShort, OrderRow
    <3>3. \A q \in Payments : payment[q].status = "none" => payment'[q] = payment[q]
      BY <1>0, <2>2, <3>1 DEF FulfilTx, FulfilShort
    <3>4. QED
      BY <1>2, <3>1, <3>2, <3>3
  <2>3. CASE MarkFailed(c)
    BY <1>0, <1>2, <2>3 DEF MarkFailed, SoundCall
  <2>4. QED
    BY <1>6, <2>1, <2>2, <2>3
<1>7. CASE UNCHANGED <<order, payment, paid>>
  BY <1>2, <1>7
<1>8. QED
  BY <1>3, <1>4, <1>5, <1>6, <1>7
  DEF Next, vars, Edit, Pay, Step, StartAdd, StartUpdate, StartRemove, ReadCart,
      StartFulfil, StartFailure, FindCart, FindItem, CreateItem, WriteItem,
      DeleteItem, OpenRefused, FulfilAbort, SendCharge, Crash, RestockUnit

\* A call relies on what no step takes back, so only its own step matters.
LEMMA CallsStep ==
    ASSUME Inv, [Next]_vars, NEW c \in Calls
    PROVE  SoundCall(c)'
<1>0. /\ TypeOK /\ LinksAgree /\ SoundCall(c)
      /\ call \in [Calls -> Call] /\ paid \subseteq Payments
  BY DEF Inv, TypeOK
<1>1. CASE call'[c] = call[c]
  <2>1. call[c].at = "charge" => call[c].order \in Orders
    BY <1>0 DEF SoundCall
  <2>2. QED
    BY <1>0, <1>1, <2>1, NothingTakenBack DEF SoundCall, LinksAgree
<1>2. CASE call'[c] = Idle
  BY <1>2 DEF SoundCall, Idle
<1>3. ASSUME Edit(c) \/ Pay(c)
      PROVE  SoundCall(c)'
  <2>1. ASSUME NEW stay \in Stays, NEW product \in Products,
               NEW q \in 1..MaxQuantity, StartAdd(c, stay, product, q)
        PROVE  call'[c].at = "find_cart"
    BY <1>0, <2>1 DEF StartAdd, Begin, Idle, Call
  <2>2. ASSUME NEW i \in Items, NEW q \in 1..MaxQuantity, StartUpdate(c, i, q)
        PROVE  call'[c].at = "write_item"
    BY <1>0, <2>2 DEF StartUpdate, Begin, Idle, Call
  <2>6. ASSUME NEW i \in Items, StartRemove(c, i)
        PROVE  call'[c].at = "delete_item"
    BY <1>0, <2>6 DEF StartRemove, Begin, Idle, Call
  <2>3. ASSUME NEW stay \in Stays, ReadCart(c, stay)
        PROVE  call'[c].at \in {"open", "unlink"} /\ call'[c].order \in Orders
    BY <1>0, <2>3 DEF ReadCart, Carts, Begin, Idle, Call
  <2>4. ASSUME NEW p \in Payments, StartFulfil(c, p)
        PROVE  SoundCall(c)'
    <3>1. PICK o \in Orders :
              /\ p \in paid /\ order[o].payment = p
              /\ call' = [call EXCEPT ![c] = [Idle EXCEPT !.at = "fulfil_tx",
                             !.order = o, !.payment = p, !.saw = Snapshot(o)]]
              /\ payment' = payment /\ paid' = paid
      BY <2>4 DEF StartFulfil, Begin
    <3>2. payment[p].order = o
      BY <1>0, <3>1, NoValueAssumption DEF LinksAgree
    <3>3. /\ call'[c].at = "fulfil_tx" /\ call'[c].order = o
          /\ call'[c].payment = p
      BY <1>0, <3>1 DEF Idle
    <3>4. QED
      BY <3>1, <3>2, <3>3 DEF SoundCall
  <2>5. ASSUME NEW p \in Payments, StartFailure(c, p)
        PROVE  SoundCall(c)'
    <3>1. call'[c].at = "mark_failed" /\ call'[c].payment = p
      BY <1>0, <2>5 DEF StartFailure, Begin, Idle
    <3>2. payment'[p].status # "none"
      BY <2>5 DEF StartFailure
    <3>3. QED
      BY <3>1, <3>2 DEF SoundCall
  <2>7. QED
    BY <1>3, <2>1, <2>2, <2>3, <2>4, <2>5, <2>6 DEF Edit, Pay, SoundCall
<1>4. ASSUME Step(c), call'[c] # Idle
      PROVE  SoundCall(c)'
  <2>0. ASSUME NEW o \in Orders,
               call' = [call EXCEPT ![c].at = "find_item", ![c].order = o,
                                    ![c].stay = NoStay]
        PROVE  SoundCall(c)'
    <3>1. call'[c].at = "find_item" /\ call'[c].order = o
      BY <1>0, <2>0 DEF Call
    <3>2. QED
      BY <3>1 DEF SoundCall
  <2>1. CASE FindCart(c) \/ \E o \in Orders : CreateCart(c, o)
    <3>1. CASE call' = [call EXCEPT ![c].at = "create_cart"]
      <4>1. call'[c].at = "create_cart"
        BY <1>0, <3>1 DEF Call
      <4>2. QED
        BY <4>1 DEF SoundCall
    <3>2. QED
      BY <2>0, <2>1, <3>1 DEF FindCart, CreateCart, Carts
  <2>2. CASE FindItem(c)
    <3>1. \/ call'[c].at = "create_item" /\ call'[c].order = call[c].order
          \/ call'[c].at = "write_item"
      BY <1>0, <2>2 DEF FindItem, Call, Idle
    <3>2. call[c].order \in Orders
      BY <1>0, <2>2 DEF FindItem, SoundCall
    <3>3. QED
      BY <3>1, <3>2 DEF SoundCall
  <2>3. CASE Unlink(c)
    <3>1. call'[c].at = "open" /\ call'[c].order = call[c].order
      BY <1>0, <2>3 DEF Unlink, Call
    <3>2. call[c].order \in Orders
      BY <1>0, <2>3 DEF Unlink, SoundCall
    <3>3. QED
      BY <3>1, <3>2 DEF SoundCall
  <2>4. CASE FulfilTx(c)
    <3>1. call'[c].at = "charge" /\ call'[c].order = call[c].order
      BY <1>0, <2>4 DEF FulfilTx, Idle
    <3>2. call[c].order \in Orders
      BY <1>0, <2>4 DEF FulfilTx, SoundCall
    <3>3. order'[call[c].order].status = "PAID"
      BY <1>0, <2>4, <3>2 DEF FulfilTx, TypeOK, OrderRow
    <3>4. QED
      BY <3>1, <3>2, <3>3 DEF SoundCall, Decided
  <2>5. CASE MarkFailed(c)
    <3>1. call'[c].at = "unlink_failed" /\ call'[c].payment = call[c].payment
      BY <1>0, <2>5 DEF MarkFailed, Call
    <3>2. call[c].payment \in Payments /\ payment[call[c].payment].status # "none"
      BY <1>0, <2>5 DEF MarkFailed, SoundCall
    <3>3. QED
      BY <3>1, <3>2, NothingTakenBack DEF SoundCall
  <2>6. ASSUME Answer(c)
        PROVE  call'[c] = Idle
    BY <1>0, <2>6 DEF Answer
  <2>7. QED
    BY <1>4, <2>1, <2>2, <2>3, <2>4, <2>5, <2>6
    DEF Step, WriteItem, DeleteItem, CreateItem, OpenRefused, OpenPayment,
        FulfilShort, FulfilAbort, SendCharge, UnlinkFailed
<1>5. ASSUME NEW d \in Calls, d # c, Edit(d) \/ Pay(d) \/ Step(d) \/ Crash(d)
      PROVE  call'[c] = call[c]
  BY <1>0, <1>5
  DEF Edit, Pay, Step, Begin, Answer, StartAdd, StartUpdate, StartRemove, ReadCart,
      StartFulfil, StartFailure, FindCart, CreateCart, FindItem, CreateItem,
      WriteItem, DeleteItem, Unlink, OpenPayment, OpenRefused, FulfilTx,
      FulfilShort, FulfilAbort, SendCharge, MarkFailed, UnlinkFailed, Crash
<1>6. CASE Crash(c)
  BY <1>0, <1>2, <1>6 DEF Crash, Answer
<1>7. CASE UNCHANGED call
  BY <1>1, <1>7
<1>8. QED
  BY <1>1, <1>2, <1>3, <1>4, <1>5, <1>6, <1>7
  DEF Next, vars, GatewayCapture, RestockUnit
-----------------------------------------------------------------------------
\* Only FulfilTx and FulfilShort decide an order, only they mark a payment
\* CAPTURED or REFUND_NEEDED, and only SendCharge charges.
LEMMA HonouredStep ==
    ASSUME Inv, [Next]_vars
    PROVE  HonouredWasPaid'
<1>0. /\ TypeOK /\ LinksAgree /\ HonouredWasPaid
      /\ \A c \in Calls : SoundCall(c)
      /\ payment \in [Payments -> PaymentRow] /\ order \in [Orders -> OrderRow]
      /\ paid \subseteq Payments /\ paid \subseteq paid'
      /\ \A p \in paid : payment'[p].order = payment[p].order
  BY NothingTakenBack DEF Inv, TypeOK, LinksAgree
<1>1. ASSUME \A o \in Orders : order'[o].status \in Decided =>
                order[o].status \in Decided \/ \E p \in paid : payment[p].order = o,
             \A o \in charged' : o \in charged \/ order[o].status \in Decided,
             \A p \in Payments : payment'[p].status \in {"CAPTURED", "REFUND_NEEDED"} =>
                payment[p].status \in {"CAPTURED", "REFUND_NEEDED"} \/ p \in paid
      PROVE  HonouredWasPaid'
  BY <1>0, <1>1 DEF HonouredWasPaid, Decided
<1>2. ASSUME NEW c \in Calls, FulfilTx(c) \/ FulfilShort(c)
      PROVE  HonouredWasPaid'
  <2> DEFINE o == call[c].order
             p == call[c].payment
  <2>1. o \in Orders /\ p \in paid /\ payment[p].order = o
    BY <1>0, <1>2 DEF FulfilTx, FulfilShort, SoundCall
  <2>2. \A d \in Orders : d # o => order'[d].status = order[d].status
    BY <1>0, <1>2 DEF FulfilTx, FulfilShort
  <2>3. \A q \in Payments : q # p => payment'[q].status = payment[q].status
    BY <1>0, <1>2 DEF FulfilTx, FulfilShort
  <2>4. charged' = charged
    BY <1>2 DEF FulfilTx, FulfilShort
  <2> HIDE DEF o, p
  <2>5. QED
    BY <1>1, <2>1, <2>2, <2>3, <2>4
<1>3. ASSUME NEW c \in Calls, SendCharge(c)
      PROVE  HonouredWasPaid'
  BY <1>0, <1>1, <1>3 DEF SendCharge, SoundCall
<1>4. ASSUME NEW c \in Calls, Unlink(c) \/ UnlinkFailed(c)
      PROVE  HonouredWasPaid'
  <2>1. \A o \in Orders : order'[o].status = order[o].status
    BY <1>0, <1>4 DEF Unlink, UnlinkFailed, OrderRow
  <2>2. QED
    BY <1>1, <1>4, <2>1 DEF Unlink, UnlinkFailed
<1>5. ASSUME NEW c \in Calls, NEW p \in Payments, OpenPayment(c, p)
      PROVE  HonouredWasPaid'
  <2>1. \A o \in Orders : order'[o].status = order[o].status
    BY <1>0, <1>5 DEF OpenPayment, OrderRow
  <2>2. \A q \in Payments : payment'[q].status \in {payment[q].status, "CREATED"}
    BY <1>0, <1>5 DEF OpenPayment
  <2>3. QED
    BY <1>1, <1>5, <2>1, <2>2 DEF OpenPayment
<1>6. ASSUME NEW c \in Calls, MarkFailed(c)
      PROVE  HonouredWasPaid'
  <2>1. \A q \in Payments : payment'[q].status \in {payment[q].status, "FAILED"}
    BY <1>0, <1>6 DEF MarkFailed, PaymentRow
  <2>2. QED
    BY <1>1, <1>6, <2>1 DEF MarkFailed
<1>7. ASSUME NEW c \in Calls, NEW o \in Orders, CreateCart(c, o)
      PROVE  HonouredWasPaid'
  <2>1. \A d \in Orders : order'[d].status \in {order[d].status, "PENDING"}
    BY <1>0, <1>7 DEF CreateCart
  <2>2. QED
    BY <1>1, <1>7, <2>1 DEF CreateCart, Decided
<1>8. CASE UNCHANGED <<order, payment, charged>>
  BY <1>1, <1>8
<1>9. QED
  BY <1>2, <1>3, <1>4, <1>5, <1>6, <1>7, <1>8
  DEF Next, vars, Edit, Pay, Step, StartAdd, StartUpdate, StartRemove, ReadCart,
      StartFulfil, StartFailure, FindCart, FindItem, CreateItem, WriteItem,
      DeleteItem, OpenRefused, FulfilAbort, Crash, GatewayCapture, RestockUnit

LEMMA DecidedStep ==
    ASSUME Inv, [Next]_vars
    PROVE  CapturedIsDecided'
<1>0. /\ TypeOK /\ LinksAgree /\ CapturedIsDecided
      /\ \A c \in Calls : SoundCall(c)
      /\ payment \in [Payments -> PaymentRow] /\ order \in [Orders -> OrderRow]
      /\ \A o \in Orders : order[o].status \in Decided => order'[o].status \in Decided
      /\ \A p \in Payments : payment[p].status # "none" =>
            payment[p].order \in Orders /\ payment'[p].order = payment[p].order
  BY NothingTakenBack DEF Inv, TypeOK, LinksAgree
<1>1. ASSUME \A p \in Payments : payment'[p].status = "CAPTURED" =>
                payment[p].status = "CAPTURED",
             \A o \in charged' : o \in charged \/ order[o].status \in Decided,
             charged' \subseteq Orders
      PROVE  CapturedIsDecided'
  BY <1>0, <1>1 DEF CapturedIsDecided, Decided
<1>2. ASSUME NEW c \in Calls, FulfilTx(c)
      PROVE  CapturedIsDecided'
  <2> DEFINE o == call[c].order
             p == call[c].payment
  <2>1. o \in Orders /\ p \in Payments /\ payment[p].order = o
        /\ payment[p].status # "none"
    BY <1>0, <1>2 DEF FulfilTx, SoundCall, LinksAgree, TypeOK
  <2>2. order'[o].status \in Decided
    BY <1>0, <1>2, <2>1 DEF FulfilTx, Decided, OrderRow
  <2>3. \A q \in Payments : q # p => payment'[q].status = payment[q].status
    BY <1>0, <1>2 DEF FulfilTx
  <2>4. charged' = charged /\ charged \subseteq Orders
    BY <1>0, <1>2 DEF FulfilTx, TypeOK
  <2> HIDE DEF o, p
  <2>5. QED
    BY <1>0, <2>1, <2>2, <2>3, <2>4 DEF CapturedIsDecided, Decided
<1>3. ASSUME NEW c \in Calls, SendCharge(c)
      PROVE  CapturedIsDecided'
  BY <1>0, <1>1, <1>3 DEF SendCharge, SoundCall, TypeOK
<1>4. ASSUME NEW c \in Calls, FulfilShort(c) \/ MarkFailed(c)
      PROVE  CapturedIsDecided'
  <2>1. \A q \in Payments :
           payment'[q].status \in {payment[q].status, "REFUND_NEEDED", "FAILED"}
    BY <1>0, <1>4 DEF FulfilShort, MarkFailed, PaymentRow
  <2>2. charged' = charged /\ charged \subseteq Orders
    BY <1>0, <1>4 DEF FulfilShort, MarkFailed, TypeOK
  <2>3. QED
    BY <1>1, <2>1, <2>2
<1>5. ASSUME NEW c \in Calls, NEW p \in Payments, OpenPayment(c, p)
      PROVE  CapturedIsDecided'
  <2>1. \A q \in Payments : payment'[q].status \in {payment[q].status, "CREATED"}
    BY <1>0, <1>5 DEF OpenPayment
  <2>2. charged' = charged /\ charged \subseteq Orders
    BY <1>0, <1>5 DEF OpenPayment, TypeOK
  <2>3. QED
    BY <1>1, <2>1, <2>2
<1>6. CASE UNCHANGED <<payment, charged>>
  BY <1>0, <1>1, <1>6 DEF TypeOK
<1>7. QED
  BY <1>2, <1>3, <1>4, <1>5, <1>6
  DEF Next, vars, Edit, Pay, Step, StartAdd, StartUpdate, StartRemove, ReadCart,
      StartFulfil, StartFailure, FindCart, CreateCart, FindItem, CreateItem,
      WriteItem, DeleteItem, Unlink, OpenRefused, FulfilAbort, UnlinkFailed, Crash,
      GatewayCapture, RestockUnit

LEMMA InvHolds == Spec => []Inv
<1>1. Inv /\ [Next]_vars => Inv'
  BY TypeStep, LinksStep, CallsStep, HonouredStep, DecidedStep DEF Inv
<1>2. QED
  BY <1>1, InitInv, PTL DEF Spec

\* Every table, link and running call keeps its shape.
THEOREM TypeCorrect == Spec => []TypeOK
<1>1. Inv => TypeOK
  BY DEF Inv
<1>2. QED
  BY <1>1, InvHolds, PTL

\* Goods, refunds and charges in eZee are only for captured money.
THEOREM HonouredIsPaid == Spec => []HonouredWasPaid
<1>1. Inv => HonouredWasPaid
  BY DEF Inv
<1>2. QED
  BY <1>1, InvHolds, PTL

\* A capture is marked together with the fate of its order.
THEOREM CapturedDecides == Spec => []CapturedIsDecided
<1>1. Inv => CapturedIsDecided
  BY DEF Inv
<1>2. QED
  BY <1>1, InvHolds, PTL
-----------------------------------------------------------------------------
(* The refinement of StockLedger. *)

\* A sale that the CHECK constraints accept takes no more than there is.
LEMMA SaleIsTransfer ==
    ASSUME TypeOK, TypeOK', NEW c \in Calls, FulfilTx(c)
    PROVE  Ledger!Transfer("available", "sold")
<1>1. stock' \in [Products -> Row]
  BY DEF TypeOK
<1>2. ASSUME NEW product \in Products
      PROVE  \E q \in 0..stock[product]["available"] :
                stock'[product] = Move(stock[product], "available", "sold", q)
  <2> DEFINE q == Asked(c, product)
  <2>1. q \in Nat
    BY AskedType
  <2>2. stock'[product] = Move(stock[product], "available", "sold", q)
    BY DEF FulfilTx, SoldStock
  <2>3. stock'[product]["available"] >= 0
    BY DEF FulfilTx, Accepted, Legal, Places
  <2> HIDE DEF q
  <2>4. /\ stock[product]["available"] \in Int
        /\ stock'[product]["available"] = stock[product]["available"] - q
    BY <2>1, <2>2 DEF TypeOK, Move, Row, Counters, Places
  <2>5. q \in 0..stock[product]["available"]
    BY <2>1, <2>3, <2>4
  <2>6. QED
    BY <2>2, <2>5
<1>3. QED
  BY <1>1, <1>2
  DEF Ledger!Transfer, Ledger!Move, Move, Ledger!Row, Row, Ledger!Counters,
      Counters, Ledger!Places, Places

LEMMA RestockIsRestock ==
    ASSUME TypeOK, NEW product \in Products, RestockUnit(product)
    PROVE  Ledger!Restock(product)
<1>1. stock[product] \in Row /\ stock' = [stock EXCEPT ![product] = Restocked(@, 1)]
  BY DEF TypeOK, RestockUnit
<1>2. stock'[product] = Restocked(stock[product], 1)
  BY <1>1 DEF TypeOK
<1>3. Ledger!Arrived(product) = 1
  BY <1>1, <1>2 DEF Ledger!Arrived, Restocked, Row, Counters, Places
<1>4. QED
  BY <1>1, <1>3 DEF Ledger!Restock, Ledger!Restocked, Restocked

LEMMA LedgerStep ==
    ASSUME TypeOK, TypeOK', [Next]_vars
    PROVE  [Ledger!Next]_stock
<1>1. ASSUME NEW c \in Calls, FulfilTx(c)
      PROVE  Ledger!Next
  BY <1>1, SaleIsTransfer DEF Ledger!Next, Ledger!Places
<1>2. ASSUME NEW product \in Products, RestockUnit(product)
      PROVE  Ledger!Next
  BY <1>2, RestockIsRestock DEF Ledger!Next
<1>3. CASE UNCHANGED stock
  BY <1>3
<1>4. QED
  BY <1>1, <1>2, <1>3
  DEF Next, vars, Edit, Pay, Step, StartAdd, StartUpdate, StartRemove, ReadCart,
      StartFulfil, StartFailure, FindCart, CreateCart, FindItem, CreateItem,
      WriteItem, DeleteItem, Unlink, OpenPayment, OpenRefused, FulfilShort,
      FulfilAbort, SendCharge, MarkFailed, UnlinkFailed, Crash, GatewayCapture

\* What the store does to the inventory StockLedger allows, step by step.
THEOREM ImplementsLedger == Spec => KeepsLedger
<1>1. Init => Ledger!Init
  BY DEF Init, Ledger!Init, NewRow, Ledger!NewRow, Counters, Ledger!Counters,
         Places, Ledger!Places
<1>2. TypeOK /\ TypeOK' /\ [Next]_vars => [Ledger!Next]_stock
  BY LedgerStep
<1>3. QED
  BY <1>1, <1>2, TypeCorrect, PTL DEF Spec, KeepsLedger, Ledger!Spec
=============================================================================
