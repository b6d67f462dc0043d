----------------------------- MODULE AddonStore -----------------------------
(***************************************************************************)
(* Buying addons during a stay: the guest's cart, its Razorpay payments    *)
(* and the units sold when one is captured (GuestStoreService, and the     *)
(* 'addon_upsell' half of PaymentService).                                 *)
(*                                                                         *)
(* A cart is an order whose status is PENDING; it stays open to edits      *)
(* until a capture makes it PAID.  As in BookingPayment every await of a   *)
(* call is a point where another call may run, and the one transaction,    *)
(* which holds the inventory rows locked, is one step.                     *)
(***************************************************************************)
EXTENDS Stock, FiniteSets

CONSTANTS
    Stays,          \* a guest together with one of their bookings
    Orders,         \* rows of `addon_orders` that are not part of a booking
    Items,          \* rows of `addon_order_items`
    Payments,       \* rows of `payments` with purpose 'addon_upsell'
    Calls,          \* calls that can be running at one time
    Products,       \* COMMODITY products of the property
    InitialStock,   \* units of each product when the model starts
    MaxQuantity,    \* bound: units that one item row may ask for
    MaxTotal,       \* bound: units of a product that staff restock up to
    NoStay, NoOrder, NoItem, NoPayment, NoProduct   \* "not set"

ASSUME ItemsAssumption == IsFiniteSet(Items)
ASSUME InitialStockAssumption == InitialStock \in [Products -> Nat]
ASSUME BoundsAssumption ==
    MaxQuantity \in Nat /\ MaxTotal \in Nat
ASSUME NoValueAssumption ==
    /\ NoOrder \notin Orders /\ NoItem \notin Items
    /\ NoPayment \notin Payments /\ NoProduct \notin Products

VARIABLES
    stock,     \* inventory: product -> row
    order,     \* addon_orders
    item,      \* addon_order_items
    payment,   \* payments
    paid,      \* Razorpay's side: payments whose money was captured
    call,      \* what each running call has read and is about to do
    charged    \* orders with an ADD_EXTRA_CHARGE message sent to eZee's queue

vars == <<stock, order, item, payment, paid, call, charged>>
-----------------------------------------------------------------------------
OrderRow == [status : {"none", "PENDING", "PAID", "FAILED_STOCK"},
             stay : Stays \cup {NoStay}, payment : Payments \cup {NoPayment}]

\* An item row; one whose order is NoOrder does not exist.
ItemRow == [order : Orders \cup {NoOrder}, product : Products \cup {NoProduct},
            qty : Nat]

Blank == [order |-> NoOrder, product |-> NoProduct, qty |-> 0]

\* `order` is the cart it was created for.
PaymentRow == [status : {"none", "CREATED", "CAPTURED", "FAILED", "REFUND_NEEDED"},
               order : Orders \cup {NoOrder}]

\* The next await: of addToCart, updateCartItem and removeCartItem; of
\* createOrder; of verify and the capture webhooks; of a payment failure.
Steps == {"idle", "find_cart", "create_cart", "find_item", "create_item",
          "write_item", "delete_item", "unlink", "open", "fulfil_tx", "charge",
          "mark_failed", "unlink_failed"}

\* `saw` holds the item rows that a call goes by.
Call == [at : Steps, stay : Stays \cup {NoStay}, order : Orders \cup {NoOrder},
         item : Items \cup {NoItem}, product : Products \cup {NoProduct},
         qty : Nat, payment : Payments \cup {NoPayment}, saw : [Items -> ItemRow]]

Idle == [at |-> "idle", stay |-> NoStay, order |-> NoOrder, item |-> NoItem,
         product |-> NoProduct, qty |-> 0, payment |-> NoPayment,
         saw |-> [i \in Items |-> Blank]]

TypeOK ==
    /\ stock \in [Products -> Row]
    /\ order \in [Orders -> OrderRow]
    /\ item \in [Items -> ItemRow]
    /\ payment \in [Payments -> PaymentRow]
    /\ paid \subseteq Payments
    /\ call \in [Calls -> Call]
    /\ charged \subseteq Orders

Init ==
    /\ stock = [product \in Products |-> NewRow(InitialStock[product])]
    /\ order = [o \in Orders |->
                  [status |-> "none", stay |-> NoStay, payment |-> NoPayment]]
    /\ item = [i \in Items |-> Blank]
    /\ payment = [p \in Payments |->
                    [status |-> "none", order |-> NoOrder]]
    /\ paid = {}
    /\ call = [c \in Calls |-> Idle]
    /\ charged = {}

Begin(c, as) == call[c].at = "idle" /\ call' = [call EXCEPT ![c] = as]
Answer(c) == call' = [call EXCEPT ![c] = Idle]

Available(product) == stock[product]["available"]

\* The item rows of an order, and of what a call has read.
ItemsOf(o) == {i \in Items : item[i].order = o}
Seen(c) == {i \in Items : call[c].saw[i].order # NoOrder}

\* The rows of an order as a call reads them.
Snapshot(o) == [i \in Items |-> IF item[i].order = o THEN item[i] ELSE Blank]

\* Units of some rows together.
UnitsIn(rows, of) == UNION {{i} \X (1..rows[i].qty) : i \in of}

\* A stay's cart: there may be several, and the code takes any.
Carts(stay) == {o \in Orders : order[o].status = "PENDING" /\ order[o].stay = stay}
-----------------------------------------------------------------------------
(* The cart. *)

\* addToCart, once the stock looks sufficient.
StartAdd(c, stay, product, q) ==
    /\ Available(product) >= q
    /\ Begin(c, [Idle EXCEPT !.at = "find_cart", !.stay = stay,
                             !.product = product, !.qty = q])
    /\ UNCHANGED <<stock, order, item, payment, paid, charged>>

\* getOrCreateCart looks for a cart
FindCart(c) ==
    /\ call[c].at = "find_cart"
    /\ \/ \E o \in Carts(call[c].stay) :
             call' = [call EXCEPT ![c].at = "find_item", ![c].order = o,
                                     ![c].stay = NoStay]
       \/ /\ Carts(call[c].stay) = {}
          /\ call' = [call EXCEPT ![c].at = "create_cart"]
    /\ UNCHANGED <<stock, order, item, payment, paid, charged>>

\* and makes one if there was none.
CreateCart(c, o) ==
    /\ call[c].at = "create_cart"
    /\ order[o].status = "none"
    /\ order' = [order EXCEPT ![o] = [status |-> "PENDING", stay |-> call[c].stay,
                                      payment |-> NoPayment]]
    /\ call' = [call EXCEPT ![c].at = "find_item", ![c].order = o, ![c].stay = NoStay]
    /\ UNCHANGED <<stock, item, payment, paid, charged>>

\* An item row of the same product and bed is raised; for another bed, or
\* when there is none, a new row is made.
FindItem(c) ==
    /\ call[c].at = "find_item"
    /\ \/ \E i \in ItemsOf(call[c].order) :
             /\ item[i].product = call[c].product
             /\ item[i].qty + call[c].qty <= MaxQuantity
             /\ call' = [call EXCEPT ![c] = [Idle EXCEPT
                            !.at = "write_item", !.item = i,
                            !.qty = call[c].qty + item[i].qty]]
       \/ call' = [call EXCEPT ![c].at = "create_item"]
    /\ UNCHANGED <<stock, order, item, payment, paid, charged>>

\* Nothing asks whether the order is still a cart.
CreateItem(c, i) ==
    /\ call[c].at = "create_item"
    /\ item[i].order = NoOrder
    /\ item' = [item EXCEPT ![i] = [order |-> call[c].order, qty |-> call[c].qty,
                                    product |-> call[c].product]]
    /\ Answer(c)
    /\ UNCHANGED <<stock, order, payment, paid, charged>>

\* The quantity is written as it was computed; a row that is gone is an error.
WriteItem(c) ==
    /\ call[c].at = "write_item"
    /\ item' = IF item[call[c].item].order = NoOrder THEN item
               ELSE [item EXCEPT ![call[c].item].qty = call[c].qty]
    /\ Answer(c)
    /\ UNCHANGED <<stock, order, payment, paid, charged>>

\* The guest may edit a row of an order that is PENDING.
Editable(i) == item[i].order # NoOrder /\ order[item[i].order].status = "PENDING"

\* updateCartItem
StartUpdate(c, i, q) ==
    /\ Editable(i)
    /\ Available(item[i].product) >= q
    /\ Begin(c, [Idle EXCEPT !.at = "write_item", !.item = i, !.qty = q])
    /\ UNCHANGED <<stock, order, item, payment, paid, charged>>

\* removeCartItem
StartRemove(c, i) ==
    /\ Editable(i)
    /\ Begin(c, [Idle EXCEPT !.at = "delete_item", !.item = i])
    /\ UNCHANGED <<stock, order, item, payment, paid, charged>>

DeleteItem(c) ==
    /\ call[c].at = "delete_item"
    /\ item' = [item EXCEPT ![call[c].item] = Blank]
    /\ Answer(c)
    /\ UNCHANGED <<stock, order, payment, paid, charged>>
-----------------------------------------------------------------------------
(* createOrder: the guest opens the checkout of the cart. *)

\* The cart and its linked payment are read.  A linked payment that is not
\* CAPTURED is given up, the one the guest may be paying right now too.
ReadCart(c, stay) ==
    \E o \in Carts(stay) :
        LET linked == order[o].payment
        IN  /\ ItemsOf(o) # {}
            /\ linked # NoPayment => payment[linked].status # "CAPTURED"
            /\ Begin(c, [Idle EXCEPT
                            !.at = IF linked = NoPayment THEN "open" ELSE "unlink",
                            !.order = o, !.saw = Snapshot(o)])
            /\ UNCHANGED <<stock, order, item, payment, paid, charged>>

Unlink(c) ==
    /\ call[c].at = "unlink"
    /\ order' = [order EXCEPT ![call[c].order].payment = NoPayment]
    /\ call' = [call EXCEPT ![c].at = "open"]
    /\ UNCHANGED <<stock, item, payment, paid, charged>>

\* Some row asks for more than there is.
Short(c) ==
    \E i \in Seen(c) : call[c].saw[i].qty > Available(call[c].saw[i].product)

\* A Razorpay order for the price of the rows that were read, its payment row,
\* and the link to the cart: nobody knows of the payment before the answer.
OpenPayment(c, p) ==
    /\ call[c].at = "open" /\ ~Short(c)
    /\ payment[p].status = "none"
    /\ payment' = [payment EXCEPT ![p] =
                      [status |-> "CREATED", order |-> call[c].order]]
    /\ order' = [order EXCEPT ![call[c].order].payment = p]
    /\ Answer(c)
    /\ UNCHANGED <<stock, item, paid, charged>>

OpenRefused(c) ==
    /\ call[c].at = "open" /\ Short(c)
    /\ Answer(c)
    /\ UNCHANGED <<stock, order, item, payment, paid, charged>>

\* External: Razorpay captures the guest's money.
GatewayCapture(p) ==
    /\ payment[p].status # "none"
    /\ p \notin paid
    /\ paid' = paid \cup {p}
    /\ UNCHANGED <<stock, order, item, payment, call, charged>>
-----------------------------------------------------------------------------
(* verifyPayment and the capture webhooks: fulfilOrder. *)

\* Mutant of StartFulfil: the signature is not verified.
StartFulfilUnverified(c, p) ==
    \E o \in Orders :
        /\ payment[p].status # "CAPTURED"
        /\ order[o].payment = p
        /\ Begin(c, [Idle EXCEPT !.at = "fulfil_tx", !.order = o, !.payment = p,
                                 !.saw = Snapshot(o)])
        /\ UNCHANGED <<stock, order, item, payment, paid, charged>>

\* A payment that is not CAPTURED yet, and the order it is linked to; a
\* payment without an order ends here with an error.
StartFulfil(c, p) ==
    \E o \in Orders :
        /\ p \in paid
        /\ payment[p].status # "CAPTURED"
        /\ order[o].payment = p
        /\ Begin(c, [Idle EXCEPT !.at = "fulfil_tx", !.order = o, !.payment = p,
                                 !.saw = Snapshot(o)])
        /\ UNCHANGED <<stock, order, item, payment, paid, charged>>

\* Units of a product that a call has seen asked for.
Asked(c, product) ==
    Cardinality(UnitsIn(call[c].saw,
                        {i \in Seen(c) : call[c].saw[i].product = product}))

\* Mutant of SoldStock: the decrement is forgotten.
SoldStockOneSided(c) ==
    [product \in Products |-> [stock[product] EXCEPT !["sold"] = @ + Asked(c, product)]]

\* The stock after they are sold.
SoldStock(c) ==
    [product \in Products |->
        Move(stock[product], "available", "sold", Asked(c, product))]

\* The CHECK constraints decide: several rows of one product pass the test of
\* Short one by one.
Accepted(rows) == \A product \in Products : Legal(rows[product])

\* Mutant of FulfilTx: the payment is marked outside of the transaction, first.
FulfilTxMarkedFirst(c) ==
    /\ call[c].at = "fulfil_tx" /\ ~Short(c) /\ Accepted(SoldStock(c))
    /\ payment' = [payment EXCEPT ![call[c].payment].status = "CAPTURED"]
    /\ call' = [call EXCEPT ![c] = [Idle EXCEPT !.at = "charge",
                                                !.order = call[c].order]]
    /\ UNCHANGED <<stock, order, item, paid, charged>>

\* The transaction: under the locks of the inventory rows the stock suffices.
FulfilTx(c) ==
    /\ call[c].at = "fulfil_tx" /\ ~Short(c) /\ Accepted(SoldStock(c))
    /\ stock' = SoldStock(c)
    /\ payment' = [payment EXCEPT ![call[c].payment].status = "CAPTURED"]
    /\ order' = [order EXCEPT ![call[c].order].status = "PAID"]
    /\ call' = [call EXCEPT ![c] = [Idle EXCEPT !.at = "charge",
                                                !.order = call[c].order]]
    /\ UNCHANGED <<item, paid, charged>>

\* It does not: the money has to be given back by hand.
FulfilShort(c) ==
    /\ call[c].at = "fulfil_tx" /\ Short(c)
    /\ payment' = [payment EXCEPT ![call[c].payment].status = "REFUND_NEEDED"]
    /\ order' = [order EXCEPT ![call[c].order].status = "FAILED_STOCK"]
    /\ Answer(c)
    /\ UNCHANGED <<stock, item, paid, charged>>

FulfilAbort(c) ==
    /\ call[c].at = "fulfil_tx" /\ ~Short(c) /\ ~Accepted(SoldStock(c))
    /\ Answer(c)
    /\ UNCHANGED <<stock, order, item, payment, paid, charged>>

\* The charge for eZee is sent last; a send that fails is only logged.
SendCharge(c) ==
    /\ call[c].at = "charge"
    /\ charged' \in {charged, charged \cup {call[c].order}}
    /\ Answer(c)
    /\ UNCHANGED <<stock, order, item, payment, paid>>
-----------------------------------------------------------------------------
(* handlePaymentFailure *)

StartFailure(c, p) ==
    /\ payment[p].status \notin {"none", "CAPTURED", "FAILED"}
    /\ Begin(c, [Idle EXCEPT !.at = "mark_failed", !.payment = p])
    /\ UNCHANGED <<stock, order, item, payment, paid, charged>>

MarkFailed(c) ==
    /\ call[c].at = "mark_failed"
    /\ payment' = [payment EXCEPT ![call[c].payment].status = "FAILED"]
    /\ call' = [call EXCEPT ![c].at = "unlink_failed"]
    /\ UNCHANGED <<stock, order, item, paid, charged>>

\* The cart is free for another payment.
UnlinkFailed(c) ==
    /\ call[c].at = "unlink_failed"
    /\ order' = [o \in Orders |->
                   IF order[o].payment = call[c].payment /\ order[o].status = "PENDING"
                   THEN [order[o] EXCEPT !.payment = NoPayment] ELSE order[o]]
    /\ Answer(c)
    /\ UNCHANGED <<stock, item, payment, paid, charged>>
-----------------------------------------------------------------------------
\* Staff put a unit on the shelf.
RestockUnit(product) ==
    /\ stock[product]["total"] < MaxTotal
    /\ stock' = [stock EXCEPT ![product] = Restocked(@, 1)]
    /\ UNCHANGED <<order, item, payment, paid, call, charged>>

\* A call dies: the instance stops, a query fails, the transaction times out.
Crash(c) ==
    /\ call[c].at # "idle"
    /\ Answer(c)
    /\ UNCHANGED <<stock, order, item, payment, paid, charged>>

Step(c) ==
    \/ FindCart(c) \/ FindItem(c) \/ WriteItem(c) \/ DeleteItem(c)
    \/ \E o \in Orders : CreateCart(c, o)
    \/ \E i \in Items : CreateItem(c, i)
    \/ Unlink(c) \/ OpenRefused(c) \/ \E p \in Payments : OpenPayment(c, p)
    \/ FulfilTx(c) \/ FulfilShort(c) \/ FulfilAbort(c) \/ SendCharge(c)
    \/ MarkFailed(c) \/ UnlinkFailed(c)

Edit(c) ==
    \/ \E stay \in Stays, product \in Products, q \in 1..MaxQuantity :
          StartAdd(c, stay, product, q)
    \/ \E i \in Items : StartRemove(c, i) \/ \E q \in 1..MaxQuantity : StartUpdate(c, i, q)

Pay(c) ==
    \/ \E stay \in Stays : ReadCart(c, stay)
    \/ \E p \in Payments : StartFulfil(c, p) \/ StartFailure(c, p)

Next ==
    \/ \E c \in Calls : Edit(c) \/ Pay(c) \/ Step(c) \/ Crash(c)
    \/ \E p \in Payments : GatewayCapture(p)
    \/ \E product \in Products : RestockUnit(product)

Spec == Init /\ [][Next]_vars
-----------------------------------------------------------------------------
(* Safety. *)

\* However carts are edited, paid and failed at the same time, the inventory
\* behaves as StockLedger promises: the test of each row under the lock and the
\* CHECK constraints together never let a sale take what is not there.
Ledger == INSTANCE StockLedger WITH stock <- stock, Products <- Products,
                                    InitialStock <- InitialStock
KeepsLedger == Ledger!Spec

\* Goods, refunds and charges in eZee are only for money that Razorpay captured
\* for that very order, although links between orders and payments are written,
\* removed and replaced by overlapping calls.
HonouredWasPaid ==
    /\ \A o \in Orders :
          order[o].status \in {"PAID", "FAILED_STOCK"} \/ o \in charged =>
              \E p \in paid : payment[p].order = o
    /\ \A p \in Payments :
          payment[p].status \in {"CAPTURED", "REFUND_NEEDED"} => p \in paid

\* A payment is marked CAPTURED together with its order's fate: there is no
\* captured payment whose order is still a cart, nor a charge for such an order.
CapturedIsDecided ==
    /\ \A p \in Payments :
          payment[p].status = "CAPTURED" =>
              order[payment[p].order].status \in {"PAID", "FAILED_STOCK"}
    /\ \A o \in charged : order[o].status \in {"PAID", "FAILED_STOCK"}
=============================================================================
