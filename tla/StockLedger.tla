---------------------------- MODULE StockLedger ----------------------------
(***************************************************************************)
(* What the services promise about the inventory, whoever updates it and   *)
(* however the updates overlap: units change place, new ones arrive, some  *)
(* are written off, and nothing else ever happens to a counter.            *)
(***************************************************************************)
EXTENDS Stock

CONSTANTS Products, InitialStock

VARIABLE stock

Init == stock = [product \in Products |-> NewRow(InitialStock[product])]

\* Units of any number of products go from one place to another; no place
\* gives more than it has.
Transfer(from, to) ==
    /\ from # to
    /\ stock' \in [Products -> Row]
    /\ \A product \in Products :
          \E q \in 0..stock[product][from] :
              stock'[product] = Move(stock[product], from, to, q)

\* How far the total of a product goes up in a step.
Arrived(product) == stock'[product]["total"] - stock[product]["total"]

Restock(product) ==
    /\ Arrived(product) \in Nat
    /\ stock' = [stock EXCEPT ![product] = Restocked(@, Arrived(product))]

WriteOff(product, from) ==
    /\ -Arrived(product) \in 0..stock[product][from]
    /\ stock' = [stock EXCEPT ![product] = WrittenOff(@, from, -Arrived(product))]

Next ==
    \/ \E from, to \in Places : Transfer(from, to)
    \/ \E product \in Products :
          Restock(product) \/ \E from \in Places : WriteOff(product, from)

Spec == Init /\ [][Next]_stock
=============================================================================
