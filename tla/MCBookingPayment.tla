-------------------------- MODULE MCBookingPayment --------------------------
(* A small instance of BookingPayment for TLC. *)
EXTENDS BookingPayment

\* Two units of the one product, one in a basket: both bookings can hold one,
\* and lose it to a rollback of the other.
OneEach == {[product \in Products |-> 1]}
TwoUnits == [product \in Products |-> 2]
=============================================================================
