------------------------------ MODULE MCColive ------------------------------
(* A small instance of Colive for TLC. *)
EXTENDS Colive, TLC

CONSTANTS bed, suite, gym, desk

\* The bed is let by the month; the suite has no price of its own for that.
Bed == bed :> 1000 @@ suite :> 0
Night == bed :> 50 @@ suite :> 80

\* One addon per month, of which a guest may take one, and one for good.
Unit == gym :> 110 @@ desk :> 75
Most == gym :> 1 @@ desk :> 2

\* Rooms of both kinds, the suite with two rates; beds only, without a rate.
Row(units, rate) == [units |-> units, rate |-> rate]
BothAndBeds ==
    {bed :> <<Row(5, 45)>> @@ suite :> <<Row(3, 0), Row(3, 60)>>,
     bed :> <<Row(4, 0)>>}

\* More of the gym than allowed, and the desk, which may be out of stock.
Wishes == {gym :> 2 @@ desk :> 0, gym :> 0 @@ desk :> 1}

\* Once an order is opened for the draft nothing that follows reads the rates or
\* the quote, and nothing done to those reads what follows: the two parts of the
\* state are independent, and TLC need not combine every pair.  It goes on from
\* the states where the rates are gone and the quote has expired, which can be
\* reached with every draft.
Settled ==
    (\E d \in Drafts : draft[d].status \notin {"none", "draft"}) =>
        /\ ezee = NoAnswer /\ cached = NoAnswer
        /\ \A q \in Quotes : quote[q].status # "live"

Symmetry == Permutations(Calls) \cup Permutations(RzpOrders)
              \cup Permutations(Handlers)
=============================================================================
