----------------------------- MODULE MCLending -----------------------------
(* Small instances of Lending for TLC. *)
EXTENDS Lending, TLC

\* Two units of each product, so that two calls can race for the last one.
TwoOfEach == [product \in Products |-> 2]

\* Every stay has paid for two units.
PaidForTwo == [stay \in Stays |-> [product \in Returnables |-> 2]]

Symmetry == Permutations(Stays) \cup Permutations(Loans) \cup Permutations(Calls)
=============================================================================
