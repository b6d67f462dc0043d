---------------------------- MODULE MCAddonStore ----------------------------
(* Small instances of AddonStore for TLC. *)
EXTENDS AddonStore, TLC

\* The shelf is empty until staff put the one unit on it: two orders, two
\* payments of one order, or two rows of one, race for it.
EmptyShelf == [product \in Products |-> 0]

Symmetry == Permutations(Orders) \cup Permutations(Items)
            \cup Permutations(Payments) \cup Permutations(Calls)
=============================================================================
