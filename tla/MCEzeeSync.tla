----------------------------- MODULE MCEzeeSync -----------------------------
(* Small instances of EzeeSync for TLC. *)
EXTENDS EzeeSync, TLC

Symmetry ==
    Permutations(Workers) \cup Permutations(Passes) \cup Permutations(ReservationNos)
=============================================================================
