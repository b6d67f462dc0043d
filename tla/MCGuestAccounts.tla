-------------------------- MODULE MCGuestAccounts --------------------------
(* GuestAccounts for TLC: requests are interchangeable. *)
EXTENDS GuestAccounts, TLC

CONSTANTS c1, c2

MCCalls == {c1, c2}
Interchangeable == Permutations(MCCalls)
=============================================================================
