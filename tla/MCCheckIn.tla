----------------------------- MODULE MCCheckIn -----------------------------
(***************************************************************************)
(* CheckIn for TLC: a reservation, ours or not, and one room; beside it, a *)
(* second reservation whose guest has the same name.                       *)
(***************************************************************************)
EXTENDS CheckIn

CONSTANTS r1, r2, a101, asha

MCReservations == {r1, r2}
MCRooms == {a101}
MCNames == {asha}
MCDays == {1}

\* The second one is a travel site's; eZee has it from the beginning, cancelled
\* or not.  Two reservations share nothing but a name, so if it is not cancelled
\* one pass without faults takes both in on the day they arrive.  Passes overlap
\* and calls fail on that day only.
OneOrBoth ==
    /\ r2 \notin own /\ name[r2] = asha /\ pms[r2].room = a101
    /\ events = 0 => pms[r1] = NoReservation
    /\ pass["staff"] # Resting \/ faults > 0 => today = 1
    /\ pms[r2].status # "CANCELLED" =>
          /\ own = {} /\ name[r1] = asha
          /\ pass["staff"] = Resting /\ faults = 0
          /\ events > 0 => today = 1
=============================================================================
