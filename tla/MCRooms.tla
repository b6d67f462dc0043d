------------------------------- MODULE MCRooms -------------------------------
\* One bed, two nights: guests, ours and those of the other channels, ask for
\* both nights or the second; an order is for a bed or for one bed twice.
EXTENDS Rooms, TLC

CONSTANTS b1, b2, c1, c2

MCBookings == {b1, b2}
MCCalls == {c1, c2}
MCRanges == {{2}, {1, 2}}
MCStays == {{2}, {1, 2}}
MCSelections == {<<1>>, <<1, 1>>}

Symmetry == Permutations(MCBookings) \cup Permutations(MCCalls)
=============================================================================
