---------------------------- MODULE MCStayGuests ----------------------------
\* A booking for one to which a slot can be added, two accounts of which one
\* is the booker's, two submissions and two calls at a time.
EXTENDS StayGuests, TLC

CONSTANTS c1, c2, booker, friend, form1, form2

MCCalls == {c1, c2}
MCGuests == {booker, friend}
MCBookers == {booker}
MCSubmissions == {form1, form2}
Symmetric == {p @@ q : p \in Permutations(MCCalls),
                       q \in Permutations(MCSubmissions)}
=============================================================================
