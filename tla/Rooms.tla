-------------------------------- MODULE Rooms --------------------------------
(***************************************************************************)
(* The beds of one room type: what eZee has sold, what getRoomAvailability *)
(* shows of it from a cache kept per pair of dates, and the orders that    *)
(* are checked against what it shows.  An order holds no bed: it is        *)
(* created, paid, and only then sold in eZee by the worker, which eZee     *)
(* refuses when another order or channel has been faster.                  *)
(*                                                                         *)
(* Of a value we keep the beds it shows, where it comes from, and which    *)
(* bookings were in eZee when it was read.  Add-ons, slots and payment of  *)
(* an order are in BookingPayment; a booking that fails never reaches eZee *)
(* and stays an order here.  No booking leaves eZee.                       *)
(***************************************************************************)
EXTENDS Naturals, FiniteSets, FiniteSetsExt, SequencesExt

CONSTANTS
    Bookings,      \* bookings of the property, ours and other channels'
    Ranges,        \* pairs of dates guests ask for, each the set of its nights
    Stays,         \* the nights other channels sell, Ranges among them
    Selections,    \* rooms of an order: the quantities, all of the one type
    Calls,         \* requests that can be running at one time
    Beds,          \* total_beds of the type, as many as eZee sells
    MaxUnits       \* the most an order may ask for (6)

ASSUME RangesAssumption ==
    /\ Ranges \subseteq Stays
    /\ \A r \in Stays : r # {} /\ r \subseteq Nat /\ IsFiniteSet(r)
ASSUME SelectionsAssumption ==
    \A s \in Selections : s # <<>> /\ s \in Seq(Nat \ {0})
ASSUME BedsAssumption == Beds \in Nat /\ MaxUnits \in Nat

VARIABLES
    booking,   \* rows of ezee_booking_cache and reservations in eZee
    cache,     \* rooms:<checkin>:<checkout> -> what Redis has under it
    call,      \* the requests running
    owed       \* history: bookings every value put under the key must know

vars == <<booking, cache, call, owed>>
-----------------------------------------------------------------------------
\* The order's rooms as its row keeps them: each selection's quantity...
parseBookingRooms(row) == row.rooms

\* ...and as eZee is told: one room for each unit of each selection.
buildEzeeRooms(s) == UNION {{i} \X (1..s[i]) : i \in DOMAIN s}

Units(s) == Cardinality(buildEzeeRooms(s))

Nothing == [source |-> "none", free |-> 0, knows |-> {}]
Idle == [op |-> "none", step |-> "none", range |-> {},
         value |-> Nothing, owed |-> {}]
Absent == [stage |-> "none", range |-> {}, rooms |-> <<>>, checked |-> Nothing]

InEzee == {b \in Bookings : booking[b].stage \in {"elsewhere", "sold", "shown"}}

UnitsOf(set) == MapThenSumSet(LAMBDA b : Units(parseBookingRooms(booking[b])), set)
Overlapping(set, r) == {b \in set : booking[b].range \cap r # {}}

\* eZee: the beds left of the type on the fullest of the nights.
MinAvailable(r) ==
    Min({Beds - UnitsOf(Overlapping(InEzee, {n})) : n \in r})

\* getRoomInventory: live availability.
Live(r) == [source |-> "live", free |-> MinAvailable(r), knows |-> InEzee]

\* getBookedBedsMap: every overlapping row that bears the name of the type,
\* whatever its nights.  Our own rows bear "<name> x<quantity>" and never do.
Estimate(r, rows) ==
    LET booked == UnitsOf(Overlapping(rows, r))
    IN  [source |-> "estimate",
         free |-> IF booked > Beds THEN 0 ELSE Beds - booked,
         knows |-> {}]
-----------------------------------------------------------------------------
Init ==
    /\ booking = [b \in Bookings |-> Absent]
    /\ cache = [r \in Ranges |-> Nothing]
    /\ call = [c \in Calls |-> Idle]
    /\ owed = [r \in Ranges |-> {}]

\* Answers of eZee for r that a request holds and has yet to cache.
InFlight(r) ==
    {call[c].value : c \in {d \in Calls : /\ call[d].range = r
                                          /\ call[d].step = "put"
                                          /\ call[d].value.source = "live"}}

\* What nobody may fail to know after the key is deleted: all that is in
\* eZee, unless a request still holds an older answer.
OwedFrom(r) == {b \in InEzee : \A v \in InFlight(r) : b \in v.knows}

\* cache.del of the key of r...
Delete(r) ==
    /\ cache' = [cache EXCEPT ![r] = Nothing]
    /\ owed' = [owed EXCEPT ![r] = OwedFrom(r)]

\* ...which logs a failure of Redis and lets its caller go on.
DeleteFails == UNCHANGED <<cache, owed>>

\* getRoomAvailability for a guest who searches, and finds nothing cached.
Search(c, r) ==
    /\ call[c] = Idle
    /\ cache[r] = Nothing
    /\ call' = [call EXCEPT ![c] =
                  [Idle EXCEPT !.op = "search", !.step = "load", !.range = r]]
    /\ UNCHANGED <<booking, cache, owed>>

LooksNext(c, r, bs) ==
    call' = [call EXCEPT ![c] = [Idle EXCEPT !.op = "order", !.step = "look",
                                             !.range = r, !.owed = bs]]

\* Mutant of Order: the order is checked against what the guest was shown.
OrderWhatWasShown(c, r) ==
    /\ call[c] = Idle
    /\ LooksNext(c, r, OwedFrom(r))
    /\ UNCHANGED <<booking, cache, owed>>

\* createBookingOrder begins: the cached value is deleted first.
Order(c, r) ==
    /\ call[c] = Idle
    /\ \/ Delete(r) /\ LooksNext(c, r, OwedFrom(r))
       \/ DeleteFails /\ LooksNext(c, r, {})
    /\ UNCHANGED booking

\* Its own getRoomAvailability looks: another request may have put a value,
\* and Redis may fail to give it.
Look(c) ==
    /\ call[c].step = "look"
    /\ \E found \in {cache[call[c].range], Nothing} :
          call' = [call EXCEPT
                     ![c].step = IF found = Nothing THEN "load" ELSE "check",
                     ![c].value = found]
    /\ UNCHANGED <<booking, cache, owed>>

\* eZee answers...
LoadLive(c) ==
    /\ call[c].step = "load"
    /\ call' = [call EXCEPT ![c].step = "put",
                            ![c].value = Live(call[c].range)]
    /\ UNCHANGED <<booking, cache, owed>>

\* ...or fails, or knows no room: the rows are counted instead.  Of other
\* channels' bookings only those the reconciliation has found are rows.
LoadEstimate(c) ==
    /\ call[c].step = "load"
    /\ \E rows \in SUBSET {b \in Bookings : booking[b].stage = "elsewhere"} :
          call' = [call EXCEPT ![c].step = "put",
                               ![c].value = Estimate(call[c].range, rows)]
    /\ UNCHANGED <<booking, cache, owed>>

\* Either is cached for half an hour; a search is answered with it.
Put(c) ==
    /\ call[c].step = "put"
    /\ cache' = [cache EXCEPT ![call[c].range] = call[c].value]
    /\ call' = [call EXCEPT ![c] = IF @.op = "search" THEN Idle
                                   ELSE [@ EXCEPT !.step = "check"]]
    /\ UNCHANGED <<booking, owed>>

\* Mutant of validateRoomSelections: a type is sold out one bed too late.
ValidateOneTooMany(s, v) ==
    /\ Units(s) <= MaxUnits
    /\ \A i \in DOMAIN s : s[i] <= v.free + 1

\* Each selection is compared on its own with the beds shown.
validateRoomSelections(s, v) ==
    /\ Units(s) <= MaxUnits
    /\ \A i \in DOMAIN s : s[i] <= v.free

\* The booking is created as PENDING_PAYMENT...
Create(c, b, s) ==
    /\ call[c].step = "check"
    /\ validateRoomSelections(s, call[c].value)
    /\ booking[b] = Absent
    /\ booking' = [booking EXCEPT ![b] =
                     [stage |-> "ordered", range |-> call[c].range,
                      rooms |-> s, checked |-> [call[c].value EXCEPT !.free = 0]]]
    /\ call' = [call EXCEPT ![c].step = "delete"]
    /\ UNCHANGED <<cache, owed>>

\* ...and the key deleted again, though nothing it shows has changed.
DeleteAgain(c) ==
    /\ call[c].step = "delete"
    /\ Delete(call[c].range) \/ DeleteFails
    /\ call' = [call EXCEPT ![c] = Idle]
    /\ UNCHANGED booking

\* The rooms or the add-ons are refused, or the process stops.
Cut(c) ==
    /\ call[c] # Idle
    /\ call' = [call EXCEPT ![c] = Idle]
    /\ UNCHANGED <<booking, cache, owed>>

\* Redis forgets a value after its half hour.
Expire(r) ==
    /\ cache[r] # Nothing
    /\ cache' = [cache EXCEPT ![r] = Nothing]
    /\ UNCHANGED <<booking, call, owed>>
-----------------------------------------------------------------------------
Fits(b) == MinAvailable(booking[b].range) >= Units(parseBookingRooms(booking[b]))

\* insertBooking, once the order is paid: eZee sells the beds if it has them...
Insert(b) ==
    /\ booking[b].stage = "ordered"
    /\ Fits(b)
    /\ booking' = [booking EXCEPT ![b].stage = "sold", ![b].checked = Nothing]
    /\ UNCHANGED <<cache, call, owed>>

\* ...and refuses otherwise; the message ends among the dead letters.
Refuse(b) ==
    /\ booking[b].stage = "ordered"
    /\ ~Fits(b)
    /\ booking' = [booking EXCEPT ![b] = [Absent EXCEPT !.stage = "refused"]]
    /\ UNCHANGED <<cache, call, owed>>

\* Mutant of Forget: the key is made of the wrong dates.
ForgetOtherDates(b) ==
    LET r == booking[b].range
    IN  /\ booking[b].stage = "sold"
        /\ cache' = [s \in Ranges |-> IF s = r THEN cache[s] ELSE Nothing]
        /\ owed' = [owed EXCEPT ![r] = OwedFrom(r)]
        /\ booking' = [booking EXCEPT ![b].stage = "shown"]
        /\ UNCHANGED call

\* When all calls to eZee are through, the worker deletes the key of the
\* booking's own dates; those of other dates that share a night stay.  It spells
\* the dates YYYY-MM-DD and a search spells them as its request did: a key is of
\* its dates for requests in that form only.
Forget(b) ==
    /\ booking[b].stage = "sold"
    /\ Delete(booking[b].range) \/ DeleteFails
    /\ booking' = [booking EXCEPT ![b].stage = "shown"]
    /\ UNCHANGED call

\* Another channel sells beds.
SellElsewhere(b, r, s) ==
    /\ booking[b] = Absent
    /\ Len(s) = 1 /\ MinAvailable(r) >= Units(s)
    /\ booking' = [booking EXCEPT ![b] =
                     [Absent EXCEPT !.stage = "elsewhere", !.range = r,
                                    !.rooms = s]]
    /\ UNCHANGED <<cache, call, owed>>

Next ==
    \/ \E c \in Calls : Look(c) \/ LoadLive(c) \/ LoadEstimate(c) \/ Put(c)
                          \/ DeleteAgain(c) \/ Cut(c)
    \/ \E c \in Calls, r \in Ranges : Search(c, r) \/ Order(c, r)
    \/ \E c \in Calls, b \in Bookings, s \in Selections : Create(c, b, s)
    \/ \E r \in Ranges : Expire(r)
    \/ \E b \in Bookings : Insert(b) \/ Refuse(b) \/ Forget(b)
    \/ \E b \in Bookings, r \in Stays, s \in Selections :
          SellElsewhere(b, r, s)

Spec == Init /\ [][Next]_vars
-----------------------------------------------------------------------------
Values ==
    [source : {"none", "live", "estimate"}, free : 0..Beds,
     knows : SUBSET Bookings]

\* Rows, cached values and requests are of their kinds; in particular no
\* value shows fewer than no beds or more than the type has.
TypeOK ==
    /\ booking \in
         [Bookings ->
            [stage : {"none", "elsewhere", "ordered", "sold", "shown",
                      "refused"},
             range : Stays \cup {{}}, rooms : Selections \cup {<<>>},
             checked : Values]]
    /\ cache \in [Ranges -> Values]
    /\ call \in
         [Calls -> [op : {"none", "search", "order"},
                    step : {"none", "look", "load", "put", "check", "delete"},
                    range : Ranges \cup {{}},
                    value : Values, owed : SUBSET Bookings]]
    /\ owed \in [Ranges -> SUBSET Bookings]

\* Deleting a key is worth something although requests may hold older
\* answers: after the deletion that begins an order, and after the worker's,
\* no value of eZee that is cached for those dates or that the order is
\* checked against is older than the oldest answer held at the deletion.
NothingOlder ==
    /\ \A r \in Ranges :
          cache[r].source = "live" => owed[r] \subseteq cache[r].knows
    /\ \A c \in Calls :
          call[c].step = "check" /\ call[c].value.source = "live"
             => call[c].owed \subseteq call[c].value.knows

\* A guest's order that eZee has no beds for, paid or not, was overtaken by a
\* booking that was not in eZee when its availability was read, or was
\* checked against an estimate, or names the type twice (each selection is
\* checked alone).  In no other way does the service sell what is not there.
ShortForAReason ==
    \A b \in Bookings :
        booking[b].stage = "ordered" /\ ~Fits(b) =>
           \/ booking[b].checked.source = "estimate"
           \/ Len(booking[b].rooms) > 1
           \/ ~(Overlapping(InEzee, booking[b].range)
                  \subseteq booking[b].checked.knows)
=============================================================================
