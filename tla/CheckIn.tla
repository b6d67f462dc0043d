------------------------------ MODULE CheckIn ------------------------------
(***************************************************************************)
(* From a reservation in eZee to the PIN of a door: the passes that take   *)
(* reservations made elsewhere into our table and follow status and room   *)
(* of those we have (EzeeReconciliationService), and the PIN each one asks *)
(* for when it sees a guest checked in (MyGateService).  One pass is the   *)
(* timer's, one is started by staff, and they may overlap; a PIN is made   *)
(* in the background of the pass.                                          *)
(*                                                                         *)
(* Stays begin at the same hour of their day of arrival, and that day does *)
(* not change.  The worker's retries and a pass's other half, which queues *)
(* bookings for it, are in EzeeSync; whom an ingested row is linked to is  *)
(* in StayGuests.                                                          *)
(***************************************************************************)
EXTENDS Integers, Sequences, FiniteSets, FiniteSetsExt

CONSTANTS
    Reservations,  \* eZee's reservations: our bookings, travel sites, walk-ins
    Rooms,         \* rooms with a lock
    Names,         \* names of guests with an account
    Days,          \* days of arrival
    Back, Ahead,   \* arrivals are listed from so many days ago to so many on
    MaxDays,       \* bound: the last day
    MaxEvents,     \* bound: what happens to reservations in eZee
    MaxFaults      \* bound: failing calls and cut requests

ASSUME LockBounds == MaxEvents \in Nat /\ MaxFaults \in Nat /\ MaxDays \in Nat
ASSUME WindowAssumption == Back \in Nat /\ Ahead \in Nat /\ Days \subseteq Int
ASSUME NullAssumption == "none" \notin Rooms /\ "Guest" \notin Names

VARIABLES
    own,       \* the reservations that are bookings of ours (fixed)
    name,      \* the name of each one's guest, "Guest" if we have none (fixed)
    day,       \* the day each one arrives (fixed)
    today,     \* the day it is
    pms,       \* eZee's reservations
    row,       \* our rows of ezee_booking_cache
    pass,      \* what each reconciliation pass is doing
    job,       \* the provisioning each pass has started for each row
    access,    \* MyGate: the accesses of all locks, oldest first; of each
               \* also (history) its row and whether its making failed
    pins,      \* smart_lock_access
    overlapped,  \* history: rows with two provisionings at one time
    events,      \* how much has happened to reservations in eZee
    faults       \* how many calls have failed

fixed == <<own, name, day>>
eZee == <<pms, events>>
locks == <<job, access, pins, overlapped>>
checkInVars == <<fixed, today, eZee, row, pass, locks, faults>>
-----------------------------------------------------------------------------
Passes == {"timer", "staff"}
Statuses == {"CONFIRMED", "CHECKED_IN", "CHECKED_OUT", "CANCELLED"}

\* A row is named by its booking id: TDS-... if the booking is ours,
\* EZEE-...-<reservation number> if a pass made it.
Tds(r) == [kind |-> "TDS", of |-> r]
Ezee(r) == [kind |-> "EZEE", of |-> r]
Rows == {Tds(r) : r \in Reservations} \cup {Ezee(r) : r \in Reservations}

NoRoom == "none"
NoReservation == [status |-> "none", room |-> NoRoom]
NoRow == [there |-> FALSE, number |-> FALSE, active |-> FALSE,
          status |-> "none", room |-> NoRoom]
NoSnapshot == [row |-> NoRow, status |-> "none", room |-> NoRoom]
Resting == [at |-> "rest", todo |-> {}, now |-> NoSnapshot,
            seen |-> NoReservation]

Active(b) == /\ row[b].there /\ row[b].active /\ row[b].number
             /\ row[b].status \in {"CONFIRMED", "CHECKED_IN"}
Snapshot(b) == [row |-> b, status |-> row[b].status, room |-> row[b].room]

\* Those whose row is linked to a guest of ours.
account == {r \in Reservations : name[r] # "Guest"}

\* Every room is one lock; an access bears the guest's name and the room's.
NewAccess(b, room, lost) ==
    [name |-> name[b.of], room |-> room, day |-> day[b.of], row |-> b, lost |-> lost]
-----------------------------------------------------------------------------
\* eZee has reservations from before our first pass, none of them ours.
CheckInInit ==
    /\ own \in SUBSET Reservations
    /\ name \in [Reservations -> Names \cup {"Guest"}] /\ own \subseteq account
    /\ day \in [Reservations -> Days]
    /\ today = 0
    /\ pms \in [Reservations -> {NoReservation} \cup
                   [status : Statuses, room : Rooms \cup {NoRoom}]]
    /\ \A r \in Reservations : pms[r] # NoReservation =>
          r \notin own /\ (pms[r].status = "CHECKED_IN" => day[r] <= today)
    /\ row = [b \in Rows |->
                IF b.kind = "TDS" /\ b.of \in own
                THEN [NoRow EXCEPT !.there = TRUE, !.active = TRUE,
                                   !.status = "CONFIRMED"]
                ELSE NoRow]
    /\ pass = [p \in Passes |-> Resting]
    /\ job = [p \in Passes |-> [b \in Rows |-> NoRoom]]
    /\ access = <<>>
    /\ pins = [b \in Rows |-> <<>>]
    /\ overlapped = {}
    /\ events = 0
    /\ faults = 0

(* eZee and its staff.                                                     *)

Happens(r, reservation) ==
    /\ events < MaxEvents
    /\ events' = events + 1
    /\ pms' = [pms EXCEPT ![r] = reservation]
    /\ UNCHANGED <<fixed, today, row, pass, locks, faults>>

NextDay ==
    /\ today < MaxDays
    /\ today' = today + 1
    /\ UNCHANGED <<fixed, eZee, row, pass, locks, faults>>

Arrive(r, s, room) ==
    /\ r \notin own /\ pms[r] = NoReservation
    /\ s = "CHECKED_IN" => day[r] <= today
    /\ Happens(r, [status |-> s, room |-> room])

AssignRoom(r, room) ==
    /\ pms[r].status \in {"CONFIRMED", "CHECKED_IN"} /\ pms[r].room # room
    /\ Happens(r, [pms[r] EXCEPT !.room = room])

\* A stay goes on, or never begins.
Move(r, s) ==
    /\ <<pms[r].status, s>> \in {<<"CONFIRMED", "CHECKED_IN">>,
                                 <<"CONFIRMED", "CANCELLED">>,
                                 <<"CHECKED_IN", "CHECKED_OUT">>}
    /\ s = "CHECKED_IN" => day[r] <= today
    /\ Happens(r, [pms[r] EXCEPT !.status = s])

(* The worker of a booking of ours: the reservation is in eZee before its  *)
(* number is in our row.                                                   *)

InsertBooking(r, room) ==
    /\ r \in own /\ pms[r] = NoReservation
    /\ Happens(r, [status |-> "CONFIRMED", room |-> room])

StoreNumber(r) ==
    /\ r \in own /\ pms[r] # NoReservation /\ ~row[Tds(r)].number
    /\ row' = [row EXCEPT ![Tds(r)].number = TRUE]
    /\ UNCHANGED <<fixed, today, eZee, pass, locks, faults>>
-----------------------------------------------------------------------------
(* A pass: the rows that are active and have a number, one by one...       *)

Begin(p) ==
    /\ pass[p] = Resting
    /\ pass' = [pass EXCEPT ![p] =
          [Resting EXCEPT !.at = "drift",
                   !.todo = {Snapshot(b) : b \in {d \in Rows : Active(d)}}]]
    /\ UNCHANGED <<fixed, today, eZee, row, locks, faults>>

\* ...each fetched from eZee.
Fetch(p) ==
    /\ pass[p].at = "drift"
    /\ \E b \in pass[p].todo :
          pass' = [pass EXCEPT ![p] = [at |-> "fetched", todo |-> @.todo \ {b},
                                       now |-> b, seen |-> pms[b.row.of]]]
    /\ UNCHANGED <<fixed, today, eZee, row, locks, faults>>

\* One that cannot be fetched is left to the next pass.
FetchFails(p) ==
    /\ pass[p].at = "drift" /\ faults < MaxFaults
    /\ \E b \in pass[p].todo : pass' = [pass EXCEPT ![p].todo = @ \ {b}]
    /\ faults' = faults + 1
    /\ UNCHANGED <<fixed, today, eZee, row, locks>>

\* Mutant of Followed: the room is only taken with a change of status.
FollowedStatusOnly(was, seen, now) ==
    LET moved == seen.status # was.status
    IN  [now EXCEPT
           !.status = IF moved THEN seen.status ELSE @,
           !.active = IF moved /\ seen.status \in {"CANCELLED", "CHECKED_OUT"}
                      THEN FALSE ELSE @,
           !.room = IF moved /\ seen.room # NoRoom THEN seen.room ELSE @]

\* What the row becomes if it was as in the snapshot and eZee says so.
Followed(was, seen, now) ==
    LET moved == seen.status # was.status
    IN  [now EXCEPT
           !.status = IF moved THEN seen.status ELSE @,
           !.active = IF moved /\ seen.status \in {"CANCELLED", "CHECKED_OUT"}
                      THEN FALSE ELSE @,
           !.room = IF seen.room \notin {NoRoom, was.room}
                    THEN seen.room ELSE @]

RoomOf(was, seen) == IF seen.room # NoRoom THEN seen.room ELSE was.room
SeenIn(was, seen) == seen.status = "CHECKED_IN" /\ was.status # "CHECKED_IN"

\* Mutant of ToProvision: nobody looks for an ACTIVE PIN.
ToProvisionAgain(b, was, seen) ==
    IF SeenIn(was, seen) THEN RoomOf(was, seen) ELSE NoRoom

\* The room to make a PIN for: that of a guest seen checked in who has none.
\* The question for an ACTIVE PIN goes out before the row is updated.
ToProvision(b, was, seen) ==
    IF SeenIn(was, seen) /\ pins[b] = <<>> THEN RoomOf(was, seen) ELSE NoRoom

Update(p) ==
    LET b == pass[p].now.row
        room == ToProvision(b, pass[p].now, pass[p].seen)
    IN  /\ pass[p].at = "fetched"
        /\ job[p][b] = NoRoom
        /\ row' = [row EXCEPT ![b] = Followed(pass[p].now, pass[p].seen, @)]
        /\ job' = [job EXCEPT ![p][b] = room]
        /\ overlapped' = IF room # NoRoom
                            /\ \E q \in Passes : job[q][b] # NoRoom
                         THEN overlapped \cup {b} ELSE overlapped
        /\ pass' = [pass EXCEPT ![p] = [Resting EXCEPT !.at = "drift",
                                                       !.todo = pass[p].todo]]
        /\ UNCHANGED <<fixed, today, eZee, access, pins, faults>>
-----------------------------------------------------------------------------
(* ...then the reservations arriving from yesterday to 28 days on, of which *)
(* those are taken in that no row has by number or by name.                *)

Listed ==
    {r \in Reservations :
        pms[r] # NoReservation /\ day[r] \in (today - Back)..(today + Ahead)}

Known(r) == \E b \in Rows : row[b].there /\ b.of = r
                            /\ (row[b].number \/ b = Ezee(r))

\* Mutant of Unknown: guests already here are thought to be known.
UnknownConfirmed(arrivals) ==
    {a \in arrivals : ~Known(a.of) /\ a.status = "CONFIRMED"}

\* Cancelled ones are not worth a row.
Unknown(arrivals) ==
    {a \in arrivals : ~Known(a.of) /\ a.status # "CANCELLED"}

\* eZee's list is read and our rows are asked about it; whatever changes
\* from here on is not seen.
ListArrivals(p) ==
    /\ pass[p].at = "drift" /\ pass[p].todo = {}
    /\ pass' = [pass EXCEPT ![p].at = "ingest",
          ![p].todo = Unknown({[of |-> r, status |-> pms[r].status,
                                room |-> pms[r].room] : r \in Listed})]
    /\ UNCHANGED <<fixed, today, eZee, row, locks, faults>>

\* The booking id is the key of a row: if another pass has made it meanwhile
\* the rest of the property is left to the next pass.
Ingest(p) ==
    /\ pass[p].at = "ingest"
    /\ \E a \in pass[p].todo :
          IF row[Ezee(a.of)].there
          THEN pass' = [pass EXCEPT ![p] = Resting] /\ UNCHANGED row
          ELSE /\ row' = [row EXCEPT ![Ezee(a.of)] =
                            [there |-> TRUE, number |-> TRUE, active |-> TRUE,
                             status |-> a.status, room |-> a.room]]
               /\ pass' = [pass EXCEPT ![p].todo = @ \ {a}]
    /\ UNCHANGED <<fixed, today, eZee, locks, faults>>

End(p) ==
    /\ pass[p].at = "ingest" /\ pass[p].todo = {}
    /\ pass' = [pass EXCEPT ![p] = Resting]
    /\ UNCHANGED <<fixed, today, eZee, row, locks, faults>>

\* A query outside the loops fails, eZee does not list, or the process dies.
Abandon(p) ==
    /\ pass[p] # Resting /\ faults < MaxFaults
    /\ pass' = [pass EXCEPT ![p] = Resting]
    /\ faults' = faults + 1
    /\ UNCHANGED <<fixed, today, eZee, row, locks>>
-----------------------------------------------------------------------------
(* provisionLockAccess. *)

Matches(all, made) ==
    {i \in DOMAIN all : /\ all[i].name = made.name /\ all[i].room = made.room
                        /\ all[i].day = made.day}

\* MyGate makes the PIN and answers without it, so the accesses of the lock
\* are listed and the first one with the start time and the name is taken.
\* The row needs a guest of ours: for 'unknown' the insert fails.
MakePin(p, b) ==
    LET made == NewAccess(b, job[p][b], FALSE)
        all == Append(access, made)
        pin == [room |-> job[p][b], pin |-> Min(Matches(all, made))]
    IN  /\ job[p][b] # NoRoom
        /\ access' = all
        /\ pins' = IF b.of \in account
                   THEN [pins EXCEPT ![b] = Append(@, pin)] ELSE pins
        /\ job' = [job EXCEPT ![p][b] = NoRoom]
        /\ UNCHANGED <<fixed, today, eZee, row, pass, overlapped, faults>>

\* There is no session with MyGate and its login fails, or the process dies
\* before anything is asked of the lock: nobody tries again...
NoSession(p, b) ==
    /\ job[p][b] # NoRoom /\ faults < MaxFaults
    /\ job' = [job EXCEPT ![p][b] = NoRoom]
    /\ faults' = faults + 1
    /\ UNCHANGED <<fixed, today, eZee, row, pass, access, pins, overlapped>>

\* ...nor if the PIN is made and then listing or storing it fails.
ProvisionFails(p, b) ==
    /\ job[p][b] # NoRoom /\ faults < MaxFaults
    /\ access' = Append(access, NewAccess(b, job[p][b], TRUE))
    /\ job' = [job EXCEPT ![p][b] = NoRoom]
    /\ faults' = faults + 1
    /\ UNCHANGED <<fixed, today, eZee, row, pass, pins, overlapped>>
-----------------------------------------------------------------------------
PassStep(p) ==
    \/ Fetch(p) \/ Update(p) \/ ListArrivals(p) \/ Ingest(p)
    \/ End(p)

CheckInNext ==
    \/ NextDay
    \/ \E r \in Reservations :
          \/ \E room \in Rooms \cup {NoRoom} :
                \/ \E s \in {"CONFIRMED", "CHECKED_IN"} : Arrive(r, s, room)
                \/ InsertBooking(r, room)
          \/ \E room \in Rooms : AssignRoom(r, room)
          \/ \E s \in Statuses : Move(r, s)
          \/ StoreNumber(r)
    \/ \E p \in Passes :
          \/ Begin(p) \/ PassStep(p) \/ FetchFails(p) \/ Abandon(p)
          \/ \E b \in Rows : MakePin(p, b) \/ NoSession(p, b)
                               \/ ProvisionFails(p, b)

CheckInSpec == CheckInInit /\ [][CheckInNext]_checkInVars

\* The timer starts a pass every fifteen minutes, and what that pass or one of
\* its provisionings waits for is answered.  Faults are bounded; staff need not
\* start a pass, theirs need not come to an end, and the worker need not come to
\* store a number.
CheckInFairSpec ==
    /\ CheckInSpec
    /\ WF_checkInVars(\/ Begin("timer") \/ PassStep("timer")
                      \/ \E b \in Rows : MakePin("timer", b))
-----------------------------------------------------------------------------
(* Properties. *)

AnyStatus == Statuses \cup {"none"}
AnyRoom == Rooms \cup {NoRoom}
Snapshots == [row : Rows \cup {NoRow}, status : AnyStatus, room : AnyRoom]
Arrivals == [of : Reservations, status : AnyStatus, room : AnyRoom]

\* The rows, passes, provisionings and PINs have the shape above.
CheckInTypeOK ==
    /\ pms \in [Reservations -> [status : AnyStatus, room : AnyRoom]]
    /\ own \subseteq account /\ name \in [Reservations -> Names \cup {"Guest"}]
    /\ day \in [Reservations -> Days] /\ today \in 0..MaxDays
    /\ row \in [Rows -> [there : BOOLEAN, number : BOOLEAN, active : BOOLEAN,
                         status : AnyStatus, room : AnyRoom]]
    /\ pass \in [Passes -> [at : {"rest", "drift", "fetched", "ingest"},
                            todo : SUBSET (Snapshots \cup Arrivals),
                            now : Snapshots,
                            seen : [status : AnyStatus, room : AnyRoom]]]
    /\ job \in [Passes -> [Rows -> AnyRoom]]
    /\ access \in Seq([name : Names \cup {"Guest"}, room : Rooms, day : Days,
                       row : Rows, lost : BOOLEAN])
    /\ pins \in [Rows -> Seq([room : Rooms, pin : 1..Len(access)])]
    /\ overlapped \subseteq Rows
    /\ events \in 0..MaxEvents /\ faults \in 0..MaxFaults

\* "Idempotent -- skips if an ACTIVE PIN already exists": a booking has two
\* PINs only if two passes were provisioning it at one time, however often it
\* is seen checked in.
TwoPinsOverlapped ==
    \A b \in Rows : Len(pins[b]) > 1 => b \in overlapped

\* A PIN that opens a door and that we do not know: its making failed half-way,
\* or it could not be stored for want of a guest, or MyGate had an older access
\* of the same name, room and day, whose PIN was taken for it.  The older one is
\* that of another guest of this name, of another reservation of the guest or of
\* the other row of a booking that was taken in again before its number was
\* stored; it is the row's own only if that one was lost, or if two passes were
\* provisioning the row at one time.
UnknownPinIsExplained ==
    \A i \in DOMAIN access :
        \/ \E b \in Rows : \E n \in DOMAIN pins[b] : pins[b][n].pin = i
        \/ access[i].lost \/ access[i].row.of \notin account
        \/ \E j \in Matches(access, access[i]) :
              /\ j < i
              /\ access[j].row = access[i].row =>
                    access[j].lost \/ access[i].row \in overlapped

\* Once staff leave a reservation alone, every row the passes follow has its
\* status and its room: a failed fetch, an abandoned pass or one that overtook
\* another is made good by a later one.
DriftGoesAway ==
    <>[]\A b \in Rows : Active(b) =>
          /\ row[b].status = pms[b.of].status
          /\ pms[b.of].room \in {NoRoom, row[b].room}

\* Every reservation that stays in eZee and in the days that are listed comes to
\* have a row with its number, our own ones too whose worker died before it
\* stored it.  One that is first entered after its day of arrival, or whose days
\* go by while no pass gets through, is never taken in.
KnownInTheEnd ==
    <>[]\A r \in Listed :
          pms[r].status \in {"CONFIRMED", "CHECKED_IN"} =>
              \E b \in Rows : row[b].there /\ row[b].number /\ b.of = r
=============================================================================
