----------------------------- MODULE StayGuests -----------------------------
(***************************************************************************)
(* Who stays under one booking: the guests linked to it, the slots they    *)
(* hold and the KYC submissions made for the slots (GuestKycService, the   *)
(* link and slot half of GuestBookingService, autoLinkBookings of          *)
(* GuestAuthService), while the booking's payment succeeds or fails        *)
(* (PaymentService.rollbackPendingBooking).                                *)
(*                                                                         *)
(* None of the guest calls is a transaction: every await is a point where  *)
(* another call may run or where this one may be cut.  The database keeps  *)
(* what prisma/schema.prisma declares: a guest is linked once, a number is *)
(* used once per booking, and a slot with a submission cannot be deleted.  *)
(* The form itself, its images and the OCR are not modelled, and VERIFIED, *)
(* which no code writes, is a status no slot here ever has.  Identifiers   *)
(* are UUIDs in the code; here one is used again only when no row and no   *)
(* running call holds it, which nobody can tell from a new one.            *)
(***************************************************************************)
EXTENDS Naturals, FiniteSets

CONSTANTS
    Calls,            \* calls that can be running at one time
    Guests,           \* guest accounts
    Bookers,          \* those whose email or phone is the booker's
    NoGuest,          \* "not assigned"
    Party,            \* no_of_guests of the booking
    MaxSlots,         \* bound: slots at one time
    MaxNumber,        \* bound: slot numbers
    Submissions       \* bound: identifiers of kyc_submissions rows

ASSUME GuestsAssumption == Bookers \subseteq Guests /\ NoGuest \notin Guests
ASSUME BoundsAssumption ==
    /\ Party \in Nat \ {0} /\ MaxSlots \in Nat /\ MaxNumber \in Nat

Slots == 1..MaxSlots    \* identifiers of booking_slots rows

ASSUME SubmissionsAssumption == 0 \notin Submissions

VARIABLES
    booking,      \* the booking's status, and whether it is_active
    linked,       \* guests with a row in booking_guest_access
    slot,         \* booking_slots
    submission,   \* kyc_submissions
    call,         \* what each running call has read and is about to do
    stripped      \* slots whose submissions a deletion has removed

vars == <<booking, linked, slot, submission, call, stripped>>
-----------------------------------------------------------------------------
Gone == [number |-> 0, guest |-> NoGuest, kyc |-> "none"]
Unsent == [slot |-> 0, by |-> NoGuest]

Steps == {"idle", "create_link", "auto_link", "ensure_slots", "create_slots",
          "reread_slots", "assign", "read_numbers", "add_slot",
          "find_submission", "save", "mark_slot", "delete_kyc",
          "delete_slot", "rollback_tx"}

Idle == [at |-> "idle", guest |-> NoGuest, slot |-> 0, found |-> 0]

Marking(s) == [Idle EXCEPT !.at = "mark_slot", !.slot = s]

Exists(s) == slot[s].number # 0
Existing == {s \in Slots : Exists(s)}
Numbers == {slot[s].number : s \in Existing}
Of(s) == {k \in Submissions : submission[k].slot = s}

\* What the guest is shown: the slots whose KYC counts as completed, and
\* whether the page of a slot has a submission on it.
KycCompleted == {s \in Existing : slot[s].kyc = "PRE_VERIFIED"}
Shown(s) == Of(s) # {}

\* The first unassigned slot by number, 0 if every slot is assigned.
FirstUnassigned ==
    LET free == {s \in Existing : slot[s].guest = NoGuest}
    IN  IF free = {} THEN 0
        ELSE CHOOSE s \in free :
                \A t \in free : slot[s].number <= slot[t].number

\* Identifiers that are as good as new.
FreeSlots ==
    Slots \ (Existing \cup {call[c].slot : c \in Calls}
               \cup {call[c].found : c \in {d \in Calls : call[d].at = "assign"}})
FreeSubmissions ==
    {k \in Submissions : submission[k] = Unsent}
      \ {call[c].found : c \in {d \in Calls : call[d].at = "save"}}

\* `slot` with n more rows, unassigned, numbered from `first`.
Numbered(first, n) ==
    LET rank(s) == Cardinality({t \in FreeSlots : t < s})
    IN  [s \in Slots |->
            IF s \in FreeSlots /\ rank(s) < n
            THEN [number |-> first + rank(s), guest |-> NoGuest,
                  kyc |-> "NOT_STARTED"]
            ELSE slot[s]]

Continue(c, at) == call' = [call EXCEPT ![c].at = at]
Answer(c) == call' = [call EXCEPT ![c] = Idle]
-----------------------------------------------------------------------------
(* The rows the model starts from. *)

\* createBookingOrder made the booking for its guest g, with the slots.
Reserved(g) ==
    /\ booking = [status |-> "PENDING_PAYMENT", active |-> TRUE]
    /\ linked = {g}
    /\ slot = [s \in Slots |->
                 IF s \in 1..Party
                 THEN [number |-> s, guest |-> IF s = 1 THEN g ELSE NoGuest,
                       kyc |-> "NOT_STARTED"]
                 ELSE Gone]

\* ingestExternalBookings made it, linking one account of the booker, if any.
Ingested ==
    /\ booking = [status |-> "CONFIRMED", active |-> TRUE]
    /\ linked \in {{}} \cup {{g} : g \in Bookers}
    /\ slot = [s \in Slots |-> Gone]

Init ==
    /\ Ingested \/ \E g \in Guests : Reserved(g)
    /\ submission = [k \in Submissions |-> Unsent]
    /\ call = [c \in Calls |-> Idle]
    /\ stripped = {}
-----------------------------------------------------------------------------
(* Linking. *)

\* Mutant of StartLink: the guest is given a slot before the link is made.
StartLinkSlotFirst(c, g) ==
    /\ call[c] = Idle
    /\ call' = [call EXCEPT ![c] =
                  [Idle EXCEPT !.at = "ensure_slots", !.guest = g]]
    /\ UNCHANGED <<booking, linked, slot, submission, stripped>>

\* linkBooking reads whether the guest is linked already.
StartLink(c, g) ==
    /\ call[c] = Idle
    /\ call' = [call EXCEPT ![c] =
                  [Idle EXCEPT !.at = IF g \in linked THEN "ensure_slots"
                                      ELSE "create_link",
                               !.guest = g]]
    /\ UNCHANGED <<booking, linked, slot, submission, stripped>>

\* autoLinkBookings, after any authentication of a guest, finds the booking
\* by the guest's email or phone and filters out the ones already linked.
StartAutoLink(c, g) ==
    /\ call[c] = Idle
    /\ g \in Bookers \ linked /\ booking.active
    /\ call' = [call EXCEPT ![c] =
                  [Idle EXCEPT !.at = "auto_link", !.guest = g]]
    /\ UNCHANGED <<booking, linked, slot, submission, stripped>>

\* The access row; the unique key refuses a second one and ends the call.
CreateLink(c) ==
    LET g == call[c].guest
    IN  /\ call[c].at \in {"create_link", "auto_link"}
        /\ linked' = linked \cup {g}
        /\ IF g \in linked \/ call[c].at = "auto_link" THEN Answer(c)
           ELSE Continue(c, "ensure_slots")
        /\ UNCHANGED <<booking, slot, submission, stripped>>

\* ensureSlots lists the slots, again once it has created them, and picks the
\* first unassigned one.
ReadSlots(c) ==
    LET creating == call[c].at = "ensure_slots" /\ Existing = {}
    IN  /\ call[c].at \in {"ensure_slots", "reread_slots"}
        /\ CASE creating -> Continue(c, "create_slots")
             [] ~creating /\ FirstUnassigned # 0 ->
                   call' = [call EXCEPT ![c].at = "assign",
                                        ![c].found = FirstUnassigned]
             [] OTHER -> Answer(c)
        /\ UNCHANGED <<booking, linked, slot, submission, stripped>>

\* createMany: one statement, refused whole when a number is taken.
CreateSlots(c) ==
    /\ call[c].at = "create_slots"
    /\ Cardinality(FreeSlots) >= Party
    /\ IF Numbers \cap (1..Party) # {}
       THEN /\ Answer(c)
            /\ UNCHANGED slot
       ELSE /\ Continue(c, "reread_slots")
            /\ slot' = Numbered(1, Party)
    /\ UNCHANGED <<booking, linked, submission, stripped>>

\* The update goes by id: whoever holds the slot by now is overwritten, and a
\* slot that is gone is an error.
Assign(c) ==
    LET s == call[c].found
    IN  /\ call[c].at = "assign"
        /\ slot' = IF Exists(s) THEN [slot EXCEPT ![s].guest = call[c].guest]
                   ELSE slot
        /\ Answer(c)
        /\ UNCHANGED <<booking, linked, submission, stripped>>
-----------------------------------------------------------------------------
(* Slots and KYC. *)

\* addSlot, submitKyc and deleteSlot begin with verifyBookingAccess.
StartAddSlot(c, g) ==
    /\ call[c] = Idle
    /\ g \in linked
    /\ Continue(c, "read_numbers")
    /\ UNCHANGED <<booking, linked, slot, submission, stripped>>

\* submitKyc and deleteSlot read the slot next.  The two reads are one step:
\* a slot that goes between them only ends the call, as Cut may.
StartSubmitKyc(c, g) ==
    /\ call[c] = Idle
    /\ g \in linked
    /\ \E s \in Existing :
          call' = [call EXCEPT ![c] = [Idle EXCEPT !.at = "find_submission",
                                                  !.guest = g, !.slot = s]]
    /\ UNCHANGED <<booking, linked, slot, submission, stripped>>

StartDeleteSlot(c, g) ==
    /\ call[c] = Idle
    /\ g \in linked
    /\ \E s \in Existing :
          call' = [call EXCEPT ![c] = [Idle EXCEPT !.at = "delete_kyc",
                                                  !.slot = s]]
    /\ UNCHANGED <<booking, linked, slot, submission, stripped>>

\* The next number is one more than the highest.
ReadNumbers(c) ==
    /\ call[c].at = "read_numbers"
    /\ call' = [call EXCEPT
                  ![c].at = "add_slot",
                  ![c].found = 1 + (CHOOSE n \in Numbers \cup {0} :
                                      \A m \in Numbers : m <= n)]
    /\ UNCHANGED <<booking, linked, slot, submission, stripped>>

AddSlot(c) ==
    /\ call[c].at = "add_slot"
    /\ FreeSlots # {} /\ call[c].found <= MaxNumber
    /\ slot' = IF call[c].found \in Numbers THEN slot
               ELSE Numbered(call[c].found, 1)
    /\ Answer(c)
    /\ UNCHANGED <<booking, linked, submission, stripped>>

\* Mutant of FindSubmission: the slot is marked before the submission is saved.
FindSubmissionMarking(c) ==
    /\ call[c].at = "find_submission"
    /\ \E k \in IF Of(call[c].slot) = {} THEN {0} ELSE Of(call[c].slot) :
          call' = [call EXCEPT ![c].at = "save", ![c].found = k]
    /\ slot' = IF Exists(call[c].slot)
               THEN [slot EXCEPT ![call[c].slot].kyc = "PRE_VERIFIED"]
               ELSE slot
    /\ UNCHANGED <<booking, linked, submission, stripped>>

\* findFirst without an order: any submission of the slot.
FindSubmission(c) ==
    /\ call[c].at = "find_submission"
    /\ \E k \in IF Of(call[c].slot) = {} THEN {0} ELSE Of(call[c].slot) :
          call' = [call EXCEPT ![c].at = "save", ![c].found = k]
    /\ UNCHANGED <<booking, linked, slot, submission, stripped>>

\* The submission is updated, which fails if it is gone, or created, which
\* fails if its slot is gone.
Save(c) ==
    LET k == call[c].found
        s == call[c].slot
        row == [slot |-> s, by |-> call[c].guest]
    IN  /\ call[c].at = "save"
        /\ \/ /\ k # 0 /\ submission[k] # Unsent
              /\ submission' = [submission EXCEPT ![k] = row]
              /\ stripped' = stripped \ {s}
              /\ call' = [call EXCEPT ![c] = Marking(s)]
           \/ /\ k = 0 /\ Exists(s)
              /\ \E new \in FreeSubmissions :
                    submission' = [submission EXCEPT ![new] = row]
              /\ stripped' = stripped \ {s}
              /\ call' = [call EXCEPT ![c] = Marking(s)]
           \/ /\ IF k = 0 THEN ~Exists(s) ELSE submission[k] = Unsent
              /\ Answer(c)
              /\ UNCHANGED <<submission, stripped>>
        /\ UNCHANGED <<booking, linked, slot>>

MarkSlot(c) ==
    LET s == call[c].slot
    IN  /\ call[c].at = "mark_slot"
        /\ slot' = IF Exists(s) THEN [slot EXCEPT ![s].kyc = "PRE_VERIFIED"]
                   ELSE slot
        /\ Answer(c)
        /\ UNCHANGED <<booking, linked, submission, stripped>>

\* deleteSlot removes the submissions first, for the foreign key.
DeleteKyc(c) ==
    LET s == call[c].slot
    IN  /\ call[c].at = "delete_kyc"
        /\ submission' = [k \in Submissions |->
                            IF k \in Of(s) THEN Unsent ELSE submission[k]]
        /\ stripped' = IF Of(s) = {} THEN stripped ELSE stripped \cup {s}
        /\ Continue(c, "delete_slot")
        /\ UNCHANGED <<booking, linked, slot>>

\* The slot itself; the foreign key refuses if a submission came meanwhile.
DeleteSlot(c) ==
    LET s == call[c].slot
    IN  /\ call[c].at = "delete_slot"
        /\ IF Of(s) = {}
           THEN /\ slot' = [slot EXCEPT ![s] = Gone]
                /\ stripped' = stripped \ {s}
           ELSE UNCHANGED <<slot, stripped>>
        /\ Answer(c)
        /\ UNCHANGED <<booking, linked, submission>>
-----------------------------------------------------------------------------
(* The booking's payment, detailed in BookingPayment. *)

\* fulfilBookingOrder confirms a booking that is not confirmed, a cancelled
\* one too.
Confirm ==
    /\ booking.status # "CONFIRMED"
    /\ booking' = [booking EXCEPT !.status = "CONFIRMED"]
    /\ UNCHANGED <<linked, slot, submission, call, stripped>>

\* rollbackPendingBooking of a failed payment reads the booking...
StartRollback(c) ==
    /\ call[c] = Idle
    /\ booking.status = "PENDING_PAYMENT"
    /\ call' = [call EXCEPT ![c] = [Idle EXCEPT !.at = "rollback_tx"]]
    /\ UNCHANGED <<booking, linked, slot, submission, stripped>>

\* Mutant of RollbackTx: no transaction, and the links go first.
RollbackUnlinkingFirst(c) ==
    /\ call[c].at = "rollback_tx"
    /\ linked' = {}
    /\ IF \E s \in Existing : Of(s) # {}
       THEN UNCHANGED <<booking, slot, stripped>>
       ELSE /\ slot' = [s \in Slots |-> Gone]
            /\ stripped' = {}
            /\ booking' = [status |-> "CANCELLED", active |-> FALSE]
    /\ Answer(c)
    /\ UNCHANGED submission

\* ...and drops its slots and links in one transaction, which the foreign key
\* aborts when a slot has a submission: the error is the call's answer.
RollbackTx(c) ==
    /\ call[c].at = "rollback_tx"
    /\ IF \E s \in Existing : Of(s) # {}
       THEN UNCHANGED <<booking, linked, slot, stripped>>
       ELSE /\ slot' = [s \in Slots |-> Gone]
            /\ linked' = {}
            /\ stripped' = {}
            /\ booking' = [status |-> "CANCELLED", active |-> FALSE]
    /\ Answer(c)
    /\ UNCHANGED submission

\* A call ends before its last statement: the process dies, or a statement
\* fails.
Cut(c) ==
    /\ call[c] # Idle
    /\ Answer(c)
    /\ UNCHANGED <<booking, linked, slot, submission, stripped>>

Next ==
    \/ Confirm
    \/ \E c \in Calls :
          \/ \E g \in Guests : \/ StartLink(c, g) \/ StartAutoLink(c, g)
                               \/ StartAddSlot(c, g) \/ StartSubmitKyc(c, g)
                               \/ StartDeleteSlot(c, g)
          \/ CreateLink(c) \/ ReadSlots(c) \/ CreateSlots(c) \/ Assign(c)
          \/ ReadNumbers(c) \/ AddSlot(c)
          \/ FindSubmission(c) \/ Save(c) \/ MarkSlot(c)
          \/ DeleteKyc(c) \/ DeleteSlot(c)
          \/ StartRollback(c) \/ RollbackTx(c) \/ Cut(c)

Spec == Init /\ [][Next]_vars
-----------------------------------------------------------------------------
(* Properties. *)

\* Every variable keeps the shape its table or its call gives it.
TypeOK ==
    /\ booking \in [status : {"PENDING_PAYMENT", "CONFIRMED", "CANCELLED"},
                    active : BOOLEAN]
    /\ linked \subseteq Guests
    /\ slot \in [Slots -> [number : Nat, guest : Guests \cup {NoGuest},
                           kyc : {"none", "NOT_STARTED", "PRE_VERIFIED"}]]
    /\ submission \in [Submissions -> [slot : 0..MaxSlots,
                                       by : Guests \cup {NoGuest}]]
    /\ call \in [Calls -> [at : Steps, guest : Guests \cup {NoGuest},
                           slot : 0..MaxSlots,
                           found : Nat \cup Submissions]]
    /\ stripped \subseteq Slots

\* Whatever a submission is made of stays: its slot exists and its author is
\* still a guest of the booking, although the author's access was checked at
\* the start of a call and links and slots can be rolled back under it.
SubmitterIsLinked ==
    \A k \in Submissions : submission[k] # Unsent =>
        Exists(submission[k].slot) /\ submission[k].by \in linked

\* A slot that getMyBookings counts as completed has a submission for
\* getSlotDetail to show, however submissions and deletions overlap or are cut;
\* the one exception is a slot from which a deletion took it and that no guest
\* submitted again.
PreVerifiedMeansSubmitted ==
    \A s \in KycCompleted \ stripped : Shown(s)

\* As long as the booking was not rolled back, whoever holds a slot of it is
\* linked to it, wherever a link is cut.
HolderIsLinked ==
    booking.active => \A s \in Existing :
                         slot[s].guest = NoGuest \/ slot[s].guest \in linked
=============================================================================
