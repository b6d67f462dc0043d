-------------------------- MODULE StayGuestsProofs --------------------------
(***************************************************************************)
(* Proofs about StayGuests, for every number of guests, slots, submissions *)
(* and overlapping calls; and, at the end, about CheckIn.                  *)
(***************************************************************************)
EXTENDS StayGuests, CheckIn, FiniteSetTheorems, WellFoundedInduction, TLAPS

\* Slot numbers are bounded, so there is a highest one.
NumbersAreBounded == \A s \in Slots : slot[s].number <= Party + MaxNumber

\* The foreign key of kyc_submissions: a submission is of some slot.
SubmittedForASlot ==
    \A k \in Submissions : submission[k] # Unsent => submission[k].slot \in Slots

Linking == {"ensure_slots", "create_slots", "reread_slots", "assign"}
OnSlot == {"find_submission", "save", "mark_slot", "delete_kyc", "delete_slot"}

\* What a running call still relies on.  A link is lost only with the booking;
\* a slot that is gone stays gone while a call holds its identifier.
SoundCall(c) ==
    /\ call[c].at \in {"create_link", "auto_link"} \cup Linking =>
          call[c].guest \in Guests
    /\ call[c].at \in Linking /\ booking.active => call[c].guest \in linked
    /\ call[c].at \in OnSlot => call[c].slot \in Slots
    /\ call[c].at \in {"find_submission", "save"} /\ Exists(call[c].slot) =>
          call[c].guest \in linked
    /\ call[c].at = "save" =>
          \/ call[c].found = 0
          \/ /\ call[c].found \in Submissions
             /\ submission[call[c].found] = Unsent
                  \/ submission[call[c].found].slot = call[c].slot
    /\ call[c].at = "mark_slot" /\ Exists(call[c].slot) =>
          call[c].slot \in stripped \/ Shown(call[c].slot)
    /\ call[c].at = "assign" => call[c].found \in Slots
    /\ call[c].at = "add_slot" => call[c].found \in Nat \ {0}

\* The inductive invariant.
Inv ==
    /\ TypeOK
    /\ NumbersAreBounded
    /\ \A c \in Calls : SoundCall(c)
    /\ SubmittedForASlot
    /\ SubmitterIsLinked
    /\ PreVerifiedMeansSubmitted
    /\ HolderIsLinked
-----------------------------------------------------------------------------
(* Slots and their numbers. *)

\* The rows of TypeOK, by name.
CallRow == [at : Steps, guest : Guests \cup {NoGuest}, slot : 0..MaxSlots,
            found : Nat \cup Submissions]
SlotRow == [number : Nat, guest : Guests \cup {NoGuest},
            kyc : {"none", "NOT_STARTED", "PRE_VERIFIED"}]
SubmissionRow == [slot : 0..MaxSlots, by : Guests \cup {NoGuest}]

LEMMA RowTypes ==
    TypeOK => /\ linked \subseteq Guests /\ stripped \subseteq Slots
              /\ slot \in [Slots -> SlotRow]
              /\ submission \in [Submissions -> SubmissionRow]
              /\ call \in [Calls -> CallRow]
BY DEF TypeOK, SlotRow, SubmissionRow, CallRow

LEMMA IdleIsCall == Idle \in CallRow
BY BoundsAssumption DEF Idle, Steps, CallRow

\* A set of numbers has a lowest one.
LEMMA HasLowest ==
    ASSUME NEW S \in SUBSET Nat, S # {}
    PROVE  \E low \in S : \A m \in S : low <= m
<1>1. PICK low \in S : \A m \in S : <<m, low>> \notin OpToRel(<, Nat)
  BY NatLessThanWellFounded, WFMin
<1>2. ASSUME NEW m \in S
      PROVE  low <= m
  <2>1. m \in Nat /\ low \in Nat
    OBVIOUS
  <2>2. ~(m < low)
    BY <1>1, <2>1 DEF OpToRel
  <2>3. QED
    BY <2>1, <2>2
<1>3. QED
  BY <1>2

\* A set of numbers with a bound has a highest one.
LEMMA BoundedHasMax ==
    ASSUME NEW S \in SUBSET Nat, S # {}, NEW n \in Nat, \A m \in S : m <= n
    PROVE  \E top \in S : \A m \in S : m <= top
<1> DEFINE T == {n - m : m \in S}
<1>1. T \subseteq Nat /\ T # {}
  <2>1. ASSUME NEW m \in S
        PROVE  n - m \in Nat
    <3>1. m \in Nat /\ m <= n
      OBVIOUS
    <3>2. QED
      BY <3>1
  <2>2. QED
    BY <2>1
<1>2. PICK x \in T : \A y \in T : x <= y
  BY <1>1, HasLowest
<1>3. PICK top \in S : x = n - top
  OBVIOUS
<1>4. ASSUME NEW m \in S
      PROVE  m <= top
  <2>1. n - top <= n - m
    BY <1>2, <1>3
  <2>2. QED
    BY <2>1
<1>5. QED
  BY <1>4

\* The unassigned slot that ensureSlots picks, if there is one, exists.
LEMMA FirstIsASlot ==
    ASSUME TypeOK, FirstUnassigned # 0
    PROVE  FirstUnassigned \in Existing
<1> DEFINE free == {s \in Existing : slot[s].guest = NoGuest}
           numbers == {slot[s].number : s \in free}
<1>1. free # {} /\ free \subseteq Existing
  BY DEF FirstUnassigned
<1>2. \A s \in free : slot[s].number \in Nat
  BY DEF TypeOK, Existing
<1>3. numbers \subseteq Nat /\ numbers # {}
  BY <1>1, <1>2
<1>4. PICK low \in numbers : \A m \in numbers : low <= m
  BY <1>3, HasLowest
<1>5. \E s \in free : \A t \in free : slot[s].number <= slot[t].number
  BY <1>4
<1>6. FirstUnassigned =
         CHOOSE s \in free : \A t \in free : slot[s].number <= slot[t].number
  BY <1>1 DEF FirstUnassigned
<1>7. QED
  BY <1>1, <1>5, <1>6

\* The number that addSlot computes is one more than some number, or 1.
LEMMA NextNumber ==
    ASSUME TypeOK, NumbersAreBounded
    PROVE  1 + (CHOOSE n \in Numbers \cup {0} : \A m \in Numbers : m <= n)
             \in Nat \ {0}
<1>1. Numbers \cup {0} \subseteq Nat
  BY DEF TypeOK, Numbers, Existing
<1>2. Party + MaxNumber \in Nat
  BY BoundsAssumption
<1>3. \A m \in Numbers \cup {0} : m <= Party + MaxNumber
  BY <1>2 DEF NumbersAreBounded, Numbers, Existing
<1>4. \E top \in Numbers \cup {0} : \A m \in Numbers \cup {0} : m <= top
  BY <1>1, <1>2, <1>3, BoundedHasMax
<1>5. (CHOOSE n \in Numbers \cup {0} : \A m \in Numbers : m <= n) \in Numbers \cup {0}
  BY <1>4
<1> DEFINE top == CHOOSE n \in Numbers \cup {0} : \A m \in Numbers : m <= n
<1>6. top \in Nat
  BY <1>1, <1>5
<1> HIDE DEF top
<1>7. 1 + top \in Nat \ {0}
  BY <1>6
<1>8. QED
  BY <1>7 DEF top

\* New rows go only where there was no row and no call holds the identifier.
LEMMA NumberedRows ==
    ASSUME TypeOK, NEW first \in Nat \ {0}, NEW n \in Nat, NEW s \in Slots
    PROVE  \/ Numbered(first, n)[s] = slot[s]
           \/ /\ s \in FreeSlots /\ ~Exists(s)
              /\ \A c \in Calls : call[c].slot # s
              /\ \E m \in Nat :
                    /\ 0 < m /\ m < first + n
                    /\ Numbered(first, n)[s] =
                          [number |-> m, guest |-> NoGuest, kyc |-> "NOT_STARTED"]
<1> DEFINE rank == Cardinality({t \in FreeSlots : t < s})
<1>1. IsFiniteSet({t \in FreeSlots : t < s})
  <2>1. IsFiniteSet(Slots)
    BY BoundsAssumption, FS_Interval DEF Slots
  <2>2. QED
    BY <2>1, FS_Subset DEF FreeSlots
<1>2. rank \in Nat
  BY <1>1, FS_CardinalityType
<1>3. CASE s \in FreeSlots /\ rank < n
  <2>1. Numbered(first, n)[s] =
           [number |-> first + rank, guest |-> NoGuest, kyc |-> "NOT_STARTED"]
    BY <1>3 DEF Numbered
  <2>2. ~Exists(s) /\ \A c \in Calls : call[c].slot # s
    BY <1>3 DEF FreeSlots, Existing
  <2> HIDE DEF rank
  <2>3. first + rank \in Nat /\ 0 < first + rank /\ first + rank < first + n
    BY <1>2, <1>3
  <2>4. QED
    BY <1>3, <2>1, <2>2, <2>3
<1>4. CASE ~(s \in FreeSlots /\ rank < n)
  BY <1>4 DEF Numbered
<1>5. QED
  BY <1>3, <1>4

\* A row that Numbered changes is a new one.
LEMMA NumberedNew ==
    ASSUME TypeOK, NEW first \in Nat \ {0}, NEW n \in Nat, NEW s \in Slots,
           Numbered(first, n)[s] # slot[s]
    PROVE  /\ ~Exists(s) /\ \A c \in Calls : call[c].slot # s
           /\ Numbered(first, n)[s].guest = NoGuest
           /\ Numbered(first, n)[s].kyc = "NOT_STARTED"
<1>1. s \in FreeSlots
  BY DEF Numbered
<1>2. /\ Numbered(first, n)[s].guest = NoGuest
      /\ Numbered(first, n)[s].kyc = "NOT_STARTED"
  BY <1>1 DEF Numbered
<1>3. ~Exists(s) /\ \A c \in Calls : call[c].slot # s
  BY <1>1 DEF FreeSlots, Existing
<1>4. QED
  BY <1>2, <1>3

LEMMA NumberedBound ==
    ASSUME TypeOK, NEW first \in Nat \ {0}, NEW n \in Nat, NEW s \in Slots,
           Numbered(first, n)[s] # slot[s]
    PROVE  /\ Numbered(first, n)[s].number \in Nat
           /\ Numbered(first, n)[s].number < first + n
<1>1. PICK m \in Nat :
         /\ m < first + n
         /\ Numbered(first, n)[s] =
               [number |-> m, guest |-> NoGuest, kyc |-> "NOT_STARTED"]
  <2>1. Numbered(first, n)[s] # slot[s] => \E m \in Nat :
           /\ m < first + n
           /\ Numbered(first, n)[s] =
                 [number |-> m, guest |-> NoGuest, kyc |-> "NOT_STARTED"]
    BY NumberedRows
  <2>2. QED
    BY <2>1
<1>2. Numbered(first, n)[s].number = m
  BY <1>1
<1>3. QED
  BY <1>1, <1>2

LEMMA NumberedType ==
    ASSUME TypeOK, NEW first \in Nat \ {0}, NEW n \in Nat
    PROVE  Numbered(first, n) \in [Slots -> SlotRow]
<1>1. ASSUME NEW s \in Slots
      PROVE  Numbered(first, n)[s] \in SlotRow
  <2>1. slot[s] \in SlotRow
    BY RowTypes
  <2>2. \A m \in Nat :
           [number |-> m, guest |-> NoGuest, kyc |-> "NOT_STARTED"] \in SlotRow
    BY DEF SlotRow
  <2>3. QED
    <3>1. CASE Numbered(first, n)[s] = slot[s]
      BY <2>1, <3>1
    <3>2. CASE Numbered(first, n)[s] # slot[s]
      <4>1. PICK m \in Nat : Numbered(first, n)[s] =
                  [number |-> m, guest |-> NoGuest, kyc |-> "NOT_STARTED"]
        BY <3>2, NumberedRows
      <4>2. QED
        BY <2>2, <4>1
    <3>3. QED
      BY <3>1, <3>2
<1>2. Numbered(first, n) = [s \in Slots |-> Numbered(first, n)[s]]
  BY DEF Numbered
<1>3. QED
  BY <1>1, <1>2
-----------------------------------------------------------------------------
LEMMA InitInv == Init => Inv
<1> SUFFICES ASSUME Init PROVE Inv
  OBVIOUS
<1>0. /\ \A k \in Submissions : submission[k] = Unsent
      /\ \A c \in Calls : call[c] = Idle
      /\ stripped = {}
  BY DEF Init
<1>1. TypeOK /\ NumbersAreBounded /\ HolderIsLinked
  <2>1. submission \in [Submissions -> SubmissionRow] /\ stripped \subseteq Slots
    BY BoundsAssumption DEF Init, Unsent, SubmissionRow
  <2>2. call \in [Calls -> CallRow]
    BY IdleIsCall DEF Init
  <2>3. CASE Ingested
    <3>1. linked \subseteq Guests
      BY <2>3, GuestsAssumption DEF Ingested
    <3>2. slot \in [Slots -> SlotRow] /\ \A s \in Slots : slot[s].number = 0
      BY <2>3 DEF Ingested, Gone, SlotRow
    <3>3. booking \in [status : {"PENDING_PAYMENT", "CONFIRMED", "CANCELLED"},
                       active : BOOLEAN]
      BY <2>3 DEF Ingested
    <3>4. NumbersAreBounded /\ HolderIsLinked
      BY <3>2, BoundsAssumption DEF NumbersAreBounded, HolderIsLinked, Existing, Exists
    <3>5. QED
      BY <2>1, <2>2, <3>1, <3>2, <3>3, <3>4
      DEF TypeOK, SlotRow, SubmissionRow, CallRow
  <2>4. ASSUME NEW g \in Guests, Reserved(g)
        PROVE  TypeOK /\ NumbersAreBounded /\ HolderIsLinked
    <3>1. linked = {g}
          /\ booking \in [status : {"PENDING_PAYMENT", "CONFIRMED", "CANCELLED"},
                          active : BOOLEAN]
      BY <2>4 DEF Reserved
    <3>2. slot \in [Slots -> [number : Nat, guest : {g, NoGuest},
                              kyc : {"none", "NOT_STARTED", "PRE_VERIFIED"}]]
      BY <2>4 DEF Reserved, Gone, Slots
    <3>3. \A s \in Slots : slot[s].number <= Party + MaxNumber
      BY <2>4, BoundsAssumption DEF Reserved, Gone, Slots
    <3>4. HolderIsLinked
      BY <3>1, <3>2 DEF HolderIsLinked, Existing
    <3>5. QED
      BY <2>1, <2>2, <3>1, <3>2, <3>3, <3>4
      DEF TypeOK, NumbersAreBounded, SubmissionRow, CallRow
  <2>5. QED
    BY <2>3, <2>4 DEF Init
<1>2. \A c \in Calls : SoundCall(c)
  BY <1>0 DEF SoundCall, Idle, Linking, OnSlot
<1>3. SubmitterIsLinked /\ SubmittedForASlot
  BY <1>0 DEF SubmitterIsLinked, SubmittedForASlot
<1>4. PreVerifiedMeansSubmitted
  <2>1. \A s \in Slots : slot[s].kyc # "PRE_VERIFIED"
    BY DEF Init, Ingested, Reserved, Gone
  <2>2. QED
    BY <2>1 DEF PreVerifiedMeansSubmitted, KycCompleted, Existing
<1>5. QED
  BY <1>1, <1>2, <1>3, <1>4 DEF Inv
-----------------------------------------------------------------------------
(* The steps, by what they write. *)

\* Steps that read, decide and remember.
Reading(c) ==
    \/ \E g \in Guests : \/ StartLink(c, g) \/ StartAutoLink(c, g)
                         \/ StartAddSlot(c, g) \/ StartSubmitKyc(c, g)
                         \/ StartDeleteSlot(c, g)
    \/ ReadSlots(c) \/ ReadNumbers(c) \/ FindSubmission(c)
    \/ StartRollback(c) \/ Cut(c)

\* Steps that write rows of booking_slots.
SlotWriting(c) == CreateSlots(c) \/ Assign(c) \/ AddSlot(c) \/ MarkSlot(c)

\* Every step is of one kind.
LEMMA StepKinds ==
    ASSUME [Next]_vars
    PROVE  \/ UNCHANGED vars
           \/ Confirm
           \/ \E c \in Calls :
                 \/ Reading(c) \/ CreateLink(c) \/ SlotWriting(c) \/ Save(c)
                 \/ DeleteKyc(c) \/ DeleteSlot(c) \/ RollbackTx(c)
BY DEF Next, Reading, SlotWriting

\* What each kind leaves alone.
LEMMA LeftAlone ==
    ASSUME NEW c \in Calls
    PROVE  /\ Reading(c) => UNCHANGED <<booking, linked, slot, submission, stripped>>
           /\ CreateLink(c) => UNCHANGED <<booking, slot, submission, stripped>>
           /\ SlotWriting(c) => UNCHANGED <<booking, linked, submission, stripped>>
           /\ Save(c) => UNCHANGED <<booking, linked, slot>>
           /\ DeleteKyc(c) => UNCHANGED <<booking, linked, slot>>
           /\ DeleteSlot(c) => UNCHANGED <<booking, linked, submission>>
           /\ RollbackTx(c) => UNCHANGED submission
<1>1. Reading(c) => UNCHANGED <<booking, linked, slot, submission, stripped>>
  <2>1. ReadSlots(c) => UNCHANGED <<booking, linked, slot, submission, stripped>>
    BY Zenon DEF ReadSlots
  <2>2. QED
    BY <2>1
    DEF Reading, StartLink, StartAutoLink, StartAddSlot, StartSubmitKyc,
        StartDeleteSlot, ReadNumbers, FindSubmission, StartRollback, Cut
<1>2. SlotWriting(c) => UNCHANGED <<booking, linked, submission, stripped>>
  BY DEF SlotWriting, CreateSlots, Assign, AddSlot, MarkSlot
<1>3. QED
  BY <1>1, <1>2 DEF CreateLink, Save, DeleteKyc, DeleteSlot, RollbackTx
-----------------------------------------------------------------------------
\* The rows that a step writes are rows, and their numbers stay bounded.
LEMMA TypeStep ==
    ASSUME Inv, [Next]_vars
    PROVE  TypeOK' /\ NumbersAreBounded'
<1>0. /\ TypeOK /\ NumbersAreBounded /\ \A c \in Calls : SoundCall(c)
      /\ linked \subseteq Guests /\ stripped \subseteq Slots
      /\ slot \in [Slots -> SlotRow]
      /\ submission \in [Submissions -> SubmissionRow]
      /\ call \in [Calls -> CallRow]
      /\ booking \in [status : {"PENDING_PAYMENT", "CONFIRMED", "CANCELLED"},
                      active : BOOLEAN]
  BY RowTypes DEF Inv, TypeOK
<1>1. booking' \in [status : {"PENDING_PAYMENT", "CONFIRMED", "CANCELLED"},
                    active : BOOLEAN]
  <2>1. CASE booking' = booking
    BY <1>0, <2>1
  <2>2. CASE Confirm
    BY <1>0, <2>2 DEF Confirm
  <2>3. ASSUME NEW c \in Calls, RollbackTx(c)
        PROVE  booking' \in [status : {"PENDING_PAYMENT", "CONFIRMED", "CANCELLED"},
                              active : BOOLEAN]
    <3>1. booking' \in {booking, [status |-> "CANCELLED", active |-> FALSE]}
      BY <2>3 DEF RollbackTx
    <3>2. [status |-> "CANCELLED", active |-> FALSE]
             \in [status : {"PENDING_PAYMENT", "CONFIRMED", "CANCELLED"},
                  active : BOOLEAN]
      OBVIOUS
    <3>3. QED
      BY <1>0, <3>1, <3>2
  <2>4. QED
    BY <1>0, <2>1, <2>2, <2>3, StepKinds, LeftAlone DEF vars
<1>2. linked' \subseteq Guests
  <2>1. ASSUME NEW c \in Calls, CreateLink(c)
        PROVE  call[c].guest \in Guests
    BY <1>0, <2>1 DEF CreateLink, SoundCall, Linking
  <2>2. ASSUME NEW c \in Calls, CreateLink(c) \/ RollbackTx(c)
        PROVE  linked' \subseteq Guests
    BY <1>0, <2>1, <2>2 DEF CreateLink, RollbackTx
  <2>3. QED
    BY <1>0, <2>2, StepKinds, LeftAlone DEF vars, Confirm
<1>3. ASSUME NEW c \in Calls, AddSlot(c)
      PROVE  /\ slot' \in [Slots -> SlotRow]
             /\ \A s \in Slots : slot'[s].number <= Party + MaxNumber
  <2> DEFINE first == call[c].found
  <2>1. first \in Nat \ {0} /\ first <= MaxNumber
    BY <1>0, <1>3 DEF AddSlot, SoundCall
  <2>2. Numbered(first, 1) \in [Slots -> SlotRow]
    BY <1>0, <2>1, NumberedType
  <2>3. ASSUME NEW s \in Slots
        PROVE  Numbered(first, 1)[s].number <= Party + MaxNumber
    <3> HIDE DEF first
    <3>1. CASE Numbered(first, 1)[s] = slot[s]
      BY <1>0, <3>1 DEF NumbersAreBounded
    <3>2. CASE Numbered(first, 1)[s] # slot[s]
      <4>1. Party \in Nat \ {0} /\ MaxNumber \in Nat /\ 1 \in Nat
        BY BoundsAssumption
      <4>2. /\ Numbered(first, 1)[s].number \in Nat
            /\ Numbered(first, 1)[s].number < first + 1
        BY <1>0, <2>1, <3>2, <4>1, NumberedBound
      <4>3. QED
        BY <2>1, <4>1, <4>2
    <3>3. QED
      BY <3>1, <3>2
  <2>4. QED
    BY <1>0, <1>3, <2>2, <2>3 DEF AddSlot, NumbersAreBounded
<1>4. ASSUME NEW c \in Calls, CreateSlots(c)
      PROVE  /\ slot' \in [Slots -> SlotRow]
             /\ \A s \in Slots : slot'[s].number <= Party + MaxNumber
  <2>1. Numbered(1, Party) \in [Slots -> SlotRow]
    BY <1>0, BoundsAssumption, NumberedType
  <2>2. ASSUME NEW s \in Slots
        PROVE  Numbered(1, Party)[s].number <= Party + MaxNumber
    <3>1. CASE Numbered(1, Party)[s] = slot[s]
      BY <1>0, <3>1 DEF NumbersAreBounded
    <3>2. CASE Numbered(1, Party)[s] # slot[s]
      <4>1. Party \in Nat /\ MaxNumber \in Nat /\ 1 \in Nat \ {0}
        BY BoundsAssumption
      <4>2. /\ Numbered(1, Party)[s].number \in Nat
            /\ Numbered(1, Party)[s].number < 1 + Party
        BY <1>0, <3>2, <4>1, NumberedBound
      <4>3. QED
        BY <4>1, <4>2
    <3>3. QED
      BY <3>1, <3>2
  <2>3. QED
    BY <1>0, <1>4, <2>1, <2>2 DEF CreateSlots, NumbersAreBounded
<1>5. ASSUME NEW c \in Calls,
             Assign(c) \/ MarkSlot(c) \/ DeleteSlot(c) \/ RollbackTx(c)
      PROVE  /\ slot' \in [Slots -> SlotRow]
             /\ \A s \in Slots : slot'[s].number <= Party + MaxNumber
  <2>1. Gone \in SlotRow /\ Gone.number = 0
    BY DEF Gone, SlotRow
  <2>2. CASE Assign(c)
    <3>1. call[c].guest \in Guests \cup {NoGuest}
      BY <1>0 DEF CallRow
    <3>2. QED
      BY <1>0, <2>2, <3>1 DEF Assign, SlotRow, NumbersAreBounded
  <2>3. CASE MarkSlot(c)
    BY <1>0, <2>3 DEF MarkSlot, SlotRow, NumbersAreBounded
  <2>4. CASE DeleteSlot(c) \/ RollbackTx(c)
    <3>1. \A s \in Slots : slot'[s] \in {slot[s], Gone}
      BY <1>0, <2>4 DEF DeleteSlot, RollbackTx
    <3>2. slot' = [s \in Slots |-> slot'[s]]
      BY <1>0, <2>4 DEF DeleteSlot, RollbackTx
    <3>3. 0 <= Party + MaxNumber
      BY BoundsAssumption
    <3>4. QED
      BY <1>0, <2>1, <3>1, <3>2, <3>3 DEF NumbersAreBounded
  <2>5. QED
    BY <1>5, <2>2, <2>3, <2>4
<1>6. /\ slot' \in [Slots -> SlotRow]
      /\ \A s \in Slots : slot'[s].number <= Party + MaxNumber
  <2>1. CASE slot' = slot
    BY <1>0, <2>1 DEF NumbersAreBounded
  <2>2. QED
    BY <1>3, <1>4, <1>5, <2>1, StepKinds, LeftAlone DEF vars, Confirm, SlotWriting
<1>7. submission' \in [Submissions -> SubmissionRow] /\ stripped' \subseteq Slots
  <2>1. CASE UNCHANGED <<submission, stripped>>
    BY <1>0, <2>1
  <2>2. ASSUME NEW c \in Calls, Save(c)
        PROVE  submission' \in [Submissions -> SubmissionRow]
               /\ stripped' \subseteq stripped
    <3>1. [slot |-> call[c].slot, by |-> call[c].guest] \in SubmissionRow
      BY <1>0 DEF CallRow, SubmissionRow
    <3>2. QED
      BY <1>0, <2>2, <3>1 DEF Save
  <2>3. ASSUME NEW c \in Calls, DeleteKyc(c)
        PROVE  submission' \in [Submissions -> SubmissionRow]
               /\ stripped' \subseteq Slots
    <3>1. Unsent \in SubmissionRow
      BY BoundsAssumption DEF Unsent, SubmissionRow
    <3>2. call[c].slot \in Slots
      BY <1>0, <2>3 DEF DeleteKyc, SoundCall, OnSlot
    <3>3. QED
      BY <1>0, <2>3, <3>1, <3>2 DEF DeleteKyc
  <2>4. ASSUME NEW c \in Calls, DeleteSlot(c) \/ RollbackTx(c)
        PROVE  submission' = submission /\ stripped' \subseteq stripped
    BY <2>4 DEF DeleteSlot, RollbackTx
  <2>5. QED
    BY <1>0, <2>1, <2>2, <2>3, <2>4, StepKinds, LeftAlone DEF vars, Confirm
<1>8. call' \in [Calls -> CallRow]
  <2>1. 0 \in 0..MaxSlots /\ NoGuest \in Guests \cup {NoGuest}
        /\ Slots \subseteq 0..MaxSlots /\ Slots \subseteq Nat
    BY BoundsAssumption DEF Slots
  <2>2. ASSUME NEW c \in Calls, NEW entry \in CallRow,
               call' = [call EXCEPT ![c] = entry]
        PROVE  call' \in [Calls -> CallRow]
    BY <1>0, <2>2
  <2>3. ASSUME NEW c \in Calls, NEW at \in Steps, Continue(c, at)
        PROVE  call' \in [Calls -> CallRow]
    BY <1>0, <2>3 DEF Continue, CallRow
  <2>4. ASSUME NEW c \in Calls, Answer(c)
        PROVE  call' \in [Calls -> CallRow]
    BY <2>2, <2>4, IdleIsCall DEF Answer
  <2>5. ASSUME NEW c \in Calls, NEW at \in Steps, NEW n \in Nat \cup Submissions,
               call' = [call EXCEPT ![c].at = at, ![c].found = n]
        PROVE  call' \in [Calls -> CallRow]
    BY <1>0, <2>5 DEF CallRow
  <2>6. ASSUME NEW c \in Calls, NEW g \in Guests,
               StartLink(c, g) \/ StartAutoLink(c, g)
        PROVE  call' \in [Calls -> CallRow]
    <3>1. ASSUME NEW at \in Steps
          PROVE  [Idle EXCEPT !.at = at, !.guest = g] \in CallRow
      BY <2>1 DEF Idle, CallRow
    <3>2. CASE StartLink(c, g)
      <4>1. (IF g \in linked THEN "ensure_slots" ELSE "create_link") \in Steps
        BY DEF Steps
      <4>2. QED
        BY <2>2, <3>1, <3>2, <4>1 DEF StartLink
    <3>3. CASE StartAutoLink(c, g)
      <4>1. [Idle EXCEPT !.at = "auto_link", !.guest = g] \in CallRow
        BY <3>1 DEF Steps
      <4>2. QED
        BY <2>2, <3>3, <4>1 DEF StartAutoLink
    <3>4. QED
      BY <2>6, <3>2, <3>3
  <2>7. ASSUME NEW c \in Calls, NEW g \in Guests, StartSubmitKyc(c, g)
        PROVE  call' \in [Calls -> CallRow]
    <3>1. PICK s \in Existing :
             call' = [call EXCEPT ![c] = [Idle EXCEPT !.at = "find_submission",
                                                     !.guest = g, !.slot = s]]
      BY <2>7 DEF StartSubmitKyc
    <3>2. [Idle EXCEPT !.at = "find_submission", !.guest = g, !.slot = s] \in CallRow
      BY <2>1 DEF Idle, CallRow, Steps, Existing
    <3>3. QED
      BY <2>2, <3>1, <3>2
  <2>8. ASSUME NEW c \in Calls, NEW g \in Guests, StartDeleteSlot(c, g)
        PROVE  call' \in [Calls -> CallRow]
    <3>1. PICK s \in Existing :
             call' = [call EXCEPT ![c] = [Idle EXCEPT !.at = "delete_kyc",
                                                     !.slot = s]]
      BY <2>8 DEF StartDeleteSlot
    <3>2. [Idle EXCEPT !.at = "delete_kyc", !.slot = s] \in CallRow
      BY <2>1 DEF Idle, CallRow, Steps, Existing
    <3>3. QED
      BY <2>2, <3>1, <3>2
  <2>9. ASSUME NEW c \in Calls, ReadSlots(c)
        PROVE  call' \in [Calls -> CallRow]
    <3>1. FirstUnassigned # 0 => FirstUnassigned \in Nat
      BY <1>0, <2>1, FirstIsASlot DEF Existing
    <3>2. QED
      BY <2>3, <2>4, <2>5, <2>9, <3>1 DEF ReadSlots, Steps
  <2>10. ASSUME NEW c \in Calls, ReadNumbers(c)
         PROVE  call' \in [Calls -> CallRow]
    BY <1>0, <2>5, <2>10, NextNumber DEF ReadNumbers, Steps
  <2>11. ASSUME NEW c \in Calls, FindSubmission(c)
         PROVE  call' \in [Calls -> CallRow]
    <3>1. PICK k \in Submissions \cup {0} :
             call' = [call EXCEPT ![c].at = "save", ![c].found = k]
      BY <2>11 DEF FindSubmission, Of
    <3>2. QED
      BY <2>5, <3>1 DEF Steps
  <2>12. ASSUME NEW c \in Calls, Save(c)
         PROVE  call' \in [Calls -> CallRow]
    <3>1. call[c].slot \in 0..MaxSlots
      BY <1>0 DEF CallRow
    <3>2. Marking(call[c].slot) \in CallRow
      BY <2>1, <3>1 DEF Marking, Idle, CallRow, Steps
    <3>3. QED
      BY <2>2, <2>4, <2>12, <3>2 DEF Save
  <2>13. ASSUME NEW c \in Calls, StartRollback(c)
         PROVE  call' \in [Calls -> CallRow]
    <3>1. [Idle EXCEPT !.at = "rollback_tx"] \in CallRow
      BY <2>1 DEF Idle, CallRow, Steps
    <3>2. QED
      BY <2>2, <2>13, <3>1 DEF StartRollback
  <2>14. ASSUME NEW c \in Calls,
                \/ CreateLink(c) \/ CreateSlots(c) \/ Assign(c) \/ AddSlot(c)
                \/ MarkSlot(c) \/ DeleteKyc(c) \/ DeleteSlot(c)
                \/ RollbackTx(c) \/ Cut(c) \/ \E g \in Guests : StartAddSlot(c, g)
         PROVE  call' \in [Calls -> CallRow]
    <3>1. Answer(c) \/ \E at \in Steps : Continue(c, at)
      BY <2>14
      DEF CreateLink, CreateSlots, Assign, AddSlot, MarkSlot, DeleteKyc,
          DeleteSlot, RollbackTx, Cut, StartAddSlot, Steps
    <3>2. QED
      BY <2>3, <2>4, <3>1
  <2>15. CASE call' = call
    BY <1>0, <2>15
  <2>16. QED
    BY <2>6, <2>7, <2>8, <2>9, <2>10, <2>11, <2>12, <2>13, <2>14, <2>15, StepKinds
    DEF Reading, SlotWriting, vars, Confirm
<1>9. QED
  BY <1>1, <1>2, <1>6, <1>7, <1>8
  DEF TypeOK, SlotRow, SubmissionRow, CallRow, NumbersAreBounded
-----------------------------------------------------------------------------
(* What a step does to one slot, to one submission and to the links. *)

\* A slot is new, gone, given to a guest or marked, or it is as it was.  One
\* that goes had no submission.
LEMMA SlotsStep ==
    ASSUME Inv, [Next]_vars, NEW s \in Slots
    PROVE  \/ slot'[s] = slot[s]
           \/ /\ ~Exists(s) /\ \A c \in Calls : call[c].slot # s
              /\ slot'[s].guest = NoGuest /\ slot'[s].kyc = "NOT_STARTED"
           \/ slot'[s] = Gone /\ Of(s) = {}
           \/ \E c \in Calls :
                 /\ Assign(c) /\ Exists(s)
                 /\ slot'[s].number = slot[s].number /\ slot'[s].kyc = slot[s].kyc
                 /\ slot'[s].guest = call[c].guest
           \/ \E c \in Calls :
                 /\ MarkSlot(c) /\ Exists(s) /\ call[c].slot = s
                 /\ slot'[s].number = slot[s].number /\ slot'[s].guest = slot[s].guest
<1> DEFINE New == /\ ~Exists(s) /\ \A c \in Calls : call[c].slot # s
                  /\ slot'[s].guest = NoGuest /\ slot'[s].kyc = "NOT_STARTED"
<1>0. TypeOK /\ (\A c \in Calls : SoundCall(c)) /\ SubmitterIsLinked
      /\ SubmittedForASlot /\ slot \in [Slots -> SlotRow]
  BY RowTypes DEF Inv
<1>1. ASSUME NEW first \in Nat \ {0}, NEW n \in Nat, slot' = Numbered(first, n)
      PROVE  slot'[s] = slot[s] \/ New
  <2>1. CASE slot'[s] # slot[s]
    <3>1. Numbered(first, n)[s] # slot[s]
      BY <1>1, <2>1
    <3>2. /\ ~Exists(s) /\ \A c \in Calls : call[c].slot # s
          /\ Numbered(first, n)[s].guest = NoGuest
          /\ Numbered(first, n)[s].kyc = "NOT_STARTED"
      BY <1>0, <3>1, NumberedNew
    <3>3. slot'[s].guest = NoGuest /\ slot'[s].kyc = "NOT_STARTED"
      BY <1>1, <3>2
    <3>4. QED
      BY <3>2, <3>3
  <2>2. QED
    BY <2>1
<1>2. ASSUME NEW c \in Calls, CreateSlots(c)
      PROVE  slot'[s] = slot[s] \/ New
  <2>1. 1 \in Nat \ {0} /\ Party \in Nat
    BY BoundsAssumption
  <2>2. slot' = slot \/ slot' = Numbered(1, Party)
    BY <1>2 DEF CreateSlots
  <2>3. QED
    BY <1>1, <2>1, <2>2
<1>3. ASSUME NEW c \in Calls, AddSlot(c)
      PROVE  slot'[s] = slot[s] \/ New
  <2>1. call[c].found \in Nat \ {0}
    BY <1>0, <1>3 DEF AddSlot, SoundCall
  <2>2. slot' = slot \/ slot' = Numbered(call[c].found, 1)
    BY <1>3 DEF AddSlot
  <2>3. QED
    BY <1>1, <2>1, <2>2
<1>4. ASSUME NEW c \in Calls, Assign(c)
      PROVE  slot'[s] = slot[s]
             \/ /\ Exists(s)
                /\ slot'[s].number = slot[s].number /\ slot'[s].kyc = slot[s].kyc
                /\ slot'[s].guest = call[c].guest
  BY <1>0, <1>4 DEF Assign, SlotRow
<1>5. ASSUME NEW c \in Calls, MarkSlot(c)
      PROVE  slot'[s] = slot[s]
             \/ /\ Exists(s) /\ call[c].slot = s
                /\ slot'[s].number = slot[s].number /\ slot'[s].guest = slot[s].guest
  BY <1>0, <1>5 DEF MarkSlot, SlotRow
<1>6. ASSUME NEW c \in Calls, DeleteSlot(c)
      PROVE  slot'[s] = slot[s] \/ (slot'[s] = Gone /\ Of(s) = {})
  BY <1>0, <1>6 DEF DeleteSlot
<1>7. ASSUME NEW c \in Calls, RollbackTx(c)
      PROVE  slot'[s] = slot[s] \/ (slot'[s] = Gone /\ Of(s) = {})
  <2>1. CASE \E t \in Existing : Of(t) # {}
    BY <1>7, <2>1 DEF RollbackTx
  <2>2. CASE ~\E t \in Existing : Of(t) # {}
    <3>1. slot'[s] = Gone
      BY <1>7, <2>2 DEF RollbackTx
    <3>2. ASSUME NEW k \in Of(s)
          PROVE  FALSE
      <4>1. submission[k] # Unsent
        BY <3>2 DEF Of, Unsent, Slots
      <4>2. s \in Existing
        BY <1>0, <3>2, <4>1 DEF SubmitterIsLinked, Of, Existing
      <4>3. QED
        BY <2>2, <3>2, <4>2
    <3>3. QED
      BY <3>1, <3>2
  <2>3. QED
    BY <2>1, <2>2
<1>8. CASE slot' = slot
  BY <1>8
<1> HIDE DEF New
<1>9. QED
  <2>1. \/ slot'[s] = slot[s] \/ New
        \/ slot'[s] = Gone /\ Of(s) = {}
        \/ \E c \in Calls :
              /\ Assign(c) /\ Exists(s)
              /\ slot'[s].number = slot[s].number /\ slot'[s].kyc = slot[s].kyc
              /\ slot'[s].guest = call[c].guest
        \/ \E c \in Calls :
              /\ MarkSlot(c) /\ Exists(s) /\ call[c].slot = s
              /\ slot'[s].number = slot[s].number /\ slot'[s].guest = slot[s].guest
    BY <1>2, <1>3, <1>4, <1>5, <1>6, <1>7, <1>8, StepKinds, LeftAlone
    DEF SlotWriting, vars, Confirm
  <2>2. QED
    BY <2>1 DEF New

\* A submission is written by a call that may write it, or removed, or it is
\* as it was.
LEMMA SubmissionsStep ==
    ASSUME Inv, [Next]_vars, NEW k \in Submissions
    PROVE  \/ submission'[k] = submission[k]
           \/ submission'[k] = Unsent
           \/ \E c \in Calls :
                 /\ Save(c)
                 /\ submission'[k] = [slot |-> call[c].slot, by |-> call[c].guest]
                 /\ \/ k = call[c].found /\ submission[k] # Unsent
                    \/ /\ call[c].found = 0 /\ Exists(call[c].slot)
                       /\ k \in FreeSubmissions
<1>0. submission \in [Submissions -> SubmissionRow]
  BY RowTypes DEF Inv
<1>1. ASSUME NEW c \in Calls, Save(c)
      PROVE  \/ submission'[k] = submission[k]
             \/ /\ submission'[k] = [slot |-> call[c].slot, by |-> call[c].guest]
                /\ \/ k = call[c].found /\ submission[k] # Unsent
                   \/ /\ call[c].found = 0 /\ Exists(call[c].slot)
                      /\ k \in FreeSubmissions
  BY <1>0, <1>1 DEF Save
<1>2. ASSUME NEW c \in Calls, DeleteKyc(c)
      PROVE  submission'[k] \in {submission[k], Unsent}
  BY <1>2 DEF DeleteKyc
<1>3. QED
  BY <1>1, <1>2, StepKinds, LeftAlone DEF vars, Confirm

\* A link is lost only with every slot, and then no submission is left.
LEMMA LinksStep ==
    ASSUME Inv, [Next]_vars
    PROVE  /\ booking'.active => booking.active
           /\ \/ linked \subseteq linked'
              \/ /\ ~booking'.active
                 /\ \A s \in Slots : slot'[s] = Gone
                 /\ \A k \in Submissions : submission'[k] = Unsent
<1>0. TypeOK /\ SubmitterIsLinked /\ SubmittedForASlot
  BY DEF Inv
<1>1. ASSUME NEW c \in Calls, RollbackTx(c)
      PROVE  \/ UNCHANGED <<booking, linked>>
             \/ /\ ~booking'.active
                /\ \A s \in Slots : slot'[s] = Gone
                /\ \A k \in Submissions : submission'[k] = Unsent
  <2>1. CASE \E t \in Existing : Of(t) # {}
    BY <1>1, <2>1 DEF RollbackTx
  <2>2. CASE ~\E t \in Existing : Of(t) # {}
    <3>1. ~booking'.active /\ (\A s \in Slots : slot'[s] = Gone)
          /\ submission' = submission
      BY <1>1, <2>2 DEF RollbackTx
    <3>2. ASSUME NEW k \in Submissions, submission[k] # Unsent
          PROVE  FALSE
      <4>1. submission[k].slot \in Existing
        BY <1>0, <3>2 DEF SubmitterIsLinked, SubmittedForASlot, Existing
      <4>2. k \in Of(submission[k].slot)
        BY DEF Of
      <4>3. QED
        BY <2>2, <4>1, <4>2
    <3>3. QED
      BY <3>1, <3>2
  <2>3. QED
    BY <2>1, <2>2
<1>2. ASSUME NEW c \in Calls, CreateLink(c)
      PROVE  linked \subseteq linked'
  BY <1>2 DEF CreateLink
<1>3. CASE Confirm
  BY <1>0, <1>3 DEF Confirm, TypeOK
<1>4. QED
  BY <1>1, <1>2, <1>3, StepKinds, LeftAlone DEF vars

\* A slot that a call has read, and that is gone, does not come back while the
\* call runs.
LEMMA GoneStaysGone ==
    ASSUME Inv, [Next]_vars, NEW c \in Calls, NEW s \in Slots, s = call[c].slot,
           Exists(s)'
    PROVE  Exists(s)
<1>1. slot'[s].number # 0 /\ Gone.number = 0
  BY DEF Exists, Gone
<1>2. CASE slot'[s] = slot[s]
  BY <1>1, <1>2 DEF Exists
<1>3. QED
  BY <1>1, <1>2, SlotsStep

\* A slot without its submissions after a step is one that had none, or that a
\* deletion stripped, or it is gone.
LEMMA ShownStep ==
    ASSUME Inv, [Next]_vars, NEW s \in Slots, s \in stripped \/ Shown(s),
           Exists(s)'
    PROVE  (s \in stripped \/ Shown(s))'
<1>0. /\ \A c \in Calls : SoundCall(c)
      /\ slot \in [Slots -> SlotRow] /\ submission \in [Submissions -> SubmissionRow]
      /\ Gone.number = 0 /\ Unsent.slot = 0 /\ 0 \notin Slots
  BY RowTypes DEF Inv, Gone, Unsent, Slots
<1>1. ASSUME NEW c \in Calls, Save(c)
      PROVE  (s \in stripped \/ Shown(s))'
  <2> DEFINE entry == [slot |-> call[c].slot, by |-> call[c].guest]
             Writes(k) ==
                /\ submission' = [submission EXCEPT ![k] = entry]
                /\ stripped' = stripped \ {call[c].slot}
                /\ submission[k] = Unsent \/ submission[k].slot = call[c].slot
  <2>1. UNCHANGED <<submission, stripped>> \/ \E k \in Submissions : Writes(k)
    BY <1>0, <1>1 DEF Save, FreeSubmissions, SoundCall
  <2>2. CASE UNCHANGED <<submission, stripped>>
    BY <2>2 DEF Shown, Of
  <2>3. ASSUME NEW k \in Submissions, Writes(k)
        PROVE  (s \in stripped \/ Shown(s))'
    <3>1. CASE s = call[c].slot
      <4>1. submission'[k].slot = s
        BY <1>0, <2>3, <3>1
      <4>2. QED
        BY <4>1 DEF Shown, Of
    <3>2. CASE s # call[c].slot /\ s \in stripped
      BY <2>3, <3>2
    <3>3. CASE s # call[c].slot /\ Shown(s)
      <4>1. PICK j \in Submissions : submission[j].slot = s
        BY <3>3 DEF Shown, Of
      <4>2. j # k
        BY <1>0, <2>3, <3>3, <4>1
      <4>3. submission'[j] = submission[j]
        BY <2>3, <4>2
      <4>4. QED
        BY <4>1, <4>3 DEF Shown, Of
    <3>4. QED
      BY <3>1, <3>2, <3>3
  <2>4. QED
    BY <2>1, <2>2, <2>3
<1>2. ASSUME NEW c \in Calls, DeleteKyc(c)
      PROVE  (s \in stripped \/ Shown(s))'
  <2>1. CASE s = call[c].slot
    BY <1>2, <2>1 DEF DeleteKyc, Shown
  <2>2. CASE s # call[c].slot
    BY <1>2, <2>2 DEF DeleteKyc, Shown, Of
  <2>3. QED
    BY <2>1, <2>2
<1>3. ASSUME NEW c \in Calls, DeleteSlot(c)
      PROVE  (s \in stripped \/ Shown(s))'
  <2>1. /\ submission' = submission
        /\ call[c].slot # s /\ s \in stripped => s \in stripped'
    BY <1>3 DEF DeleteSlot
  <2>2. call[c].slot = s => stripped' = stripped
    BY <1>0, <1>3 DEF DeleteSlot, Exists
  <2>3. QED
    BY <2>1, <2>2 DEF Shown, Of
<1>4. ASSUME NEW c \in Calls, RollbackTx(c)
      PROVE  (s \in stripped \/ Shown(s))'
  <2>1. slot' # [t \in Slots |-> Gone]
    BY <1>0 DEF Exists
  <2>2. UNCHANGED <<submission, stripped>>
    BY <1>4, <2>1 DEF RollbackTx
  <2>3. QED
    BY <2>2 DEF Shown, Of
<1>5. CASE UNCHANGED <<submission, stripped>>
  BY <1>5 DEF Shown, Of
<1>6. QED
  BY <1>1, <1>2, <1>3, <1>4, <1>5, StepKinds, LeftAlone DEF vars, Confirm
-----------------------------------------------------------------------------
(* The calls. *)

\* A call that does not move keeps what it relies on, whatever else moves.
LEMMA HeldCall ==
    ASSUME Inv, [Next]_vars, NEW c \in Calls, call'[c] = call[c]
    PROVE  SoundCall(c)'
<1>0. /\ TypeOK /\ SoundCall(c) /\ Gone.number = 0
      /\ call[c].slot \in 0..MaxSlots
      /\ submission \in [Submissions -> SubmissionRow]
  BY RowTypes DEF Inv, Gone, CallRow
<1>1. PICK s \in 0..MaxSlots : s = call[c].slot
  BY <1>0
<1>2. s \in Slots /\ Exists(s)' => Exists(s)
  BY <1>1, GoneStaysGone
<1>3. call[c].at \in Linking /\ booking'.active => call[c].guest \in linked'
  BY <1>0, LinksStep DEF SoundCall
<1>4. call[c].at \in {"find_submission", "save"} /\ Exists(s)' =>
         call[c].guest \in linked'
  <2>1. SUFFICES ASSUME call[c].at \in {"find_submission", "save"}, Exists(s)'
                 PROVE  call[c].guest \in linked'
    OBVIOUS
  <2>2. s \in Slots
    BY <1>0, <1>1, <2>1 DEF SoundCall, OnSlot
  <2>3. call[c].guest \in linked
    BY <1>0, <1>1, <1>2, <2>1, <2>2 DEF SoundCall
  <2>4. slot'[s] # Gone
    BY <1>0, <2>1 DEF Exists
  <2>5. QED
    BY <2>2, <2>3, <2>4, LinksStep
<1>5. ASSUME call[c].at = "save", call[c].found # 0
      PROVE  /\ call[c].found \in Submissions
             /\ submission'[call[c].found] = Unsent
                  \/ submission'[call[c].found].slot = s
  <2>1. call[c].found \in Submissions
    BY <1>0, <1>5 DEF SoundCall
  <2>2. PICK k \in Submissions : k = call[c].found
    BY <2>1
  <2>3. submission[k] = Unsent \/ submission[k].slot = s
    BY <1>0, <1>1, <1>5, <2>2 DEF SoundCall
  <2>4. k \notin FreeSubmissions
    BY <1>5, <2>2 DEF FreeSubmissions
  <2>5. ASSUME NEW d \in Calls, Save(d), k = call[d].found, submission[k] # Unsent
        PROVE  call[d].slot = s
    <3>1. SoundCall(d) /\ call[d].at = "save"
      BY <2>5 DEF Inv, Save
    <3>2. k # 0
      BY <1>5, <2>2
    <3>3. QED
      BY <2>3, <2>5, <3>1, <3>2 DEF SoundCall
  <2>6. ASSUME NEW d \in Calls, call[d].slot = s,
               submission'[k] = [slot |-> call[d].slot, by |-> call[d].guest]
        PROVE  submission'[k].slot = s
    BY <2>6
  <2>7. submission'[k] = Unsent \/ submission'[k].slot = s
    BY <2>3, <2>4, <2>5, <2>6, SubmissionsStep
  <2>8. QED
    BY <2>1, <2>2, <2>7
<1>6. call[c].at = "mark_slot" /\ Exists(s)' => (s \in stripped \/ Shown(s))'
  <2>1. SUFFICES ASSUME call[c].at = "mark_slot", Exists(s)'
                 PROVE  (s \in stripped \/ Shown(s))'
    OBVIOUS
  <2>2. s \in Slots
    BY <1>0, <1>1, <2>1 DEF SoundCall, OnSlot
  <2>3. s \in stripped \/ Shown(s)
    BY <1>0, <1>1, <1>2, <2>1, <2>2 DEF SoundCall
  <2>4. QED
    BY <2>1, <2>2, <2>3, ShownStep
<1>7. QED
  <2>1. call'[c].slot = s
    BY <1>1
  <2>2. QED
    BY <1>0, <1>3, <1>4, <1>5, <1>6, <2>1 DEF SoundCall

\* A call that has answered relies on nothing.
LEMMA AnsweredCall ==
    ASSUME Inv, NEW c \in Calls, Answer(c)
    PROVE  SoundCall(c)'
<1>1. call'[c].at = "idle"
  BY RowTypes DEF Inv, Answer, Idle
<1>2. QED
  BY <1>1 DEF SoundCall, Linking, OnSlot

\* A call that moves has made sure of what it relies on next.
LEMMA MovedCall ==
    ASSUME Inv, [Next]_vars, NEW c \in Calls, call'[c] # call[c]
    PROVE  SoundCall(c)'
<1>0. /\ TypeOK /\ NumbersAreBounded /\ (\A d \in Calls : SoundCall(d))
      /\ call \in [Calls -> CallRow] /\ Bookers \subseteq Guests
      /\ submission \in [Submissions -> SubmissionRow]
  BY RowTypes, GuestsAssumption DEF Inv
<1>1. ASSUME NEW g \in Guests, StartLink(c, g)
      PROVE  SoundCall(c)'
  <2>1. /\ call'[c].at \in {"ensure_slots", "create_link"} /\ call'[c].guest = g
        /\ call'[c].at = "ensure_slots" => g \in linked /\ linked' = linked
    BY <1>0, <1>1 DEF StartLink, Idle
  <2>2. QED
    BY <2>1 DEF SoundCall, Linking, OnSlot
<1>2. ASSUME NEW g \in Guests, StartAutoLink(c, g)
      PROVE  SoundCall(c)'
  <2>1. call'[c].at = "auto_link" /\ call'[c].guest = g
    BY <1>0, <1>2 DEF StartAutoLink, Idle
  <2>2. QED
    BY <2>1 DEF SoundCall, Linking, OnSlot
<1>3. ASSUME NEW g \in Guests, StartAddSlot(c, g)
      PROVE  SoundCall(c)'
  <2>1. call'[c].at = "read_numbers"
    BY <1>0, <1>3 DEF StartAddSlot, Continue, CallRow
  <2>2. QED
    BY <2>1 DEF SoundCall, Linking, OnSlot
<1>4. ASSUME NEW g \in Guests, StartSubmitKyc(c, g)
      PROVE  SoundCall(c)'
  <2>1. /\ call'[c].at = "find_submission" /\ call'[c].guest = g
        /\ g \in linked' /\ call'[c].slot \in Slots
    BY <1>0, <1>4 DEF StartSubmitKyc, Idle, Existing
  <2>2. QED
    BY <2>1 DEF SoundCall, Linking, OnSlot
<1>5. ASSUME NEW g \in Guests, StartDeleteSlot(c, g)
      PROVE  SoundCall(c)'
  <2>1. call'[c].at = "delete_kyc" /\ call'[c].slot \in Slots
    BY <1>0, <1>5 DEF StartDeleteSlot, Idle, Existing
  <2>2. QED
    BY <2>1 DEF SoundCall, Linking, OnSlot
<1>6. ASSUME CreateLink(c)
      PROVE  SoundCall(c)'
  <2>1. CASE Answer(c)
    BY <1>0, <2>1, AnsweredCall
  <2>2. CASE Continue(c, "ensure_slots")
    <3>1. /\ call'[c].at = "ensure_slots" /\ call'[c].guest = call[c].guest
          /\ call[c].guest \in linked' /\ call[c].guest \in Guests
      BY <1>0, <1>6, <2>2 DEF CreateLink, Continue, SoundCall, CallRow
    <3>2. QED
      BY <3>1 DEF SoundCall, Linking, OnSlot
  <2>3. QED
    BY <1>6, <2>1, <2>2 DEF CreateLink
<1>7. ASSUME ReadSlots(c) \/ CreateSlots(c), ~Answer(c)
      PROVE  SoundCall(c)'
  <2>1. call[c].at \in Linking
    BY <1>7 DEF ReadSlots, CreateSlots, Linking
  <2>2. /\ call[c].guest \in Guests
        /\ booking.active => call[c].guest \in linked
    BY <1>0, <2>1 DEF SoundCall
  <2>3. booking' = booking /\ linked' = linked
    BY <1>7, LeftAlone DEF Reading, SlotWriting
  <2>4. \/ /\ call'[c].at \in {"create_slots", "reread_slots"}
           /\ call'[c].guest = call[c].guest
        \/ /\ call'[c].at = "assign" /\ call'[c].guest = call[c].guest
           /\ call'[c].found \in Slots
    <3>1. FirstUnassigned # 0 => FirstUnassigned \in Slots
      BY <1>0, FirstIsASlot DEF Existing
    <3>2. \/ Continue(c, "create_slots") \/ Continue(c, "reread_slots")
          \/ /\ FirstUnassigned # 0
             /\ call' = [call EXCEPT ![c].at = "assign",
                                     ![c].found = FirstUnassigned]
      BY <1>7 DEF ReadSlots, CreateSlots
    <3>3. QED
      BY <1>0, <3>1, <3>2 DEF Continue, CallRow
  <2>5. QED
    BY <2>2, <2>3, <2>4 DEF SoundCall, Linking, OnSlot
<1>8. ASSUME ReadNumbers(c)
      PROVE  SoundCall(c)'
  <2>1. call'[c].at = "add_slot" /\ call'[c].found \in Nat \ {0}
    BY <1>0, <1>8, NextNumber DEF ReadNumbers, CallRow
  <2>2. QED
    BY <2>1 DEF SoundCall, Linking, OnSlot
<1>9. ASSUME FindSubmission(c)
      PROVE  SoundCall(c)'
  <2>1. /\ call[c].slot \in Slots
        /\ Exists(call[c].slot) => call[c].guest \in linked
    BY <1>0, <1>9 DEF FindSubmission, SoundCall, OnSlot
  <2>2. PICK k \in IF Of(call[c].slot) = {} THEN {0} ELSE Of(call[c].slot) :
           call' = [call EXCEPT ![c].at = "save", ![c].found = k]
    BY <1>9 DEF FindSubmission
  <2>3. k = 0 \/ (k \in Submissions /\ submission[k].slot = call[c].slot)
    BY <2>2 DEF Of
  <2>4. /\ call'[c].at = "save" /\ call'[c].slot = call[c].slot
        /\ call'[c].guest = call[c].guest /\ call'[c].found = k
    BY <1>0, <2>2 DEF CallRow
  <2>5. slot' = slot /\ linked' = linked /\ submission' = submission
    BY <1>9 DEF FindSubmission
  <2>6. QED
    BY <2>1, <2>3, <2>4, <2>5 DEF SoundCall, Linking, OnSlot, Exists
<1>10. ASSUME Save(c), ~Answer(c)
       PROVE  SoundCall(c)'
  <2>1. call[c].slot \in Slots
    BY <1>0, <1>10 DEF Save, SoundCall, OnSlot
  <2>2. call' = [call EXCEPT ![c] = Marking(call[c].slot)]
    BY <1>10 DEF Save
  <2>3. call'[c].at = "mark_slot" /\ call'[c].slot = call[c].slot
    BY <1>0, <2>2 DEF Marking, Idle
  <2>4. PICK k \in Submissions :
           submission'[k] = [slot |-> call[c].slot, by |-> call[c].guest]
    BY <1>0, <1>10 DEF Save, FreeSubmissions, SoundCall
  <2>5. Of(call[c].slot)' # {}
    BY <2>3, <2>4 DEF Of
  <2>6. QED
    BY <2>1, <2>3, <2>5 DEF SoundCall, Linking, OnSlot, Shown
<1>11. ASSUME DeleteKyc(c)
       PROVE  SoundCall(c)'
  <2>1. call[c].slot \in Slots
    BY <1>0, <1>11 DEF DeleteKyc, SoundCall, OnSlot
  <2>2. call'[c].at = "delete_slot" /\ call'[c].slot = call[c].slot
    BY <1>0, <1>11 DEF DeleteKyc, Continue, CallRow
  <2>3. QED
    BY <2>1, <2>2 DEF SoundCall, Linking, OnSlot
<1>12. ASSUME StartRollback(c)
       PROVE  SoundCall(c)'
  <2>1. call'[c].at = "rollback_tx"
    BY <1>0, <1>12 DEF StartRollback, Idle
  <2>2. QED
    BY <2>1 DEF SoundCall, Linking, OnSlot
<1>13. ASSUME Answer(c)
       PROVE  SoundCall(c)'
  BY <1>13, AnsweredCall
<1>14. PICK d \in Calls :
          \/ Reading(d) \/ CreateLink(d) \/ SlotWriting(d) \/ Save(d)
          \/ DeleteKyc(d) \/ DeleteSlot(d) \/ RollbackTx(d)
  BY StepKinds DEF vars, Confirm
<1>15. d = c
  <2>1. SUFFICES ASSUME d # c PROVE call'[c] = call[c]
    OBVIOUS
  <2>2. Answer(d) \/ (\E at : Continue(d, at)) => call'[c] = call[c]
    BY <1>0, <2>1 DEF Answer, Continue
  <2>3. Reading(d) => call'[c] = call[c]
    <3>1. ReadSlots(d) => call'[c] = call[c]
      BY <1>0, <2>1, <2>2 DEF ReadSlots
    <3>2. QED
      BY <1>0, <2>1, <2>2, <3>1
      DEF Reading, StartLink, StartAutoLink, StartAddSlot, StartSubmitKyc,
          StartDeleteSlot, ReadNumbers, FindSubmission, StartRollback, Cut
  <2>4. CreateLink(d) \/ SlotWriting(d) => call'[c] = call[c]
    BY <2>2 DEF CreateLink, SlotWriting, CreateSlots, Assign, AddSlot, MarkSlot
  <2>5. Save(d) \/ DeleteKyc(d) \/ DeleteSlot(d) \/ RollbackTx(d) =>
           call'[c] = call[c]
    BY <1>0, <2>1, <2>2 DEF Save, DeleteKyc, DeleteSlot, RollbackTx
  <2>6. QED
    BY <1>14, <2>3, <2>4, <2>5
<1>16. QED
  BY <1>1, <1>2, <1>3, <1>4, <1>5, <1>6, <1>7, <1>8, <1>9, <1>10, <1>11, <1>12,
     <1>13, <1>14, <1>15
  DEF Reading, SlotWriting, Assign, AddSlot, MarkSlot, DeleteSlot, RollbackTx, Cut
-----------------------------------------------------------------------------
(* The properties. *)

\* A guest who holds a slot got it while linked, and no link is lost while the
\* booking is active.
LEMMA HolderStep ==
    ASSUME Inv, [Next]_vars
    PROVE  HolderIsLinked'
<1>1. SUFFICES ASSUME booking'.active, NEW s \in Slots, Exists(s)'
               PROVE  slot'[s].guest = NoGuest \/ slot'[s].guest \in linked'
  BY DEF HolderIsLinked, Existing
<1>2. booking.active /\ linked \subseteq linked'
  BY <1>1, LinksStep
<1>3. Exists(s) => slot[s].guest = NoGuest \/ slot[s].guest \in linked
  BY <1>2 DEF Inv, HolderIsLinked, Existing
<1>4. ASSUME NEW c \in Calls, Assign(c)
      PROVE  call[c].guest \in linked
  BY <1>2, <1>4 DEF Inv, Assign, SoundCall, Linking
<1>5. Gone.guest = NoGuest
  BY DEF Gone
<1>6. CASE slot'[s] = slot[s]
  BY <1>1, <1>2, <1>3, <1>6 DEF Exists
<1>7. QED
  BY <1>2, <1>3, <1>4, <1>5, <1>6, SlotsStep

\* A slot counts as completed since a call that had saved its submission; it
\* keeps one unless a deletion strips it.
LEMMA PreVerifiedStep ==
    ASSUME Inv, [Next]_vars
    PROVE  PreVerifiedMeansSubmitted'
<1>1. SUFFICES ASSUME NEW s \in Slots, Exists(s)', slot'[s].kyc = "PRE_VERIFIED"
               PROVE  (s \in stripped \/ Shown(s))'
  BY DEF PreVerifiedMeansSubmitted, KycCompleted, Existing
<1>2. Exists(s) /\ slot[s].kyc = "PRE_VERIFIED" => s \in stripped \/ Shown(s)
  BY DEF Inv, PreVerifiedMeansSubmitted, KycCompleted, Existing
<1>3. ASSUME NEW c \in Calls, MarkSlot(c), call[c].slot = s, Exists(s)
      PROVE  s \in stripped \/ Shown(s)
  BY <1>3 DEF Inv, MarkSlot, SoundCall
<1>4. Gone.kyc = "none"
  BY DEF Gone
<1>5. CASE slot'[s] = slot[s]
  BY <1>1, <1>2, <1>5, ShownStep DEF Exists
<1>6. CASE slot'[s] # slot[s]
  <2>1. s \in stripped \/ Shown(s)
    BY <1>1, <1>2, <1>3, <1>4, <1>6, SlotsStep
  <2>2. QED
    BY <1>1, <2>1, ShownStep
<1>7. QED
  BY <1>5, <1>6

\* Whoever submits is linked while the slot exists, and neither the slot nor a
\* link can go while there is a submission.
LEMMA SubmitterStep ==
    ASSUME Inv, [Next]_vars
    PROVE  SubmitterIsLinked' /\ SubmittedForASlot'
<1>0. SubmitterIsLinked /\ SubmittedForASlot
      /\ submission \in [Submissions -> SubmissionRow]
  BY RowTypes DEF Inv
<1>1. SUFFICES ASSUME NEW k \in Submissions, submission'[k] # Unsent
               PROVE  /\ submission'[k].slot \in Slots
                      /\ Exists(submission[k].slot)'
                      /\ submission'[k].by \in linked'
  BY DEF SubmitterIsLinked, SubmittedForASlot
<1>2. linked \subseteq linked'
  BY <1>1, LinksStep
<1>3. ASSUME NEW s \in Slots, Exists(s), Of(s) # {}
      PROVE  slot'[s].number # 0
  BY <1>3, SlotsStep DEF Exists
<1>4. CASE submission'[k] = submission[k]
  <2>1. PICK s \in Slots : s = submission[k].slot
    BY <1>0, <1>1, <1>4 DEF SubmittedForASlot
  <2>2. Exists(s) /\ submission[k].by \in linked /\ Of(s) # {}
    BY <1>0, <1>1, <1>4, <2>1 DEF SubmitterIsLinked, Of
  <2>3. slot'[s].number # 0
    BY <1>3, <2>2
  <2>4. QED
    BY <1>2, <1>4, <2>1, <2>2, <2>3 DEF Exists
<1>5. ASSUME NEW c \in Calls, Save(c),
             submission'[k] = [slot |-> call[c].slot, by |-> call[c].guest],
             \/ k = call[c].found /\ submission[k] # Unsent
             \/ call[c].found = 0 /\ Exists(call[c].slot)
      PROVE  /\ submission'[k].slot \in Slots
             /\ Exists(submission[k].slot)'
             /\ submission'[k].by \in linked'
  <2>1. SoundCall(c) /\ call[c].at = "save"
    BY <1>5 DEF Inv, Save
  <2>2. Exists(call[c].slot) /\ call[c].slot \in Slots
    <3>1. CASE k = call[c].found /\ submission[k] # Unsent
      <4>1. submission[k].slot = call[c].slot
        BY <2>1, <3>1, SubmissionsAssumption DEF SoundCall
      <4>2. QED
        BY <1>0, <3>1, <4>1 DEF SubmitterIsLinked, SubmittedForASlot
    <3>2. CASE call[c].found = 0 /\ Exists(call[c].slot)
      BY <2>1, <3>2 DEF SoundCall, OnSlot
    <3>3. QED
      BY <1>5, <3>1, <3>2
  <2>3. call[c].guest \in linked
    BY <2>1, <2>2 DEF SoundCall
  <2>4. slot' = slot
    BY <1>5 DEF Save
  <2>5. submission'[k].slot = call[c].slot /\ submission'[k].by = call[c].guest
    BY <1>5
  <2>6. QED
    BY <1>2, <2>2, <2>3, <2>4, <2>5 DEF Exists
<1>6. QED
  BY <1>1, <1>4, <1>5, SubmissionsStep
-----------------------------------------------------------------------------
THEOREM InvHolds == Spec => []Inv
<1>1. Inv /\ [Next]_vars => Inv'
  <2>1. SUFFICES ASSUME Inv, [Next]_vars PROVE Inv'
    OBVIOUS
  <2>2. ASSUME NEW c \in Calls
        PROVE  SoundCall(c)'
    BY <2>1, HeldCall, MovedCall
  <2>3. QED
    BY <2>1, <2>2, TypeStep, HolderStep, PreVerifiedStep, SubmitterStep DEF Inv
<1>2. QED
  BY InitInv, <1>1, PTL DEF Spec

\* Every row stays what its table, and every call what its code, makes of it.
THEOREM TypeCorrect == Spec => []TypeOK
<1>1. Inv => TypeOK
  BY DEF Inv
<1>2. QED
  BY <1>1, InvHolds, PTL

\* Access is checked once, at the start of submitKyc, and no rollback can undo
\* it under a submission.
THEOREM SubmittersAreLinked == Spec => []SubmitterIsLinked
<1>1. Inv => SubmitterIsLinked
  BY DEF Inv
<1>2. QED
  BY <1>1, InvHolds, PTL

\* However submitKyc and deleteSlot overlap, a slot that counts as completed has
\* a submission to show, unless a deletion took it.
THEOREM CompletedWasSubmitted == Spec => []PreVerifiedMeansSubmitted
<1>1. Inv => PreVerifiedMeansSubmitted
  BY DEF Inv
<1>2. QED
  BY <1>1, InvHolds, PTL

\* ensureSlots gives slots of a live booking to guests linked to it only.
THEOREM HoldersAreLinked == Spec => []HolderIsLinked
<1>1. Inv => HolderIsLinked
  BY DEF Inv
<1>2. QED
  BY <1>1, InvHolds, PTL
-----------------------------------------------------------------------------
(***************************************************************************)
(* The rows these guests are linked to, and their doors: CheckIn.          *)
(***************************************************************************)
\* A row has one provisioning or one PIN, if not two provisionings at a time.
OneAtATime(b) ==
    b \notin overlapped =>
        /\ \A p, q \in Passes : job[p][b] # NoRoom /\ job[q][b] # NoRoom => p = q
        /\ \A p \in Passes : job[p][b] # NoRoom => pins[b] = <<>>
        /\ Len(pins[b]) <= 1

\* What a pass holds are snapshots of rows, and then arrivals.
SoundPass(p) ==
    /\ pass[p].at \in {"drift", "fetched"} =>
          \A s \in pass[p].todo : s \in Snapshots /\ s.row \in Rows
    /\ pass[p].at = "fetched" => pass[p].now.row \in Rows
    /\ pass[p].at = "ingest" => pass[p].todo \subseteq Arrivals

\* A guest of ours whose row has no PIN was made none that was not lost.
NothingKept(b) ==
    pins[b] = <<>> /\ b.of \in account =>
        \A j \in DOMAIN access : access[j].row = b => access[j].lost

\* What UnknownPinIsExplained says of one access.
Explained(i) ==
    \/ \E b \in Rows : \E n \in DOMAIN pins[b] : pins[b][n].pin = i
    \/ access[i].lost \/ access[i].row.of \notin account
    \/ \E j \in Matches(access, access[i]) :
          /\ j < i
          /\ access[j].row = access[i].row =>
                access[j].lost \/ access[i].row \in overlapped

\* The inductive invariant.
LockInv ==
    /\ CheckInTypeOK
    /\ \A b \in Rows : OneAtATime(b) /\ NothingKept(b)
    /\ \A p \in Passes : SoundPass(p)
    /\ \A i \in DOMAIN access : Explained(i)
-----------------------------------------------------------------------------
LEMMA RowsAre ==
    /\ \A r \in Reservations : /\ Tds(r) \in Rows /\ Ezee(r) \in Rows
                               /\ Tds(r).of = r /\ Ezee(r).of = r
                               /\ Tds(r).kind = "TDS" /\ Ezee(r).kind = "EZEE"
    /\ \A b \in Rows : b.of \in Reservations /\ b \in {Tds(b.of), Ezee(b.of)}
<1>1. \A r \in Reservations : /\ Tds(r) \in Rows /\ Ezee(r) \in Rows
                              /\ Tds(r).of = r /\ Ezee(r).of = r
                              /\ Tds(r).kind = "TDS" /\ Ezee(r).kind = "EZEE"
  BY DEF Rows, Tds, Ezee
<1>2. \A b \in Rows : \E r \in Reservations : b = Tds(r) \/ b = Ezee(r)
  BY DEF Rows
<1>3. QED
  BY <1>1, <1>2

\* A set of numbers has a lowest one.
LEMMA MinOfNaturals ==
    ASSUME NEW S \in SUBSET Nat, S # {}
    PROVE  Min(S) \in S
<1>1. PICK low \in S : \A m \in S : <<m, low>> \notin OpToRel(<, Nat)
  BY NatLessThanWellFounded, WFMin
<1>2. ASSUME NEW m \in S
      PROVE  low <= m
  <2>1. m \in Nat /\ low \in Nat
    OBVIOUS
  <2>2. ~(m < low)
    BY <1>1, <2>1 DEF OpToRel
  <2>3. QED
    BY <2>1, <2>2
<1>3. QED
  BY <1>2 DEF Min

\* The access that MyGate is taken to have made is one of the lock's.
LEMMA PinIsAnAccess ==
    ASSUME NEW S, NEW all \in Seq(S), NEW made, all # <<>>, all[Len(all)] = made
    PROVE  /\ Min(Matches(all, made)) \in Matches(all, made)
           /\ Matches(all, made) \subseteq 1..Len(all)
           /\ Len(all) \in Matches(all, made)
<1>1. DOMAIN all = 1..Len(all) /\ Len(all) \in 1..Len(all)
  OBVIOUS
<1>2. /\ Matches(all, made) \subseteq 1..Len(all)
      /\ Len(all) \in Matches(all, made)
  BY <1>1 DEF Matches
<1>3. QED
  BY <1>2, MinOfNaturals
-----------------------------------------------------------------------------
(* Types. *)

LockSeen == [status : AnyStatus, room : AnyRoom]
LockRow == [there : BOOLEAN, number : BOOLEAN, active : BOOLEAN,
            status : AnyStatus, room : AnyRoom]
PassKind == [at : {"rest", "drift", "fetched", "ingest"},
             todo : SUBSET (Snapshots \cup Arrivals),
             now : Snapshots, seen : LockSeen]
AccessKind == [name : Names \cup {"Guest"}, room : Rooms, day : Days,
               row : Rows, lost : BOOLEAN]
PinKind == [room : Rooms, pin : 1..Len(access)]

EzeeTypes ==
    /\ pms \in [Reservations -> LockSeen] /\ events \in 0..MaxEvents
    /\ own \subseteq account /\ name \in [Reservations -> Names \cup {"Guest"}]
    /\ day \in [Reservations -> Days] /\ today \in 0..MaxDays
LockTypes ==
    /\ job \in [Passes -> [Rows -> AnyRoom]]
    /\ access \in Seq(AccessKind)
    /\ pins \in [Rows -> Seq(PinKind)]
    /\ overlapped \subseteq Rows

LEMMA TypeParts ==
    /\ CheckInTypeOK <=> /\ EzeeTypes /\ LockTypes /\ faults \in 0..MaxFaults
                         /\ row \in [Rows -> LockRow] /\ pass \in [Passes -> PassKind]
    /\ CheckInTypeOK' <=> /\ EzeeTypes' /\ LockTypes' /\ faults' \in 0..MaxFaults
                          /\ row' \in [Rows -> LockRow] /\ pass' \in [Passes -> PassKind]
BY DEF CheckInTypeOK, EzeeTypes, LockTypes, LockSeen, LockRow, PassKind, AccessKind, PinKind

LEMMA TypesStay ==
    /\ UNCHANGED <<fixed, today, eZee>> /\ EzeeTypes => EzeeTypes'
    /\ UNCHANGED locks /\ LockTypes => LockTypes'
BY DEF EzeeTypes, LockTypes, PinKind, account, fixed, eZee, locks

LEMMA NothingIs ==
    NoRoom \in AnyRoom /\ NoReservation \in LockSeen /\ Resting \in PassKind
BY DEF NoRoom, AnyRoom, AnyStatus, NoReservation, NoSnapshot,
       Snapshots, Resting,
       LockSeen, PassKind

\* One more fault is still within the bound.
LEMMA FaultIsCounted ==
    ASSUME faults \in 0..MaxFaults, faults < MaxFaults
    PROVE  faults + 1 \in 0..MaxFaults
BY LockBounds

\* A reservation that something happens to.
LEMMA HappensType ==
    ASSUME CheckInTypeOK,
           NEW r \in Reservations, NEW reservation \in LockSeen,
           Happens(r, reservation)
    PROVE  CheckInTypeOK'
<1>1. EzeeTypes'
  BY TypeParts, LockBounds DEF Happens, fixed, EzeeTypes, account
<1>2. QED
  BY <1>1, TypeParts, TypesStay DEF Happens

LEMMA EzeeStepType ==
    ASSUME CheckInTypeOK, NEW r \in Reservations,
           \/ \E room \in AnyRoom :
                 \/ \E s \in {"CONFIRMED", "CHECKED_IN"} : Arrive(r, s, room)
                 \/ InsertBooking(r, room)
           \/ \E room \in Rooms : AssignRoom(r, room)
           \/ \E s \in Statuses : Move(r, s)
    PROVE  CheckInTypeOK'
<1>0. pms[r] \in LockSeen
  BY TypeParts DEF EzeeTypes
<1>1. ASSUME NEW room \in AnyRoom, NEW s \in {"CONFIRMED", "CHECKED_IN"}
      PROVE  [status |-> s, room |-> room] \in LockSeen
  BY DEF LockSeen, AnyStatus, Statuses
<1>2. \A room \in Rooms : [pms[r] EXCEPT !.room = room] \in LockSeen
  BY <1>0 DEF LockSeen, AnyRoom
<1>3. \A s \in Statuses : [pms[r] EXCEPT !.status = s] \in LockSeen
  BY <1>0 DEF LockSeen, AnyStatus
<1>4. PICK reservation \in LockSeen : Happens(r, reservation)
  BY <1>1, <1>2, <1>3 DEF Arrive, InsertBooking, AssignRoom, Move
<1>5. QED
  BY <1>4, HappensType

\* A pass goes on, and with it perhaps one row.
LEMMA PassStepType ==
    ASSUME LockInv, NEW p \in Passes,
           \/ Begin(p) \/ Fetch(p) \/ ListArrivals(p) \/ Ingest(p) \/ End(p)
           \/ FetchFails(p) \/ Abandon(p)
    PROVE  CheckInTypeOK'
<1>0. /\ CheckInTypeOK /\ SoundPass(p)
      /\ pass \in [Passes -> PassKind]
      /\ row \in [Rows -> LockRow] /\ pass[p] \in PassKind
      /\ pms \in [Reservations -> LockSeen] /\ faults \in 0..MaxFaults
  BY TypeParts DEF LockInv, EzeeTypes
<1>1. ASSUME NEW k \in PassKind, pass' = [pass EXCEPT ![p] = k],
             row' \in [Rows -> LockRow], faults' \in 0..MaxFaults,
             UNCHANGED <<fixed, today, eZee, locks>>
      PROVE  CheckInTypeOK'
  BY <1>0, <1>1, TypeParts, TypesStay
<1>2. CASE Begin(p)
  <2> DEFINE k == [Resting EXCEPT !.at = "drift",
                      !.todo = {Snapshot(b) : b \in {d \in Rows : Active(d)}}]
  <2>1. \A b \in Rows : Snapshot(b) \in Snapshots
    BY <1>0 DEF Snapshot, Snapshots, LockRow
  <2>2. k \in PassKind
    BY <2>1, NothingIs DEF PassKind
  <2>3. QED
    BY <1>0, <1>1, <1>2, <2>2 DEF Begin
<1>3. CASE Fetch(p)
  <2>1. PICK b \in pass[p].todo :
          pass' = [pass EXCEPT ![p] = [at |-> "fetched", todo |-> pass[p].todo \ {b},
                                       now |-> b, seen |-> pms[b.row.of]]]
    BY <1>0, <1>3 DEF Fetch
  <2>2. b \in Snapshots /\ pms[b.row.of] \in LockSeen
    BY <1>0, <1>3, RowsAre DEF Fetch, SoundPass
  <2>3. [at |-> "fetched", todo |-> pass[p].todo \ {b}, now |-> b,
         seen |-> pms[b.row.of]] \in PassKind
    BY <1>0, <2>2 DEF PassKind
  <2>4. QED
    BY <1>0, <1>1, <1>3, <2>1, <2>3 DEF Fetch
<1>4. CASE FetchFails(p)
  <2>1. PICK b \in pass[p].todo : pass' = [pass EXCEPT ![p].todo = @ \ {b}]
    BY <1>4 DEF FetchFails
  <2>2. [pass[p] EXCEPT !.todo = @ \ {b}] \in PassKind
    BY <1>0 DEF PassKind
  <2>3. QED
    BY <1>0, <1>1, <1>4, <2>1, <2>2, FaultIsCounted DEF FetchFails
<1>5. CASE ListArrivals(p)
  <2>1. \A r \in Listed :
          [of |-> r, status |-> pms[r].status, room |-> pms[r].room] \in Arrivals
    BY <1>0 DEF Listed, Arrivals, LockSeen
  <2>2. PICK all :
          /\ pass' = [pass EXCEPT ![p].at = "ingest", ![p].todo = all]
          /\ all = Unknown({[of |-> r, status |-> pms[r].status,
                               room |-> pms[r].room] : r \in Listed})
    BY <1>5 DEF ListArrivals
  <2>3. all \in SUBSET Arrivals
    BY <2>1, <2>2 DEF Unknown
  <2>4. [pass[p] EXCEPT !.at = "ingest", !.todo = all] \in PassKind
    BY <1>0, <2>3 DEF PassKind
  <2>5. pass' = [pass EXCEPT ![p] = [pass[p] EXCEPT !.at = "ingest", !.todo = all]]
    BY <2>2
  <2>6. QED
    BY <1>0, <1>1, <1>5, <2>4, <2>5 DEF ListArrivals
<1>6. CASE Ingest(p)
  <2>1. PICK a \in pass[p].todo :
          \/ pass' = [pass EXCEPT ![p] = Resting] /\ UNCHANGED row
          \/ /\ row' = [row EXCEPT ![Ezee(a.of)] =
                          [there |-> TRUE, number |-> TRUE, active |-> TRUE,
                           status |-> a.status, room |-> a.room]]
             /\ pass' = [pass EXCEPT ![p] = [pass[p] EXCEPT !.todo = @ \ {a}]]
    BY <1>6 DEF Ingest
  <2>2. a \in Arrivals
    BY <1>0, <1>6 DEF Ingest, SoundPass
  <2>3. [there |-> TRUE, number |-> TRUE, active |-> TRUE,
         status |-> a.status, room |-> a.room] \in LockRow
    BY <2>2 DEF LockRow, Arrivals
  <2>4. [pass[p] EXCEPT !.todo = @ \ {a}] \in PassKind
    BY <1>0 DEF PassKind
  <2>5. row' \in [Rows -> LockRow]
    BY <1>0, <2>1, <2>3
  <2>6. QED
    BY <1>0, <1>1, <1>6, <2>1, <2>4, <2>5, NothingIs DEF Ingest
<1>7. CASE End(p) \/ Abandon(p)
  BY <1>0, <1>1, <1>7, NothingIs, FaultIsCounted DEF End, Abandon
<1>8. QED
  BY <1>2, <1>3, <1>4, <1>5, <1>6, <1>7

\* What Update does, with what the pass holds.
LEMMA UpdateIs ==
    ASSUME LockInv, NEW p \in Passes, Update(p)
    PROVE  \E b \in Rows, new \in LockRow, room \in AnyRoom :
              /\ job[p][b] = NoRoom
              /\ room # NoRoom => pins[b] = <<>>
              /\ row' = [row EXCEPT ![b] = new]
              /\ job' = [job EXCEPT ![p] = [job[p] EXCEPT ![b] = room]]
              /\ overlapped' = IF room # NoRoom /\ \E q \in Passes : job[q][b] # NoRoom
                               THEN overlapped \cup {b} ELSE overlapped
              /\ pass' = [pass EXCEPT ![p] = [Resting EXCEPT !.at = "drift",
                                                       !.todo = pass[p].todo]]
              /\ pass[p].at = "fetched"
              /\ UNCHANGED <<fixed, today, eZee, access, pins, faults>>
<1>1. PICK was, seen, b : was = pass[p].now /\ seen = pass[p].seen /\ b = was.row
  OBVIOUS
<1>2. pass[p] \in PassKind /\ pass[p].at = "fetched" /\ SoundPass(p)
  BY TypeParts DEF Update, LockInv
<1>3. was \in Snapshots /\ seen \in LockSeen /\ b \in Rows
  BY <1>1, <1>2 DEF PassKind, SoundPass
<1>4. row[b] \in LockRow
  BY <1>3, TypeParts DEF LockInv
<1>5. PICK new : new = Followed(was, seen, row[b])
  OBVIOUS
<1>6. new \in LockRow
  BY <1>3, <1>4, <1>5 DEF Followed, Snapshots, LockSeen, LockRow
<1>7. PICK room : room = ToProvision(b, was, seen)
  OBVIOUS
<1>8. room \in AnyRoom /\ (room # NoRoom => pins[b] = <<>>)
  BY <1>3, <1>7, NothingIs DEF ToProvision, RoomOf, Snapshots, LockSeen
<1>9. QED
  BY <1>1, <1>2, <1>3, <1>5, <1>6, <1>7, <1>8 DEF Update

LEMMA UpdateType ==
    ASSUME LockInv, NEW p \in Passes, Update(p)
    PROVE  CheckInTypeOK'
<1>0. /\ CheckInTypeOK /\ LockTypes
      /\ pass \in [Passes -> PassKind] /\ row \in [Rows -> LockRow]
  BY TypeParts DEF LockInv
<1>1. PICK b \in Rows, new \in LockRow, room \in AnyRoom :
        /\ job[p][b] = NoRoom
        /\ room # NoRoom => pins[b] = <<>>
        /\ row' = [row EXCEPT ![b] = new]
        /\ job' = [job EXCEPT ![p] = [job[p] EXCEPT ![b] = room]]
        /\ overlapped' = IF room # NoRoom /\ \E q \in Passes : job[q][b] # NoRoom
                         THEN overlapped \cup {b} ELSE overlapped
        /\ pass' = [pass EXCEPT ![p] = [Resting EXCEPT !.at = "drift",
                                                       !.todo = pass[p].todo]]
        /\ pass[p].at = "fetched"
        /\ UNCHANGED <<fixed, today, eZee, access, pins, faults>>
  BY UpdateIs
<1>2. [Resting EXCEPT !.at = "drift", !.todo = pass[p].todo] \in PassKind
  BY <1>0, NothingIs DEF PassKind
<1>3. job' \in [Passes -> [Rows -> AnyRoom]]
  BY <1>0, <1>1 DEF LockTypes
<1>4. LockTypes'
  BY <1>0, <1>1, <1>3 DEF LockTypes, PinKind
<1>5. row' \in [Rows -> LockRow] /\ pass' \in [Passes -> PassKind]
  BY <1>0, <1>1, <1>2
<1>6. QED
  BY <1>0, <1>1, <1>4, <1>5, TypeParts, TypesStay

\* An access of a lock for the provisioning of row b.
LEMMA AccessIsAdded ==
    ASSUME CheckInTypeOK, NEW p \in Passes, NEW b \in Rows, NEW lost \in BOOLEAN,
           job[p][b] # NoRoom,
           access' = Append(access, NewAccess(b, job[p][b], lost))
    PROVE  /\ access' \in Seq(AccessKind) /\ access' # <<>>
           /\ access \in Seq(AccessKind)
           /\ Len(access) \in Nat /\ Len(access') = Len(access) + 1
           /\ access'[Len(access')] = NewAccess(b, job[p][b], lost)
           /\ \A i \in 1..Len(access) : access'[i] = access[i]
           /\ job[p][b] \in Rooms
           /\ pins \in [Rows -> Seq(PinKind')]
<1>1. job[p][b] \in Rooms /\ b.of \in Reservations
  BY TypeParts, RowsAre DEF LockTypes, AnyRoom
<1>2. PICK new : new = NewAccess(b, job[p][b], lost)
  OBVIOUS
<1>3. new \in AccessKind
  <2>1. name[b.of] \in Names \cup {"Guest"} /\ day[b.of] \in Days
    BY <1>1, TypeParts DEF EzeeTypes
  <2>2. QED
    BY <1>1, <1>2, <2>1 DEF NewAccess, AccessKind
<1>4. access \in Seq(AccessKind) /\ access' = Append(access, new)
  BY <1>2, TypeParts DEF LockTypes
<1>5. /\ access' \in Seq(AccessKind) /\ access' # <<>>
      /\ Len(access) \in Nat /\ Len(access') = Len(access) + 1
      /\ access'[Len(access')] = new
      /\ \A i \in 1..Len(access) : access'[i] = access[i]
  BY <1>3, <1>4
<1>6. PinKind \subseteq PinKind'
  BY <1>5 DEF PinKind
<1>7. \A d \in Rows : pins[d] \in Seq(PinKind')
  <2>1. \A S, T : S \subseteq T => Seq(S) \subseteq Seq(T)
    OBVIOUS
  <2>2. QED
    BY <1>6, <2>1, TypeParts DEF LockTypes
<1>8. QED
  BY <1>1, <1>2, <1>4, <1>5, <1>7, TypeParts DEF LockTypes

LEMMA ProvisioningType ==
    ASSUME LockInv, NEW p \in Passes, NEW b \in Rows,
           MakePin(p, b) \/ NoSession(p, b) \/ ProvisionFails(p, b)
    PROVE  CheckInTypeOK'
<1>0. CheckInTypeOK /\ LockTypes /\ faults \in 0..MaxFaults
  BY TypeParts DEF LockInv
<1>1. ASSUME job' = [job EXCEPT ![p][b] = NoRoom]
      PROVE  job' \in [Passes -> [Rows -> AnyRoom]]
  BY <1>0, <1>1, NothingIs DEF LockTypes
<1>2. CASE NoSession(p, b)
  <2>1. LockTypes'
    BY <1>0, <1>1, <1>2 DEF NoSession, LockTypes, PinKind
  <2>2. QED
    BY <1>0, <1>2, <2>1, TypeParts, TypesStay, FaultIsCounted DEF NoSession
<1>3. CASE ProvisionFails(p, b)
  <2>1. LockTypes'
    BY <1>0, <1>1, <1>3, AccessIsAdded DEF ProvisionFails, LockTypes
  <2>2. QED
    BY <1>0, <1>3, <2>1, TypeParts, TypesStay, FaultIsCounted DEF ProvisionFails
<1>4. CASE MakePin(p, b)
  <2>1. /\ access' = Append(access, NewAccess(b, job[p][b], FALSE))
        /\ job[p][b] # NoRoom
    BY <1>4 DEF MakePin
  <2>2. PICK all, made : all = access' /\ made = NewAccess(b, job[p][b], FALSE)
    OBVIOUS
  <2>3. PICK pin : pin = [room |-> job[p][b], pin |-> Min(Matches(all, made))]
    OBVIOUS
  <2>4. pin \in PinKind'
    <3>1. all \in Seq(AccessKind) /\ all # <<>> /\ all[Len(all)] = made
      BY <1>0, <2>1, <2>2, AccessIsAdded
    <3>2. Min(Matches(all, made)) \in 1..Len(all)
      BY <3>1, PinIsAnAccess
    <3>3. QED
      BY <1>0, <2>1, <2>2, <2>3, <3>2, AccessIsAdded DEF PinKind
  <2>5. pins' = pins \/ pins' = [pins EXCEPT ![b] = Append(@, pin)]
    BY <1>4, <2>1, <2>2, <2>3 DEF MakePin
  <2>6. PICK P : P = PinKind'
    OBVIOUS
  <2>7. pins \in [Rows -> Seq(P)]
    BY <1>0, <2>1, <2>6, AccessIsAdded
  <2>8. Append(pins[b], pin) \in Seq(P)
    BY <2>4, <2>6, <2>7
  <2>9. pins' \in [Rows -> Seq(P)]
    BY <2>5, <2>7, <2>8
  <2>10. LockTypes'
    BY <1>0, <1>1, <1>4, <2>1, <2>6, <2>9, AccessIsAdded DEF MakePin, LockTypes
  <2>11. QED
    BY <1>0, <1>4, <2>10, TypeParts, TypesStay DEF MakePin
<1>5. QED
  BY <1>2, <1>3, <1>4

LEMMA TypeIsKept ==
    ASSUME LockInv, [CheckInNext]_checkInVars
    PROVE  CheckInTypeOK'
<1>1. CheckInTypeOK
  BY DEF LockInv
<1>2. CASE UNCHANGED checkInVars
  BY <1>1, <1>2, TypeParts, TypesStay DEF checkInVars
<1>3. ASSUME NEW r \in Reservations, StoreNumber(r) PROVE CheckInTypeOK'
  <2>1. [row[Tds(r)] EXCEPT !.number = TRUE] \in LockRow
    <3>1. row[Tds(r)] \in LockRow
      BY <1>1, RowsAre, TypeParts
    <3>2. QED
      BY <3>1 DEF LockRow
  <2>2. row' \in [Rows -> LockRow]
    BY <1>1, <1>3, <2>1, TypeParts DEF StoreNumber
  <2>3. QED
    BY <1>1, <1>3, <2>2, TypeParts, TypesStay DEF StoreNumber
<1>4. CASE NextDay
  <2>1. EzeeTypes'
    BY <1>1, <1>4, LockBounds, TypeParts DEF NextDay, EzeeTypes, account, fixed, eZee
  <2>2. QED
    BY <1>1, <1>4, <2>1, TypeParts, TypesStay DEF NextDay
<1>5. QED
  BY <1>1, <1>2, <1>3, <1>4, EzeeStepType, PassStepType, UpdateType, ProvisioningType
  DEF CheckInNext, PassStep, AnyRoom
-----------------------------------------------------------------------------
(* Passes.                                                                 *)

\* The bookings that are ours, the guests' names and the days do not change.
LEMMA FixedStays == [CheckInNext]_checkInVars =>
                        own' = own /\ name' = name /\ day' = day /\ account' = account
BY DEF CheckInNext, checkInVars, fixed, account, PassStep, NextDay, Happens, Arrive,
   AssignRoom, Move, InsertBooking, StoreNumber, Begin, Fetch, FetchFails, Update,
   ListArrivals, Ingest, End, Abandon, MakePin, NoSession, ProvisionFails

LEMMA PassesStaySound ==
    ASSUME LockInv, [CheckInNext]_checkInVars, NEW p \in Passes
    PROVE  SoundPass(p)'
<1>0. /\ CheckInTypeOK /\ SoundPass(p)
      /\ pass \in [Passes -> PassKind]
      /\ row \in [Rows -> LockRow] /\ pass[p] \in PassKind
  BY TypeParts DEF LockInv
<1>1. ASSUME pass'[p] = pass[p] PROVE SoundPass(p)'
  BY <1>0, <1>1 DEF SoundPass
<1>2. ASSUME pass'[p].at = "rest" PROVE SoundPass(p)'
  BY <1>2 DEF SoundPass
<1>3. ASSUME Begin(p) PROVE SoundPass(p)'
  <2>1. /\ pass'[p].at = "drift"
        /\ pass'[p].todo = {Snapshot(b) : b \in {d \in Rows : Active(d)}}
    BY <1>0, <1>3, NothingIs DEF Begin, PassKind
  <2>2. ASSUME NEW s \in pass'[p].todo
        PROVE  s \in Snapshots /\ s.row \in Rows
    <3>1. PICK b \in Rows : Active(b) /\ s = Snapshot(b)
      BY <2>1
    <3>2. QED
      BY <1>0, <3>1 DEF Snapshot, Snapshots, LockRow
  <2>3. QED
    BY <2>1, <2>2 DEF SoundPass
<1>4. ASSUME Fetch(p) PROVE SoundPass(p)'
  <2>1. PICK b \in pass[p].todo :
          pass' = [pass EXCEPT ![p] = [at |-> "fetched", todo |-> pass[p].todo \ {b},
                                       now |-> b, seen |-> pms[b.row.of]]]
    BY <1>0, <1>4 DEF Fetch
  <2>2. /\ pass'[p].at = "fetched" /\ pass'[p].now = b
        /\ pass'[p].todo = pass[p].todo \ {b}
    BY <1>0, <2>1
  <2>3. QED
    BY <1>0, <1>4, <2>2 DEF SoundPass, Fetch
<1>5. ASSUME FetchFails(p) PROVE SoundPass(p)'
  BY <1>0, <1>5 DEF SoundPass, FetchFails, PassKind
<1>6. ASSUME Update(p) PROVE SoundPass(p)'
  <2>1. /\ pass' = [pass EXCEPT ![p] = [Resting EXCEPT !.at = "drift",
                                                       !.todo = pass[p].todo]]
        /\ pass[p].at = "fetched"
    BY <1>6, UpdateIs
  <2>2. pass'[p].at = "drift" /\ pass'[p].todo = pass[p].todo
    BY <1>0, <2>1, NothingIs DEF PassKind
  <2>3. QED
    BY <1>0, <2>1, <2>2 DEF SoundPass
<1>7. ASSUME ListArrivals(p) PROVE SoundPass(p)'
  <2>1. \A r \in Listed :
          [of |-> r, status |-> pms[r].status, room |-> pms[r].room] \in Arrivals
    BY <1>0, TypeParts DEF EzeeTypes, Listed, Arrivals, LockSeen
  <2>2. PICK all :
          /\ pass' = [pass EXCEPT ![p].at = "ingest", ![p].todo = all]
          /\ all = Unknown({[of |-> r, status |-> pms[r].status,
                               room |-> pms[r].room] : r \in Listed})
    BY <1>7 DEF ListArrivals
  <2>3. all \in SUBSET Arrivals
    BY <2>1, <2>2 DEF Unknown
  <2>4. pass'[p].at = "ingest" /\ pass'[p].todo = all
    BY <1>0, <2>2 DEF PassKind
  <2>5. QED
    BY <2>3, <2>4 DEF SoundPass
<1>8. ASSUME Ingest(p), pass'[p] # Resting PROVE SoundPass(p)'
  <2>1. PICK a : pass' = [pass EXCEPT ![p].todo = @ \ {a}]
    BY <1>0, <1>8 DEF Ingest
  <2>2. pass'[p].at = pass[p].at /\ pass'[p].todo \subseteq pass[p].todo
    BY <1>0, <2>1 DEF PassKind
  <2>3. QED
    BY <1>0, <1>8, <2>2 DEF SoundPass, Ingest
<1>9. CASE pass'[p] # pass[p] /\ pass'[p] # Resting
  <2>1. PICK q \in Passes : Begin(q) \/ PassStep(q) \/ FetchFails(q) \/ Abandon(q)
    BY <1>9 DEF CheckInNext, checkInVars, NextDay, Happens, Arrive, AssignRoom, Move,
       InsertBooking, StoreNumber, MakePin, NoSession, ProvisionFails
  <2>2. \E k : pass' = [pass EXCEPT ![q] = k]
    BY <2>1 DEF Begin, PassStep, FetchFails, Abandon, Fetch, Update,
       ListArrivals, Ingest, End
  <2>3. q = p
    BY <1>0, <1>9, <2>2
  <2>4. ~End(p) /\ ~Abandon(p)
    BY <1>0, <1>9 DEF End, Abandon
  <2>5. QED
    BY <1>3, <1>4, <1>5, <1>6, <1>7, <1>8, <1>9, <2>1, <2>3, <2>4 DEF PassStep
<1>10. QED
  BY <1>1, <1>2, <1>9, NothingIs DEF Resting
-----------------------------------------------------------------------------
(* Provisionings.                                                          *)

\* What a step does to the locks and to what we know of them.
LEMMA LocksChange ==
    ASSUME [CheckInNext]_checkInVars
    PROVE  \/ UNCHANGED locks
           \/ \E p \in Passes : Update(p)
           \/ \E p \in Passes, b \in Rows :
                 MakePin(p, b) \/ NoSession(p, b) \/ ProvisionFails(p, b)
<1>1. CASE UNCHANGED checkInVars
  BY <1>1 DEF checkInVars
<1>2. ASSUME NEW r \in Reservations,
             \/ \E room, s : \/ Arrive(r, s, room) \/ InsertBooking(r, room)
                             \/ AssignRoom(r, room) \/ Move(r, s)
             \/ StoreNumber(r)
      PROVE  UNCHANGED locks
  BY <1>2 DEF Arrive, InsertBooking, AssignRoom, Move, Happens, StoreNumber
<1>3. ASSUME NEW p \in Passes,
             \/ Begin(p) \/ Fetch(p) \/ ListArrivals(p) \/ Ingest(p) \/ End(p)
             \/ FetchFails(p) \/ Abandon(p)
      PROVE  UNCHANGED locks
  BY <1>3 DEF Begin, Fetch, ListArrivals, Ingest, End, FetchFails, Abandon
<1>4. CASE NextDay
  BY <1>4 DEF NextDay
<1>5. QED
  BY <1>1, <1>2, <1>3, <1>4 DEF CheckInNext, PassStep

\* What ends a provisioning.
LEMMA ProvisioningIs ==
    ASSUME LockInv, NEW p \in Passes, NEW d \in Rows,
           MakePin(p, d) \/ NoSession(p, d) \/ ProvisionFails(p, d)
    PROVE  /\ job[p][d] # NoRoom /\ overlapped' = overlapped
           /\ \A q \in Passes, b \in Rows :
                 job'[q][b] = IF q = p /\ b = d THEN NoRoom ELSE job[q][b]
           /\ \A b \in Rows \ {d} : pins'[b] = pins[b]
           /\ Len(pins'[d]) <= Len(pins[d]) + 1 /\ Len(pins[d]) \in Nat
<1>1. job \in [Passes -> [Rows -> AnyRoom]] /\ pins \in [Rows -> Seq(PinKind)]
  BY TypeParts DEF LockInv, LockTypes
<1>2. pins' = pins \/ \E pin : pins' = [pins EXCEPT ![d] = Append(@, pin)]
  BY DEF MakePin, NoSession, ProvisionFails
<1>3. pins[d] \in Seq(PinKind) /\ Len(pins[d]) \in Nat
  BY <1>1
<1>4. \A pin : Len(Append(pins[d], pin)) = Len(pins[d]) + 1
  BY <1>3
<1>5. /\ \A b \in Rows \ {d} : pins'[b] = pins[b]
      /\ Len(pins'[d]) <= Len(pins[d]) + 1
  BY <1>1, <1>2, <1>3, <1>4
<1>6. /\ job[p][d] # NoRoom /\ overlapped' = overlapped
      /\ job' = [job EXCEPT ![p][d] = NoRoom]
  BY DEF MakePin, NoSession, ProvisionFails
<1>7. QED
  BY <1>1, <1>3, <1>5, <1>6

LEMMA OneAtATimeStays ==
    ASSUME LockInv, [CheckInNext]_checkInVars, NEW b \in Rows
    PROVE  OneAtATime(b)'
<1>0. /\ OneAtATime(b)
      /\ job \in [Passes -> [Rows -> AnyRoom]] /\ pins \in [Rows -> Seq(PinKind)]
  BY TypeParts DEF LockInv, LockTypes
<1>1. CASE UNCHANGED locks
  BY <1>0, <1>1 DEF OneAtATime, locks
<1>2. ASSUME NEW p \in Passes, Update(p)
      PROVE  OneAtATime(b)'
  <2>1. PICK d \in Rows, room \in AnyRoom :
          /\ job[p][d] = NoRoom
          /\ room # NoRoom => pins[d] = <<>>
          /\ job' = [job EXCEPT ![p] = [job[p] EXCEPT ![d] = room]]
          /\ overlapped' = IF room # NoRoom /\ \E q \in Passes : job[q][d] # NoRoom
                           THEN overlapped \cup {d} ELSE overlapped
          /\ pins' = pins
    BY <1>2, UpdateIs
  <2>2. \A q \in Passes : job'[q][b] = IF q = p /\ b = d THEN room ELSE job[q][b]
    BY <1>0, <2>1
  <2>3. QED
    BY <1>0, <2>1, <2>2 DEF OneAtATime
<1>3. ASSUME NEW p \in Passes, NEW d \in Rows,
             MakePin(p, d) \/ NoSession(p, d) \/ ProvisionFails(p, d)
      PROVE  OneAtATime(b)'
  <2>1. /\ job[p][d] # NoRoom /\ overlapped' = overlapped
        /\ \A q \in Passes : job'[q][b] = IF q = p /\ b = d THEN NoRoom ELSE job[q][b]
        /\ b # d => pins'[b] = pins[b]
        /\ Len(pins'[d]) <= Len(pins[d]) + 1 /\ Len(pins[d]) \in Nat
    BY <1>3, ProvisioningIs
  <2>2. QED
    BY <1>0, <2>1 DEF OneAtATime
<1>4. QED
  BY <1>1, <1>2, <1>3, LocksChange
-----------------------------------------------------------------------------
(* Accesses and PINs.                                                      *)

\* What is explained stays explained when accesses and PINs are added.
LEMMA ExplanationsStay ==
    ASSUME LockInv, [CheckInNext]_checkInVars, NEW i \in DOMAIN access,
           overlapped \subseteq overlapped',
           \A j \in DOMAIN access : j \in DOMAIN access' /\ access'[j] = access[j],
           \A b \in Rows : \A n \in DOMAIN pins[b] :
              n \in DOMAIN pins'[b] /\ pins'[b][n] = pins[b][n]
    PROVE  Explained(i)'
<1>1. Explained(i) /\ account' = account /\ access'[i] = access[i]
  BY FixedStays DEF LockInv
<1>2. Matches(access, access[i]) \subseteq Matches(access', access'[i])
  BY DEF Matches
<1>3. \A j \in Matches(access, access[i]) : access'[j] = access[j]
  BY DEF Matches
<1>4. CASE \E b \in Rows : \E n \in DOMAIN pins[b] : pins[b][n].pin = i
  BY <1>4 DEF Explained
<1>5. CASE access[i].lost \/ access[i].row.of \notin account
  BY <1>1, <1>5 DEF Explained
<1>6. CASE \E j \in Matches(access, access[i]) :
              /\ j < i
              /\ access[j].row = access[i].row =>
                    access[j].lost \/ access[i].row \in overlapped
  <2>1. PICK j \in Matches(access, access[i]) :
              /\ j < i
              /\ access[j].row = access[i].row =>
                    access[j].lost \/ access[i].row \in overlapped
    BY <1>6
  <2>2. /\ j \in Matches(access', access'[i]) /\ j < i
        /\ access'[j].row = access'[i].row =>
              access'[j].lost \/ access'[i].row \in overlapped'
    BY <1>1, <1>2, <1>3, <2>1
  <2>3. QED
    BY <2>2 DEF Explained
<1>7. QED
  BY <1>1, <1>4, <1>5, <1>6 DEF Explained

\* MakePin, said of the sequences.
LEMMA MakePinIs ==
    ASSUME LockInv, NEW p \in Passes, NEW d \in Rows, MakePin(p, d)
    PROVE  \E made, pin :
              /\ access' = Append(access, made)
              /\ made.row = d /\ ~made.lost
              /\ pin.pin = Min(Matches(access', made))
              /\ pins' = IF d.of \in account THEN [pins EXCEPT ![d] = Append(@, pin)]
                         ELSE pins
              /\ overlapped' = overlapped
              /\ access \in Seq(AccessKind) /\ access' \in Seq(AccessKind)
              /\ access' # <<>> /\ access'[Len(access')] = made
              /\ Len(access) \in Nat /\ Len(access') = Len(access) + 1
              /\ \A j \in 1..Len(access) : access'[j] = access[j]
<1>1. PICK room, made : /\ room = job[p][d] /\ room # NoRoom
                        /\ made = NewAccess(d, room, FALSE)
  BY DEF MakePin
<1>2. PICK all : all = Append(access, made)
  OBVIOUS
<1>3. PICK pin : pin = [room |-> room, pin |-> Min(Matches(all, made))]
  OBVIOUS
<1>4. /\ access' = all /\ overlapped' = overlapped
      /\ pins' = IF d.of \in account THEN [pins EXCEPT ![d] = Append(@, pin)] ELSE pins
  BY <1>1, <1>2, <1>3 DEF MakePin
<1>5. made.row = d /\ ~made.lost /\ pin.pin = Min(Matches(all, made))
  BY <1>1, <1>3 DEF NewAccess
<1>6. /\ access \in Seq(AccessKind) /\ access' \in Seq(AccessKind)
      /\ access' # <<>> /\ access'[Len(access')] = made
      /\ Len(access) \in Nat /\ Len(access') = Len(access) + 1
      /\ \A j \in 1..Len(access) : access'[j] = access[j]
  BY <1>1, <1>2, <1>4, AccessIsAdded DEF LockInv
<1>7. QED
  BY <1>2, <1>4, <1>5, <1>6

\* The new PIN is stored, or MyGate had an older access that looks like it.
LEMMA NewPinIsExplained ==
    ASSUME LockInv, [CheckInNext]_checkInVars,
           NEW p \in Passes, NEW d \in Rows, MakePin(p, d)
    PROVE  /\ \A i \in DOMAIN access' : Explained(i)'
           /\ \A b \in Rows : NothingKept(b)'
<1>1. PICK made, pin :
          /\ access' = Append(access, made)
          /\ made.row = d /\ ~made.lost
          /\ pin.pin = Min(Matches(access', made))
          /\ pins' = IF d.of \in account THEN [pins EXCEPT ![d] = Append(@, pin)]
                     ELSE pins
          /\ overlapped' = overlapped
          /\ access \in Seq(AccessKind) /\ access' \in Seq(AccessKind)
          /\ access' # <<>> /\ access'[Len(access')] = made
          /\ Len(access) \in Nat /\ Len(access') = Len(access) + 1
          /\ \A j \in 1..Len(access) : access'[j] = access[j]
  BY MakePinIs
<1>2. PICK last : last = Len(access')
  OBVIOUS
<1>3. /\ DOMAIN access = 1..Len(access) /\ DOMAIN access' = 1..last
      /\ last = Len(access) + 1 /\ Len(access) \in Nat /\ access'[last] = made
  BY <1>1, <1>2
<1>4. /\ pins \in [Rows -> Seq(PinKind)] /\ account' = account
      /\ job[p][d] # NoRoom /\ OneAtATime(d) /\ \A b \in Rows : NothingKept(b)
  BY FixedStays, TypeParts DEF LockInv, LockTypes, MakePin
<1>5. ASSUME NEW b \in Rows
      PROVE  /\ \A n \in DOMAIN pins[b] : n \in DOMAIN pins'[b] /\ pins'[b][n] = pins[b][n]
             /\ b = d /\ d.of \in account =>
                   pins'[b] # <<>> /\ \E n \in DOMAIN pins'[b] : pins'[b][n] = pin
             /\ b # d => pins'[b] = pins[b]
  <2>1. pins[b] \in Seq(PinKind)
    BY <1>4
  <2>2. PICK s : s = Append(pins[b], pin)
    OBVIOUS
  <2>3. /\ \A n \in DOMAIN pins[b] : n \in DOMAIN s /\ s[n] = pins[b][n]
        /\ Len(pins[b]) + 1 \in DOMAIN s /\ s[Len(pins[b]) + 1] = pin /\ s # <<>>
    BY <2>1, <2>2
  <2>4. pins'[b] = IF d.of \in account /\ b = d THEN s ELSE pins[b]
    BY <1>1, <1>4, <2>2
  <2>5. QED
    BY <2>3, <2>4
<1>6. \A i \in DOMAIN access : Explained(i)'
  <2>1. \A j \in DOMAIN access : j \in DOMAIN access' /\ access'[j] = access[j]
    BY <1>1, <1>3
  <2>2. QED
    BY <1>1, <1>5, <2>1, ExplanationsStay
<1>7. Explained(last)'
  <2>1. CASE d.of \notin account
    BY <1>1, <1>3, <1>4, <2>1 DEF Explained
  <2>2. CASE d.of \in account
    <3>1. PICK j : j = pin.pin
      OBVIOUS
    <3>2. j \in Matches(access', made) /\ j \in 1..last
      BY <1>1, <1>2, <3>1, PinIsAnAccess
    <3>3. \E b \in Rows : \E n \in DOMAIN pins'[b] : pins'[b][n].pin = j
      BY <1>5, <2>2, <3>1
    <3>4. CASE j = last
      BY <3>3, <3>4 DEF Explained
    <3>5. CASE j # last
      <4>1. j < last /\ j \in DOMAIN access /\ access'[j] = access[j]
        BY <1>1, <1>3, <3>2, <3>5
      <4>2. d \notin overlapped /\ access[j].row = d => access[j].lost
        BY <1>4, <2>2, <4>1 DEF OneAtATime, NothingKept
      <4>3. /\ j \in Matches(access', access'[last]) /\ j < last
            /\ access'[j].row = access'[last].row =>
                  access'[j].lost \/ access'[last].row \in overlapped'
        BY <1>1, <1>3, <3>2, <4>1, <4>2
      <4>4. QED
        BY <4>3 DEF Explained
    <3>6. QED
      BY <3>4, <3>5
  <2>3. QED
    BY <2>1, <2>2
<1>8. ASSUME NEW b \in Rows PROVE NothingKept(b)'
  <2>1. CASE b = d
    BY <1>4, <1>5, <2>1 DEF NothingKept
  <2>2. CASE b # d
    <3>1. \A j \in DOMAIN access' : access'[j].row = b =>
             j \in DOMAIN access /\ access'[j] = access[j]
      BY <1>1, <1>3, <2>2
    <3>2. QED
      BY <1>4, <1>5, <2>2, <3>1 DEF NothingKept
  <2>3. QED
    BY <2>1, <2>2
<1>9. \A i \in DOMAIN access' : i = last \/ i \in DOMAIN access
  BY <1>3
<1>10. QED
  BY <1>6, <1>7, <1>8, <1>9

LEMMA PinsStayExplained ==
    ASSUME LockInv, [CheckInNext]_checkInVars
    PROVE  /\ \A i \in DOMAIN access' : Explained(i)'
           /\ \A b \in Rows : NothingKept(b)'
<1>1. /\ account' = account /\ \A b \in Rows : NothingKept(b)
      /\ access \in Seq(AccessKind)
  BY FixedStays, TypeParts DEF LockInv, LockTypes
<1>2. CASE UNCHANGED <<access, pins>> /\ overlapped \subseteq overlapped'
  <2>1. \A i \in DOMAIN access' : Explained(i)'
    BY <1>2, ExplanationsStay
  <2>2. \A b \in Rows : NothingKept(b)'
    BY <1>1, <1>2 DEF NothingKept
  <2>3. QED
    BY <2>1, <2>2
<1>3. CASE UNCHANGED locks
  BY <1>2, <1>3 DEF locks
<1>4. CASE \E p \in Passes : Update(p)
  <2>1. UNCHANGED <<access, pins>> /\ overlapped \subseteq overlapped'
    BY <1>4, UpdateIs
  <2>2. QED
    BY <1>2, <2>1
<1>5. CASE \E p \in Passes, d \in Rows : NoSession(p, d)
  BY <1>2, <1>5 DEF NoSession
<1>6. ASSUME NEW p \in Passes, NEW d \in Rows, ProvisionFails(p, d)
      PROVE  /\ \A i \in DOMAIN access' : Explained(i)'
             /\ \A b \in Rows : NothingKept(b)'
  <2>1. PICK made : made = NewAccess(d, job[p][d], TRUE)
    OBVIOUS
  <2>2. access' = Append(access, made) /\ made.lost /\ UNCHANGED <<pins, overlapped>>
    BY <1>6, <2>1 DEF ProvisionFails, NewAccess
  <2>3. \A i \in DOMAIN access' : \/ i \in DOMAIN access /\ access'[i] = access[i]
                                  \/ access'[i] = made
    <3>1. /\ access' \in Seq(AccessKind) /\ Len(access) \in Nat
          /\ Len(access') = Len(access) + 1 /\ access'[Len(access')] = made
          /\ \A i \in 1..Len(access) : access'[i] = access[i]
      BY <1>6, <2>1, AccessIsAdded DEF ProvisionFails, LockInv
    <3>2. QED
      BY <1>1, <3>1
  <2>4. \A j \in DOMAIN access : j \in DOMAIN access' /\ access'[j] = access[j]
    <3>1. /\ access' \in Seq(AccessKind) /\ Len(access) \in Nat
          /\ Len(access') = Len(access) + 1
          /\ \A i \in 1..Len(access) : access'[i] = access[i]
      BY <1>6, AccessIsAdded DEF ProvisionFails, LockInv
    <3>2. QED
      BY <1>1, <3>1
  <2>5. \A i \in DOMAIN access : Explained(i)'
    BY <2>2, <2>4, ExplanationsStay
  <2>6. ASSUME NEW i \in DOMAIN access' PROVE Explained(i)'
    BY <2>2, <2>3, <2>5 DEF Explained
  <2>7. ASSUME NEW b \in Rows PROVE NothingKept(b)'
    BY <1>1, <2>2, <2>3 DEF NothingKept
  <2>8. QED
    BY <2>6, <2>7
<1>7. QED
  BY <1>3, <1>4, <1>5, <1>6, NewPinIsExplained, LocksChange
-----------------------------------------------------------------------------
LEMMA LockInvAtStart == CheckInInit => LockInv
<1>1. SUFFICES ASSUME CheckInInit PROVE LockInv
  OBVIOUS
<1>2. CheckInTypeOK
  <2>1. EzeeTypes
    <3>1. [status : Statuses, room : AnyRoom] \subseteq LockSeen
      BY DEF LockSeen, AnyStatus
    <3>2. pms \in [Reservations -> LockSeen]
      BY <1>1, <3>1, NothingIs DEF CheckInInit, AnyRoom
    <3>3. QED
      BY <1>1, <3>2, LockBounds DEF CheckInInit, EzeeTypes
  <2>2. LockTypes
    <3>1. job \in [Passes -> [Rows -> AnyRoom]]
      BY <1>1, NothingIs DEF CheckInInit
    <3>2. access \in Seq(AccessKind) /\ <<>> \in Seq(PinKind)
      BY <1>1 DEF CheckInInit
    <3>3. pins \in [Rows -> Seq(PinKind)] /\ overlapped \subseteq Rows
      BY <1>1, <3>2 DEF CheckInInit
    <3>4. QED
      BY <3>1, <3>2, <3>3 DEF LockTypes
  <2>3. row \in [Rows -> LockRow]
    <3>1. NoRow \in LockRow
      BY NothingIs DEF NoRow, LockRow, AnyStatus
    <3>2. [NoRow EXCEPT !.there = TRUE, !.active = TRUE, !.status = "CONFIRMED"]
             \in LockRow
      BY <3>1 DEF LockRow, AnyStatus, Statuses
    <3>3. QED
      BY <1>1, <3>1, <3>2 DEF CheckInInit
  <2>4. pass \in [Passes -> PassKind] /\ faults \in 0..MaxFaults
    BY <1>1, NothingIs, LockBounds DEF CheckInInit
  <2>5. QED
    BY <2>1, <2>2, <2>3, <2>4, TypeParts
<1>3. ASSUME NEW b \in Rows PROVE OneAtATime(b) /\ NothingKept(b)
  BY <1>1 DEF CheckInInit, OneAtATime, NothingKept
<1>4. \A p \in Passes : SoundPass(p)
  BY <1>1 DEF CheckInInit, SoundPass, Resting
<1>5. \A i \in DOMAIN access : Explained(i)
  BY <1>1 DEF CheckInInit
<1>6. QED
  BY <1>1, <1>2, <1>3, <1>4, <1>5 DEF LockInv

\* Between an access that a lock was given and the PIN of it that is stored,
\* rows, passes and provisionings are as LockInv says.
THEOREM LockInvHolds == CheckInSpec => []LockInv
<1>1. LockInv /\ [CheckInNext]_checkInVars => LockInv'
  BY TypeIsKept, OneAtATimeStays, PassesStaySound, PinsStayExplained DEF LockInv
<1>2. QED
  BY <1>1, LockInvAtStart, PTL DEF CheckInSpec

\* Rows of ezee_booking_cache, reconciliation passes, accesses and PINs keep
\* the shape that the code gives them.
THEOREM LocksTypeCorrect == CheckInSpec => []CheckInTypeOK
BY LockInvHolds, PTL DEF LockInv

LEMMA InvMeansTwoPins == LockInv => TwoPinsOverlapped
<1>1. ASSUME LockInv, NEW b \in Rows PROVE Len(pins[b]) \in Nat /\ OneAtATime(b)
  BY <1>1, TypeParts DEF LockInv, LockTypes
<1>2. QED
  BY <1>1 DEF TwoPinsOverlapped, OneAtATime

LEMMA InvExplainsPins == LockInv => UnknownPinIsExplained
BY DEF LockInv, Explained, UnknownPinIsExplained

\* provisionLockAccess makes a second PIN for a row only if two passes were
\* provisioning it at one time.
THEOREM TwoPins == CheckInSpec => []TwoPinsOverlapped
BY LockInvHolds, InvMeansTwoPins, PTL

\* An access of a lock that no row of smart_lock_access names failed half-way,
\* has no guest, or has an older one of its name, room and day, which is another
\* row's, or its row's own by a failure or by two provisionings at one time.
THEOREM PinsExplained == CheckInSpec => []UnknownPinIsExplained
BY LockInvHolds, InvExplainsPins, PTL
=============================================================================
