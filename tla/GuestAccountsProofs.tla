------------------------ MODULE GuestAccountsProofs ------------------------
(***************************************************************************)
(* Proofs about GuestAccounts, for any number of overlapping requests and  *)
(* of codes.                                                               *)
(***************************************************************************)
EXTENDS GuestAccounts, FiniteSetTheorems, WellFoundedInduction, TLAPS

CodeRow == [purpose : Purposes, keeps : BOOLEAN, used : BOOLEAN, served : Nat,
            age : {"recent", "valid", "expired", "deleted"},
            mail : {"unsent", "sent", "abandoned"}]
CallRow == [stage : Stages, purpose : Purposes \cup {"none"},
            code : 0..MaxCodes, keeps : BOOLEAN]

\* What a running request relies on: the row it works at is there, and is what
\* it was made or found for.
Sound(r) ==
    /\ r.stage = "row" => r.purpose \in Purposes
    /\ r.stage \in {"mail", "take back", "use"} => r.code \in 1..Len(codes)
    /\ r.stage = "mail" => codes[r.code].keeps = r.keeps
    /\ r.stage = "use" => codes[r.code].purpose = r.purpose

\* A code that makes others wait: its mail has gone, or its own request, and
\* not one that only quotes it, is still at work.
Mailing(i) ==
    codes[i].age = "recent" /\ ~codes[i].used /\ ~codes[i].keeps =>
        \/ codes[i].mail \in {"sent", "abandoned"}
        \/ \E c \in Calls : /\ call[c].stage \in {"mail", "take back"}
                            /\ call[c].code = i

\* A code that has served is marked, and those it has served together with
\* those that compared it before are no more than run at one time.
Quoting(i) == {c \in Calls : call[c].stage = "use" /\ call[c].code = i}
Counted(i) ==
    /\ codes[i].served > 0 => codes[i].used
    /\ codes[i].served + Cardinality(Quoting(i)) <= Cardinality(Calls)

\* The inductive invariant.
Inv ==
    /\ TypeOK
    /\ \A c \in Calls : Sound(call[c])
    /\ \A i \in 1..Len(codes) : Mailing(i) /\ Counted(i)
    /\ VerifiedByProof
-----------------------------------------------------------------------------
(* Types. *)

LEMMA RowsAre == TypeOK => codes \in Seq(CodeRow) /\ call \in [Calls -> CallRow]
BY DEF TypeOK, CodeRow, CallRow

LEMMA RowTypes ==
    TypeOK => /\ codes \in Seq(CodeRow) /\ Len(codes) \in Nat
              /\ DOMAIN codes = 1..Len(codes)
              /\ \A i \in 1..Len(codes) : codes[i] \in CodeRow
              /\ call \in [Calls -> CallRow]
BY RowsAre

LEMMA IdleIsCall == Idle \in CallRow
BY MaxCodesAssumption DEF Idle, Stages, CallRow

\* A set of numbers has a lowest one.
LEMMA HasLowest ==
    ASSUME NEW S \in SUBSET Nat, S # {}
    PROVE  \E low \in S : \A m \in S : low <= m
<1>1. PICK low \in S : \A m \in S : <<m, low>> \notin OpToRel(<, Nat)
  BY NatLessThanWellFounded, WFMin
<1>2. ASSUME NEW m \in S
      PROVE  low <= m
  <2>1. m \in Nat /\ low \in Nat
    OBVIOUS
  <2>2. ~(m < low)
    BY <1>1, <2>1 DEF OpToRel
  <2>3. QED
    BY <2>1, <2>2
<1>3. QED
  BY <1>2

\* The code that is compared is one of those that may be.
LEMMA NewestIsUsable ==
    ASSUME TypeOK, NEW p \in Purposes, Usable(p) # {}
    PROVE  Max(Usable(p)) \in Usable(p)
<1> DEFINE n == Len(codes)
           T == {n - m : m \in Usable(p)}
<1>1. Usable(p) \subseteq 1..n /\ n \in Nat
  BY RowTypes DEF Usable
<1> HIDE DEF n
<1>2. T \subseteq Nat /\ T # {}
  BY <1>1
<1>3. PICK x \in T : \A y \in T : x <= y
  BY <1>2, HasLowest
<1>4. PICK top \in Usable(p) : x = n - top
  OBVIOUS
<1>5. \A m \in Usable(p) : m <= top
  <2> SUFFICES ASSUME NEW m \in Usable(p) PROVE m <= top
    OBVIOUS
  <2>1. n - top <= n - m
    BY <1>3, <1>4
  <2>2. QED
    BY <1>1, <2>1
<1>6. Max(Usable(p)) =
         CHOOSE m \in Usable(p) : \A y \in Usable(p) : m >= y
  BY DEF Max
<1>7. \A m \in Usable(p) : top >= m
  BY <1>1, <1>5
<1>8. QED
  BY <1>6, <1>7
\* Changing one code leaves the others alone...
LEMMA Rewritten ==
    ASSUME TypeOK, NEW i \in 1..Len(codes), NEW new \in CodeRow,
           codes' = [codes EXCEPT ![i] = new]
    PROVE  /\ codes' \in Seq(CodeRow) /\ Len(codes)' = Len(codes)
           /\ codes'[i] = new
           /\ \A j \in 1..Len(codes) : j # i => codes'[j] = codes[j]
<1>1. codes \in Seq(CodeRow)
  BY RowTypes
<1>2. QED
  BY <1>1

\* ...and so does making a new one.
LEMMA Appended ==
    ASSUME TypeOK, NEW new \in CodeRow, codes' = Append(codes, new)
    PROVE  /\ codes' \in Seq(CodeRow) /\ Len(codes)' = Len(codes) + 1
           /\ codes'[Len(codes) + 1] = new
           /\ \A j \in 1..Len(codes) : codes'[j] = codes[j]
<1>1. codes \in Seq(CodeRow)
  BY RowTypes
<1>2. QED
  BY <1>1

\* What never happens to a code: it keeps its place, what it was made for, and
\* what it has served.
Kept ==
    /\ codes' \in Seq(CodeRow) /\ Len(codes)' \in Nat
    /\ Len(codes) <= Len(codes)' /\ Len(codes)' <= MaxCodes
    /\ \A i \in 1..Len(codes) :
          /\ codes'[i].purpose = codes[i].purpose
          /\ codes'[i].keeps = codes[i].keeps
          /\ codes[i].served <= codes'[i].served

\* What may become of a row.
Successor(old, new) ==
    /\ new \in CodeRow
    /\ new.purpose = old.purpose /\ new.keeps = old.keeps
    /\ old.served <= new.served

LEMMA Successors ==
    ASSUME NEW old \in CodeRow
    PROVE  /\ \A mail \in {"unsent", "sent", "abandoned"} :
                 Successor(old, [old EXCEPT !.mail = mail])
           /\ Successor(old, [old EXCEPT !.age = "deleted"])
           /\ Successor(old, [old EXCEPT !.age = Older(@)])
           /\ Successor(old, [old EXCEPT !.used = TRUE, !.served = @ + 1])
<1>0. old.served \in Nat
  BY DEF CodeRow
<1>1. \A mail \in {"unsent", "sent", "abandoned"} :
          Successor(old, [old EXCEPT !.mail = mail])
  BY <1>0 DEF CodeRow, Successor
<1>2. Successor(old, [old EXCEPT !.age = "deleted"])
  BY <1>0 DEF CodeRow, Successor
<1>3. Successor(old, [old EXCEPT !.age = Older(@)])
  BY <1>0 DEF CodeRow, Successor, Older
<1>4. Successor(old, [old EXCEPT !.used = TRUE, !.served = @ + 1])
  <2>1. ASSUME NEW used \in BOOLEAN, NEW served \in Nat
        PROVE  [old EXCEPT !.used = used, !.served = served] \in CodeRow
    BY DEF CodeRow
  <2>2. TRUE \in BOOLEAN /\ old.served + 1 \in Nat
    BY <1>0
  <2>3. [old EXCEPT !.used = TRUE, !.served = old.served + 1] \in CodeRow
    BY <2>1, <2>2, Zenon
  <2>4. QED
    BY <1>0, <2>3 DEF CodeRow, Successor
<1>5. QED
  BY <1>1, <1>2, <1>3, <1>4

LEMMA KeptIfSame ==
    ASSUME TypeOK, codes' = codes
    PROVE  Kept
<1>1. \A i \in 1..Len(codes) : codes[i].served \in Nat
  BY RowTypes DEF CodeRow
<1>2. QED
  BY <1>1, RowTypes DEF TypeOK, Kept

LEMMA KeptIfRewritten ==
    ASSUME TypeOK, NEW i \in 1..Len(codes), NEW new, Successor(codes[i], new),
           codes' = [codes EXCEPT ![i] = new]
    PROVE  Kept
<1>1. \A j \in 1..Len(codes) : codes[j].served \in Nat
  BY RowTypes DEF CodeRow
<1>2. Len(codes) \in Nat /\ Len(codes) <= MaxCodes
  BY RowTypes DEF TypeOK
<1>3. /\ codes' \in Seq(CodeRow) /\ Len(codes)' = Len(codes) /\ codes'[i] = new
      /\ \A j \in 1..Len(codes) : j # i => codes'[j] = codes[j]
  BY Rewritten DEF Successor
<1>4. ASSUME NEW j \in 1..Len(codes)
      PROVE  /\ codes'[j].purpose = codes[j].purpose
             /\ codes'[j].keeps = codes[j].keeps
             /\ codes[j].served <= codes'[j].served
  <2>1. CASE j = i
    BY <1>3, <2>1 DEF Successor
  <2>2. CASE j # i
    BY <1>1, <1>3, <2>2
  <2>3. QED
    BY <2>1, <2>2
<1>5. QED
  BY <1>2, <1>3, <1>4 DEF Kept

\* How codes change in a step: not at all, or by one of these.
Changes(c) ==
    \/ CreateCode(c) \/ Mailed(c) \/ MailFails(c) \/ TakeBack(c) \/ UseCode(c)
    \/ /\ Cut(c) /\ call[c].stage \in {"mail", "take back"}
       /\ codes[call[c].code].mail = "unsent"

LEMMA Changers ==
    ASSUME [Next]_vars
    PROVE  \/ codes' = codes
           \/ \E c \in Calls : Changes(c)
           \/ \E i \in DOMAIN codes : Age(i)
<1>1. CASE UNCHANGED vars
  BY <1>1 DEF vars
<1>2. CASE \E enabled \in BOOLEAN : toggleTwoFa(enabled)
  BY <1>2 DEF toggleTwoFa
<1>3. ASSUME NEW c \in Calls,
             \/ Signup(c) \/ CreateGuest(c) \/ AddEmailProvider(c)
             \/ sendOtp(c) \/ login(c) \/ forgotPassword(c)
             \/ \E p \in Purposes : Quote(c, p)
             \/ UseCodeGone(c)
             \/ googleLogin(c) \/ LinkGoogle(c) \/ Vouch(c) \/ JoinByGoogle(c)
      PROVE  codes' = codes
  BY <1>3 DEF Signup, CreateGuest, AddEmailProvider, sendOtp, login,
     forgotPassword, SendCode, Quote, UseCodeGone, googleLogin, LinkGoogle,
     Vouch, JoinByGoogle
<1>4. ASSUME NEW c \in Calls, Cut(c)
      PROVE  codes' = codes \/ Changes(c)
  BY <1>4 DEF Cut, Changes
<1>5. QED
  BY <1>1, <1>2, <1>3, <1>4 DEF Next, Changes

\* What each change makes of its code.
LEMMA Change ==
    ASSUME Inv, NEW c \in Calls, Changes(c), ~CreateCode(c)
    PROVE  /\ call[c].stage \in {"mail", "take back", "use"}
           /\ call[c].code \in 1..Len(codes)
           /\ \E new :
                 /\ codes' = [codes EXCEPT ![call[c].code] = new]
                 /\ Successor(codes[call[c].code], new)
<1>1. call[c].stage \in {"mail", "take back", "use"}
  BY DEF Changes, Mailed, MailFails, TakeBack, UseCode
<1>2. call[c].code \in 1..Len(codes)
  BY <1>1 DEF Inv, Sound
<1>3. codes[call[c].code] \in CodeRow
  BY <1>2, RowTypes DEF Inv
<1>4. CASE \/ Mailed(c) \/ MailFails(c)
           \/ /\ Cut(c) /\ call[c].stage \in {"mail", "take back"}
              /\ codes[call[c].code].mail = "unsent"
  <2>1. PICK mail \in {"unsent", "sent", "abandoned"} :
            codes' = [codes EXCEPT ![call[c].code] =
                        [codes[call[c].code] EXCEPT !.mail = mail]]
    BY <1>4 DEF Mailed, MailFails, Cut
  <2>2. QED
    BY <1>1, <1>2, <1>3, <2>1, Successors
<1>5. CASE TakeBack(c)
  <2>1. codes' = [codes EXCEPT ![call[c].code] =
                     [codes[call[c].code] EXCEPT !.age = "deleted"]]
    BY <1>5 DEF TakeBack
  <2>2. QED
    BY <1>1, <1>2, <1>3, <2>1, Successors
<1>6. CASE UseCode(c)
  <2>1. codes' = [codes EXCEPT ![call[c].code] =
                     [codes[call[c].code] EXCEPT !.used = TRUE, !.served = @ + 1]]
    BY <1>6 DEF UseCode
  <2>2. QED
    BY <1>1, <1>2, <1>3, <2>1, Successors
<1>7. QED
  BY <1>4, <1>5, <1>6 DEF Changes

\* CreateCode appends a row of the purpose it was asked for.
LEMMA Creation ==
    ASSUME Inv, NEW c \in Calls, CreateCode(c)
    PROVE  LET new == [purpose |-> call[c].purpose, age |-> "recent",
                       used |-> FALSE, served |-> 0, mail |-> "unsent",
                       keeps |-> call[c].keeps]
           IN  new \in CodeRow /\ codes' = Append(codes, new)
<1>1. call[c].purpose \in Purposes /\ call[c].keeps \in BOOLEAN
  BY RowTypes DEF CreateCode, Inv, Sound, CallRow
<1>2. QED
  BY <1>1 DEF CreateCode, CodeRow

LEMMA KeptStep ==
    ASSUME Inv, [Next]_vars
    PROVE  Kept
<1>0. TypeOK
  BY DEF Inv
<1>1. ASSUME NEW c \in Calls, CreateCode(c)
      PROVE  Kept
  <2>1. PICK new \in CodeRow : codes' = Append(codes, new)
    BY <1>1, Creation
  <2>2. Len(codes) < MaxCodes /\ Len(codes) \in Nat
    BY <1>0, <1>1, RowTypes DEF CreateCode
  <2>3. \A j \in 1..Len(codes) : codes[j].served \in Nat
    BY <1>0, RowTypes DEF CodeRow
  <2>4. /\ codes' \in Seq(CodeRow) /\ Len(codes)' = Len(codes) + 1
        /\ \A j \in 1..Len(codes) : codes'[j] = codes[j]
    BY <1>0, <2>1, Appended
  <2>5. QED
    BY <2>2, <2>3, <2>4, MaxCodesAssumption DEF Kept
<1>2. ASSUME NEW c \in Calls, Changes(c), ~CreateCode(c)
      PROVE  Kept
  BY <1>0, <1>2, Change, KeptIfRewritten
<1>3. ASSUME NEW i \in DOMAIN codes, Age(i)
      PROVE  Kept
  <2>1. i \in 1..Len(codes) /\ codes[i] \in CodeRow
    BY <1>0, RowTypes
  <2>2. codes' = [codes EXCEPT ![i] = [codes[i] EXCEPT !.age = Older(@)]]
    BY <1>3 DEF Age
  <2>3. QED
    BY <1>0, <2>1, <2>2, Successors, KeptIfRewritten
<1>4. QED
  BY <1>0, <1>1, <1>2, <1>3, Changers, KeptIfSame
-----------------------------------------------------------------------------
(* What requests rely on. *)

LEMMA SoundIsKept ==
    ASSUME Kept, NEW r, Sound(r), Len(codes) \in Nat
    PROVE  Sound(r)'
<1>1. ASSUME r.stage \in {"mail", "take back", "use"}
      PROVE  /\ r.code \in 1..Len(codes)'
             /\ codes'[r.code].purpose = codes[r.code].purpose
             /\ codes'[r.code].keeps = codes[r.code].keeps
  <2>1. r.code \in 1..Len(codes)
    BY <1>1 DEF Sound
  <2>2. Len(codes)' \in Nat /\ Len(codes) <= Len(codes)'
    BY DEF Kept
  <2>3. QED
    BY <2>1, <2>2 DEF Kept
<1>2. QED
  BY <1>1 DEF Sound

\* A request that has nothing to do with codes relies on nothing.
LEMMA EasilySound ==
    ASSUME NEW r, r.stage \notin {"row", "mail", "take back", "use"}
    PROVE  Sound(r)'
BY DEF Sound

\* A step moves one request at most, on to where it may rely on its row, and
\* none but Quote makes it compare a code.
Moves(c) ==
    \E r \in CallRow : /\ call' = [call EXCEPT ![c] = r] /\ Sound(r)'
                       /\ r.stage = "use" => \E p \in Purposes : Quote(c, p)

LEMMA IdleIsSound == Idle \in CallRow /\ Sound(Idle)' /\ Idle.stage = "idle"
BY IdleIsCall, EasilySound DEF Idle

LEMMA BegunIsCall ==
    ASSUME NEW stage \in Stages
    PROVE  /\ [Idle EXCEPT !.stage = stage] \in CallRow
           /\ [Idle EXCEPT !.stage = stage].stage = stage
<1>1. [Idle EXCEPT !.stage = stage] \in CallRow
  BY IdleIsCall DEF CallRow
<1>2. [Idle EXCEPT !.stage = stage].stage = stage
  BY DEF Idle
<1>3. QED
  BY <1>1, <1>2

LEMMA ResetMoves ==
    ASSUME NEW c \in Calls, Done(c)
    PROVE  Moves(c)
BY IdleIsSound DEF Moves, Done, Stage

\* The steps of a request.
OfCall(c) ==
    \/ Signup(c) \/ CreateGuest(c) \/ AddEmailProvider(c)
    \/ sendOtp(c) \/ login(c) \/ forgotPassword(c)
    \/ CreateCode(c) \/ Mailed(c) \/ MailFails(c) \/ TakeBack(c)
    \/ \E p \in Purposes : Quote(c, p)
    \/ UseCode(c) \/ UseCodeGone(c)
    \/ googleLogin(c) \/ LinkGoogle(c) \/ Vouch(c) \/ JoinByGoogle(c)
    \/ Cut(c)

LEMMA MovesOn ==
    ASSUME Inv, Kept, NEW c \in Calls, OfCall(c)
    PROVE  Moves(c)
<1>0. /\ TypeOK /\ call[c] \in CallRow /\ Sound(call[c])
      /\ Len(codes) \in Nat /\ 0 \in 0..MaxCodes
  BY RowTypes, MaxCodesAssumption DEF Inv
<1>1. ASSUME NEW r \in CallRow, r.stage \notin {"row", "mail", "take back", "use"},
             Stage(c, r)
      PROVE  Moves(c)
  BY <1>1, EasilySound DEF Stage, Moves
<1>2. ASSUME NEW r \in CallRow, r.stage = "row", r.purpose \in Purposes, Stage(c, r)
      PROVE  Moves(c)
  <2>1. Sound(r)'
    BY <1>2 DEF Sound
  <2>2. QED
    BY <1>2, <2>1 DEF Stage, Moves
<1>3. CASE Signup(c)
  <2>1. PICK r : r = [Idle EXCEPT !.stage = "create"]
    OBVIOUS
  <2>2. r \in CallRow /\ r.stage = "create"
    BY <2>1, BegunIsCall DEF Stages
  <2>3. QED
    BY <1>1, <1>3, <2>1, <2>2 DEF Signup
<1>4. CASE CreateGuest(c) /\ ~guest.there
  <2>1. PICK r : r = [call[c] EXCEPT !.stage = "provider"]
    OBVIOUS
  <2>2. call' = [call EXCEPT ![c] = r]
    BY <1>4, <2>1 DEF CreateGuest, Stage
  <2>3. r \in CallRow /\ r.stage = "provider"
    BY <1>0, <2>1 DEF CallRow, Stages
  <2>4. QED
    BY <2>2, <2>3, EasilySound DEF Moves
<1>5. CASE AddEmailProvider(c)
  <2>1. PICK r : r = [Idle EXCEPT !.stage = "row", !.keeps = TRUE,
                                  !.purpose = "email_verification"]
    OBVIOUS
  <2>2. r \in CallRow /\ r.stage = "row" /\ r.purpose \in Purposes
    BY <1>0, <2>1 DEF CallRow, Stages, Idle, Purposes
  <2>3. QED
    BY <1>2, <1>5, <2>1, <2>2 DEF AddEmailProvider
<1>6. CASE sendOtp(c) \/ login(c) \/ forgotPassword(c)
  <2>1. PICK p \in Purposes : SendCode(c, p)
    BY <1>6 DEF sendOtp, login, forgotPassword, Purposes
  <2>2. PICK r : r = [Idle EXCEPT !.stage = "row", !.purpose = p]
    OBVIOUS
  <2>3. r \in CallRow /\ r.stage = "row" /\ r.purpose = p
    BY <1>0, <2>2 DEF CallRow, Stages, Idle
  <2>4. QED
    BY <1>2, <2>1, <2>2, <2>3 DEF SendCode
<1>7. CASE CreateCode(c)
  <2>1. PICK r : r = [call[c] EXCEPT !.stage = "mail", !.code = Len(codes) + 1]
    OBVIOUS
  <2>2. call' = [call EXCEPT ![c] = r]
    BY <1>7, <2>1 DEF CreateCode, Stage
  <2>3. Len(codes) + 1 \in 0..MaxCodes
    BY <1>0, <1>7, MaxCodesAssumption DEF CreateCode
  <2>4. /\ r \in CallRow /\ r.stage = "mail" /\ r.code = Len(codes) + 1
        /\ r.keeps = call[c].keeps
    BY <1>0, <2>1, <2>3 DEF CallRow, Stages
  <2>5. PICK new \in CodeRow : /\ codes' = Append(codes, new)
                              /\ new.keeps = call[c].keeps
    BY <1>7, Creation
  <2>6. Len(codes)' = Len(codes) + 1 /\ codes'[Len(codes) + 1] = new
    BY <1>0, <2>5, Appended
  <2>7. r.code \in 1..Len(codes)' /\ codes'[r.code].keeps = r.keeps
    BY <1>0, <2>4, <2>5, <2>6
  <2>8. Sound(r)'
    BY <2>4, <2>7 DEF Sound
  <2>9. QED
    BY <2>2, <2>4, <2>8 DEF Moves
<1>8. CASE MailFails(c) /\ ~call[c].keeps
  <2>1. PICK r : r = [call[c] EXCEPT !.stage = "take back"]
    OBVIOUS
  <2>2. call' = [call EXCEPT ![c] = r] /\ call[c].stage = "mail"
    BY <1>8, <2>1 DEF MailFails, Stage
  <2>3. r \in CallRow /\ r.stage = "take back" /\ r.code = call[c].code
    BY <1>0, <2>1 DEF CallRow, Stages
  <2>4. r.code \in 1..Len(codes) /\ Len(codes) <= Len(codes)' /\ Len(codes)' \in Nat
    BY <1>0, <2>2, <2>3 DEF Sound, Kept
  <2>5. r.code \in 1..Len(codes)'
    BY <1>0, <2>4
  <2>6. Sound(r)'
    BY <2>3, <2>5 DEF Sound
  <2>7. QED
    BY <2>2, <2>3, <2>6 DEF Moves
<1>9. ASSUME NEW p \in Purposes, Quote(c, p)
      PROVE  Moves(c)
  <2>1. PICK found : found = Max(Usable(p))
    OBVIOUS
  <2>2. found \in Usable(p)
    BY <1>0, <1>9, <2>1, NewestIsUsable DEF Quote
  <2>3. found \in 1..Len(codes) /\ codes[found].purpose = p
    BY <1>0, <2>2, RowTypes DEF Usable
  <2>4. PICK r : r = [Idle EXCEPT !.stage = "use", !.purpose = p, !.code = found]
    OBVIOUS
  <2>5. call' = [call EXCEPT ![c] = r] /\ codes' = codes
    BY <1>9, <2>1, <2>4 DEF Quote, Stage
  <2>6. found \in 0..MaxCodes
    BY <1>0, <2>3, MaxCodesAssumption DEF TypeOK
  <2>7. /\ r \in CallRow
        /\ r.stage = "use" /\ r.code = found /\ r.purpose = p
    BY <2>4, <2>6 DEF CallRow, Stages, Idle
  <2>8. Sound(r)'
    BY <2>3, <2>5, <2>7 DEF Sound
  <2>9. QED
    BY <1>9, <2>5, <2>7, <2>8 DEF Moves
<1>10. CASE googleLogin(c)
  <2>1. PICK stage \in {"link", "join"} :
            Stage(c, [Idle EXCEPT !.stage = stage, !.keeps = guest.verified])
    BY <1>10 DEF googleLogin
  <2>2. guest.verified \in BOOLEAN
    BY <1>0 DEF TypeOK
  <2>3. PICK r : r = [Idle EXCEPT !.stage = stage, !.keeps = guest.verified]
    OBVIOUS
  <2>4. r \in CallRow /\ r.stage \in {"link", "join"}
    BY <1>0, <2>2, <2>3 DEF CallRow, Stages, Idle
  <2>5. QED
    BY <1>1, <2>1, <2>3, <2>4
<1>11. CASE LinkGoogle(c) /\ ~Done(c)
  <2>1. PICK r : r = [Idle EXCEPT !.stage = "vouch"]
    OBVIOUS
  <2>2. r \in CallRow /\ r.stage = "vouch"
    BY <2>1, BegunIsCall DEF Stages
  <2>3. QED
    BY <1>1, <1>11, <2>1, <2>2 DEF LinkGoogle
<1>12. CASE JoinByGoogle(c) /\ ~Done(c)
  <2>1. PICK r : r = [Idle EXCEPT !.stage = "link", !.keeps = TRUE]
    OBVIOUS
  <2>2. r \in CallRow /\ r.stage = "link"
    BY <1>0, <2>1 DEF CallRow, Stages, Idle
  <2>3. QED
    BY <1>1, <1>12, <2>1, <2>2 DEF JoinByGoogle
<1>13. CASE \/ CreateGuest(c) /\ guest.there
            \/ MailFails(c) /\ call[c].keeps
            \/ Mailed(c)
            \/ TakeBack(c) \/ UseCode(c) \/ UseCodeGone(c)
            \/ Vouch(c) \/ Cut(c)
  BY <1>13, ResetMoves DEF CreateGuest, Mailed, MailFails, TakeBack, UseCode,
     UseCodeGone, Vouch, Cut
<1>14. CreateGuest(c) => Moves(c)
  BY <1>4, <1>13
<1>15. MailFails(c) => Moves(c)
  BY <1>8, <1>13
<1>16. LinkGoogle(c) \/ JoinByGoogle(c) => Moves(c)
  BY <1>11, <1>12, ResetMoves
<1>17. (\E p \in Purposes : Quote(c, p)) => Moves(c)
  BY <1>9
<1>18. TakeBack(c) \/ UseCode(c) \/ UseCodeGone(c) \/ Vouch(c) => Moves(c)
  BY <1>13
<1>19. sendOtp(c) \/ login(c) \/ forgotPassword(c) => Moves(c)
  BY <1>6
<1>20. Mailed(c) \/ Cut(c) => Moves(c)
  BY <1>13
<1>21. QED
  BY <1>3, <1>5, <1>7, <1>10, <1>14, <1>15, <1>16, <1>17, <1>18, <1>19, <1>20
  DEF OfCall

LEMMA StepKinds ==
    ASSUME Inv, [Next]_vars
    PROVE  \/ call' = call /\ codes' = codes
           \/ \E i \in DOMAIN codes : Age(i)
           \/ \E c \in Calls : OfCall(c) /\ Moves(c)
<1>1. Kept
  BY KeptStep
<1>2. QED
  BY <1>1, MovesOn DEF Next, OfCall, vars, toggleTwoFa

LEMMA SoundStep ==
    ASSUME Inv, [Next]_vars
    PROVE  /\ call' \in [Calls -> CallRow]
           /\ \A c \in Calls : Sound(call[c])'
<1>1. /\ call \in [Calls -> CallRow] /\ Len(codes) \in Nat
      /\ \A c \in Calls : Sound(call[c])
  BY RowTypes DEF Inv
<1>2. Kept
  BY KeptStep
<1>3. ASSUME NEW d \in Calls, call'[d] = call[d]
      PROVE  Sound(call[d])'
  <2>1. PICK r : r = call[d]
    OBVIOUS
  <2>2. Sound(r)'
    BY <1>1, <1>2, <2>1, SoundIsKept
  <2>3. QED
    BY <1>3, <2>1, <2>2
<1>4. CASE call' = call
  BY <1>1, <1>3, <1>4
<1>5. ASSUME NEW c \in Calls, Moves(c)
      PROVE  /\ call' \in [Calls -> CallRow]
             /\ \A d \in Calls : Sound(call[d])'
  <2>1. PICK r \in CallRow : call' = [call EXCEPT ![c] = r] /\ Sound(r)'
    BY <1>5 DEF Moves
  <2>2. call' \in [Calls -> CallRow] /\ call'[c] = r
    BY <1>1, <2>1
  <2>3. ASSUME NEW d \in Calls
        PROVE  Sound(call[d])'
    <3>1. CASE d = c
      BY <2>1, <2>2, <3>1
    <3>2. CASE d # c
      BY <1>1, <1>3, <2>1, <3>2
    <3>3. QED
      BY <3>1, <3>2
  <2>4. QED
    BY <2>2, <2>3
<1>6. QED
  BY <1>4, <1>5, StepKinds DEF Age

\* Who changes the account's row.
Writes(c) == CreateGuest(c) \/ UseCode(c) \/ Vouch(c) \/ JoinByGoogle(c)

LEMMA Writers ==
    ASSUME [Next]_vars
    PROVE  \/ guest' = guest /\ vouched' = vouched /\ providers' = providers
           \/ \E c \in Calls : AddEmailProvider(c) \/ LinkGoogle(c)
           \/ \E c \in Calls : Writes(c)
           \/ \E enabled \in BOOLEAN : toggleTwoFa(enabled)
BY DEF Next, vars, Writes, Signup, sendOtp, login, forgotPassword, SendCode,
   CreateCode, Mailed, MailFails, TakeBack, Age, Quote, UseCodeGone, googleLogin,
   Cut

Account ==
    /\ guest \in [there : BOOLEAN, verified : BOOLEAN, password : BOOLEAN,
                 twoFa : BOOLEAN]
    /\ providers \subseteq {"email", "google"} /\ vouched \in BOOLEAN

LEMMA TypeStep ==
    ASSUME Inv, [Next]_vars
    PROVE  TypeOK'
<1>0. TypeOK
  BY DEF Inv
<1>1. codes' \in Seq(CodeRow) /\ (Len(codes) <= MaxCodes)'
  BY KeptStep DEF Kept
<1>2. call' \in [Calls -> CallRow]
  BY SoundStep
<1>3. Account'
  <2>0. Account
    BY <1>0 DEF TypeOK, Account
  <2>1. CASE guest' = guest /\ vouched' = vouched /\ providers' = providers
    BY <2>0, <2>1 DEF Account
  <2>2. ASSUME NEW c \in Calls, AddEmailProvider(c) \/ LinkGoogle(c)
        PROVE  Account'
    BY <2>0, <2>2 DEF Account, AddEmailProvider, LinkGoogle
  <2>3. ASSUME NEW c \in Calls, Writes(c)
        PROVE  Account'
    BY <2>0, <2>3 DEF Account, Writes, CreateGuest, UseCode, Vouch,
       JoinByGoogle, NoGuest, Effect
  <2>4. ASSUME NEW enabled \in BOOLEAN, toggleTwoFa(enabled)
        PROVE  Account'
    BY <2>0, <2>4 DEF Account, toggleTwoFa
  <2>5. QED
    BY <2>1, <2>2, <2>3, <2>4, Writers
<1>4. QED
  BY <1>1, <1>2, <1>3 DEF TypeOK, Account, CodeRow, CallRow
-----------------------------------------------------------------------------
(* Whoever is told to wait has a mail on its way. *)

LEMMA MailingIsKept ==
    ASSUME NEW i, Mailing(i), codes'[i] = codes[i],
           \A d \in Calls : /\ call[d].stage \in {"mail", "take back"}
                            /\ call[d].code = i
                            => call'[d] = call[d]
    PROVE  Mailing(i)'
BY DEF Mailing

\* A step of a request that has no mail to send.
LEMMA OthersKeepMailing ==
    ASSUME Inv, NEW c \in Calls, Moves(c), NEW i \in 1..Len(codes),
           codes'[i] = codes[i],
           \/ call[c].stage \notin {"mail", "take back"}
           \/ call[c].code # i
    PROVE  Mailing(i)'
<1>1. Mailing(i) /\ call \in [Calls -> CallRow]
  BY RowTypes DEF Inv
<1>2. PICK r \in CallRow : call' = [call EXCEPT ![c] = r]
  BY DEF Moves
<1>3. ASSUME NEW d \in Calls, call[d].stage \in {"mail", "take back"},
             call[d].code = i
      PROVE  call'[d] = call[d]
  BY <1>1, <1>2, <1>3
<1>4. QED
  BY <1>1, <1>3, MailingIsKept

LEMMA MailingStep ==
    ASSUME Inv, [Next]_vars
    PROVE  \A i \in 1..Len(codes)' : Mailing(i)'
<1>0. /\ TypeOK /\ call \in [Calls -> CallRow] /\ Len(codes) \in Nat
      /\ DOMAIN codes = 1..Len(codes)
      /\ \A i \in 1..Len(codes) : codes[i] \in CodeRow /\ Mailing(i)
      /\ \A c \in Calls : Sound(call[c])
  BY RowTypes DEF Inv
<1>1. CASE call' = call /\ codes' = codes
  BY <1>0, <1>1, MailingIsKept
<1>2. ASSUME NEW i \in DOMAIN codes, Age(i)
      PROVE  \A j \in 1..Len(codes)' : Mailing(j)'
  <2>1. PICK new : new = [codes[i] EXCEPT !.age = Older(@)]
    OBVIOUS
  <2>2. codes' = [codes EXCEPT ![i] = new] /\ call' = call
    BY <1>2, <2>1 DEF Age
  <2>3. codes[i] \in CodeRow /\ new \in CodeRow
    BY <1>0, <2>1, Successors DEF Successor
  <2>4. /\ Len(codes)' = Len(codes) /\ codes'[i] = new
        /\ \A j \in 1..Len(codes) : j # i => codes'[j] = codes[j]
    BY <1>0, <2>2, <2>3, Rewritten
  <2>5. new.age # "recent"
    BY <2>1, <2>3 DEF CodeRow, Older
  <2>6. Mailing(i)'
    BY <2>4, <2>5 DEF Mailing
  <2>7. \A j \in 1..Len(codes) : j # i => Mailing(j)'
    BY <1>0, <2>2, <2>4, MailingIsKept
  <2>8. QED
    BY <2>4, <2>6, <2>7
<1>3. ASSUME NEW c \in Calls, Moves(c), codes' = codes,
             call[c].stage \notin {"mail", "take back"}
      PROVE  \A i \in 1..Len(codes)' : Mailing(i)'
  BY <1>3, OthersKeepMailing
<1>4. ASSUME NEW c \in Calls, Moves(c), CreateCode(c)
      PROVE  \A i \in 1..Len(codes)' : Mailing(i)'
  <2>1. PICK new \in CodeRow : codes' = Append(codes, new)
    BY <1>4, Creation
  <2>2. /\ Len(codes)' = Len(codes) + 1
        /\ \A j \in 1..Len(codes) : codes'[j] = codes[j]
    BY <1>0, <2>1, Appended
  <2>3. \A i \in 1..Len(codes) : Mailing(i)'
    BY <1>4, <2>2, OthersKeepMailing DEF CreateCode
  <2>4. PICK last : last = Len(codes) + 1
    OBVIOUS
  <2>5. call'[c].stage = "mail" /\ call'[c].code = last
    BY <1>0, <1>4, <2>4 DEF CreateCode, Stage, CallRow
  <2>6. Mailing(last)'
    BY <1>4, <2>5 DEF Mailing
  <2>7. \A i \in 1..Len(codes)' : i = last \/ i \in 1..Len(codes)
    BY <1>0, <2>2, <2>4
  <2>8. QED
    BY <2>3, <2>6, <2>7
<1>5. ASSUME NEW c \in Calls, Moves(c), Changes(c), ~CreateCode(c)
      PROVE  \A i \in 1..Len(codes)' : Mailing(i)'
  <2>0. PICK k : k = call[c].code
    OBVIOUS
  <2>1. PICK new : codes' = [codes EXCEPT ![k] = new] /\ Successor(codes[k], new)
    BY <1>5, <2>0, Change
  <2>2. /\ k \in 1..Len(codes) /\ codes[k] \in CodeRow
        /\ call[c] \in CallRow /\ Sound(call[c])
    BY <1>0, <1>5, <2>0, Change
  <2>3. /\ Len(codes)' = Len(codes)
        /\ \A j \in 1..Len(codes) : j # k => codes'[j] = codes[j]
    BY <1>0, <2>1, <2>2, Rewritten DEF Successor
  <2>4. \A j \in 1..Len(codes) : j # k => Mailing(j)'
    BY <1>5, <2>0, <2>3, OthersKeepMailing
  <2>5. ASSUME Mailed(c)
        PROVE  Mailing(k)'
    <3>1. codes'[k].mail = "sent"
      BY <1>0, <2>0, <2>2, <2>5 DEF Mailed, CodeRow
    <3>2. QED
      BY <3>1 DEF Mailing
  <2>6. ASSUME MailFails(c), call[c].keeps
        PROVE  Mailing(k)'
    <3>1. codes'[k].keeps = codes[k].keeps
      BY <1>0, <2>0, <2>2, <2>6 DEF MailFails, CodeRow
    <3>2. codes[k].keeps = call[c].keeps
      BY <2>0, <2>2, <2>6 DEF MailFails, Sound
    <3>3. QED
      BY <2>6, <3>1, <3>2 DEF Mailing
  <2>7. ASSUME MailFails(c), ~call[c].keeps
        PROVE  Mailing(k)'
    <3>1. call' = [call EXCEPT ![c] = [call[c] EXCEPT !.stage = "take back"]]
      BY <2>7 DEF MailFails, Stage
    <3>2. call'[c].stage = "take back" /\ call'[c].code = k
      BY <1>0, <2>0, <2>2, <3>1 DEF CallRow
    <3>3. QED
      BY <1>5, <3>2 DEF Mailing
  <2>8. ASSUME TakeBack(c)
        PROVE  Mailing(k)'
    <3>1. codes'[k].age = "deleted"
      BY <1>0, <2>0, <2>2, <2>8 DEF TakeBack, CodeRow
    <3>2. QED
      BY <3>1 DEF Mailing
  <2>9. ASSUME UseCode(c)
        PROVE  Mailing(k)'
    <3>1. codes'[k].used
      BY <1>0, <2>0, <2>2, <2>9 DEF UseCode, CodeRow
    <3>2. QED
      BY <3>1 DEF Mailing
  <2>10. ASSUME Cut(c), call[c].stage \in {"mail", "take back"},
                codes[k].mail = "unsent"
         PROVE  Mailing(k)'
    <3>1. codes'[k].mail = "abandoned"
      BY <1>0, <2>0, <2>2, <2>10 DEF Cut, CodeRow
    <3>2. QED
      BY <3>1 DEF Mailing
  <2>11. Mailing(k)'
    BY <1>5, <2>0, <2>5, <2>6, <2>7, <2>8, <2>9, <2>10 DEF Changes
  <2>12. QED
    BY <2>3, <2>4, <2>11
<1>6. ASSUME NEW c \in Calls, Moves(c), Cut(c), codes' = codes,
             call[c].stage \in {"mail", "take back"}
      PROVE  \A i \in 1..Len(codes)' : Mailing(i)'
  <2>0. PICK k : k = call[c].code
    OBVIOUS
  <2>1. k \in 1..Len(codes) /\ codes[k] \in CodeRow
    BY <1>0, <1>6, <2>0 DEF Sound
  <2>2. codes[k].mail # "unsent"
    <3>1. SUFFICES ASSUME codes[k].mail = "unsent" PROVE FALSE
      OBVIOUS
    <3>2. codes' = [codes EXCEPT ![k] = [codes[k] EXCEPT !.mail = "abandoned"]]
      BY <1>6, <2>0, <3>1 DEF Cut
    <3>3. codes'[k].mail = "abandoned"
      BY <1>0, <2>1, <3>2 DEF CodeRow
    <3>4. QED
      BY <1>6, <3>1, <3>3
  <2>3. Mailing(k)'
    BY <1>6, <2>1, <2>2 DEF Mailing, CodeRow
  <2>4. \A j \in 1..Len(codes) : j # k => Mailing(j)'
    BY <1>6, <2>0, OthersKeepMailing
  <2>5. QED
    BY <1>6, <2>3, <2>4
<1>7. ASSUME NEW c \in Calls, Moves(c), OfCall(c)
      PROVE  \A i \in 1..Len(codes)' : Mailing(i)'
  <2>1. CASE CreateCode(c)
    BY <1>4, <1>7, <2>1
  <2>2. CASE Changes(c) /\ ~CreateCode(c)
    BY <1>5, <1>7, <2>2
  <2>3. CASE Cut(c) /\ ~Changes(c)
    <3>1. codes' = codes
      BY <2>3 DEF Cut, Changes
    <3>2. QED
      BY <1>3, <1>6, <1>7, <2>3, <3>1
  <2>4. CASE ~Changes(c) /\ ~Cut(c)
    <3>1. \/ Signup(c) \/ CreateGuest(c) \/ AddEmailProvider(c)
          \/ sendOtp(c) \/ login(c) \/ forgotPassword(c)
          \/ \E p \in Purposes : Quote(c, p)
          \/ UseCodeGone(c)
          \/ googleLogin(c) \/ LinkGoogle(c) \/ Vouch(c) \/ JoinByGoogle(c)
      BY <1>7, <2>4 DEF OfCall, Changes
    <3>2. codes' = codes
      BY <3>1 DEF Signup, CreateGuest, AddEmailProvider, sendOtp, login,
         forgotPassword, SendCode, Quote, UseCodeGone, googleLogin, LinkGoogle,
         Vouch, JoinByGoogle
    <3>3. \/ call[c] = Idle
          \/ call[c].stage \in {"create", "provider", "use", "link", "vouch", "join"}
      BY <3>1 DEF Signup, CreateGuest, AddEmailProvider, sendOtp, login,
         forgotPassword, SendCode, Quote, UseCodeGone, googleLogin, LinkGoogle,
         Vouch, JoinByGoogle
    <3>4. call[c].stage \notin {"mail", "take back"}
      BY <3>3, IdleIsSound
    <3>5. QED
      BY <1>3, <1>7, <3>2, <3>4
  <2>5. QED
    BY <2>1, <2>2, <2>3, <2>4
<1>8. QED
  BY <1>1, <1>2, <1>7, StepKinds
-----------------------------------------------------------------------------
(* A code serves only requests that overlap. *)

LEMMA QuotingIsFinite ==
    ASSUME NEW i
    PROVE  /\ IsFiniteSet(Quoting(i)) /\ Cardinality(Quoting(i)) \in Nat
           /\ Cardinality(Calls) \in Nat
           /\ Cardinality(Quoting(i)) <= Cardinality(Calls)
           /\ Cardinality(Quoting(i))' \in Nat
           /\ Cardinality(Quoting(i))' <= Cardinality(Calls)
<1>1. Quoting(i) \subseteq Calls /\ Quoting(i)' \subseteq Calls
  BY DEF Quoting
<1>2. QED
  BY <1>1, CallsAssumption, FS_Subset, FS_CardinalityType

\* Only Quote makes a request compare a code.
LEMMA QuotingStep ==
    ASSUME Inv, [Next]_vars, NEW i,
           \A c \in Calls, p \in Purposes : Quote(c, p) => i # Max(Usable(p))
    PROVE  Quoting(i)' \subseteq Quoting(i)
<1>1. call \in [Calls -> CallRow]
  BY RowTypes DEF Inv
<1>2. CASE call' = call
  BY <1>2 DEF Quoting
<1>3. ASSUME NEW c \in Calls, Moves(c)
      PROVE  Quoting(i)' \subseteq Quoting(i)
  <2>1. PICK r \in CallRow :
            /\ call' = [call EXCEPT ![c] = r]
            /\ r.stage = "use" => \E p \in Purposes : Quote(c, p)
    BY <1>3 DEF Moves
  <2>2. r.stage = "use" => r.code # i
    <3>1. SUFFICES ASSUME r.stage = "use" PROVE r.code # i
      OBVIOUS
    <3>2. PICK p \in Purposes : Quote(c, p)
      BY <2>1, <3>1
    <3>3. call'[c].code = Max(Usable(p))
      BY <1>1, <3>2 DEF Quote, Stage, Idle
    <3>4. QED
      BY <1>1, <2>1, <3>2, <3>3
  <2>3. QED
    BY <1>1, <2>1, <2>2 DEF Quoting
<1>4. QED
  BY <1>2, <1>3, StepKinds DEF Age

LEMMA CountedIsKept ==
    ASSUME NEW i, Counted(i), codes[i].served \in Nat,
           codes'[i].served = codes[i].served,
           codes[i].used => codes'[i].used,
           Quoting(i)' \subseteq Quoting(i)
    PROVE  Counted(i)'
<1>1. Cardinality(Quoting(i))' <= Cardinality(Quoting(i))
  BY QuotingIsFinite, FS_Subset
<1>2. Cardinality(Quoting(i))' \in Nat
  BY QuotingIsFinite, FS_Subset, FS_CardinalityType
<1>3. QED
  BY <1>1, <1>2, QuotingIsFinite DEF Counted

\* A code serves when it is used, and nothing takes its mark away.
LEMMA ServedStep ==
    ASSUME Inv, [Next]_vars, NEW i \in 1..Len(codes)
    PROVE  \/ \E c \in Calls : UseCode(c) /\ call[c].code = i
           \/ /\ codes'[i].served = codes[i].served
              /\ codes[i].used => codes'[i].used
<1>0. /\ TypeOK /\ DOMAIN codes = 1..Len(codes)
      /\ \A j \in 1..Len(codes) : codes[j] \in CodeRow
  BY RowTypes DEF Inv
<1>1. ASSUME NEW c \in Calls, CreateCode(c)
      PROVE  codes'[i] = codes[i]
  BY <1>0, <1>1, Creation, Appended
<1>2. ASSUME NEW k \in 1..Len(codes), NEW new, codes' = [codes EXCEPT ![k] = new],
             new.served = codes[k].served, codes[k].used => new.used
      PROVE  /\ codes'[i].served = codes[i].served
             /\ codes[i].used => codes'[i].used
  BY <1>0, <1>2
<1>3. ASSUME NEW k \in DOMAIN codes, Age(k)
      PROVE  /\ codes'[i].served = codes[i].served
             /\ codes[i].used => codes'[i].used
  <2>1. PICK new : new = [codes[k] EXCEPT !.age = Older(@)]
    OBVIOUS
  <2>2. codes' = [codes EXCEPT ![k] = new]
    BY <1>3, <2>1 DEF Age
  <2>3. new.served = codes[k].served /\ new.used = codes[k].used
    BY <1>0, <2>1 DEF CodeRow
  <2>4. QED
    BY <1>0, <1>2, <2>2, <2>3
<1>4. ASSUME NEW c \in Calls, Changes(c), ~CreateCode(c), ~UseCode(c)
      PROVE  /\ codes'[i].served = codes[i].served
             /\ codes[i].used => codes'[i].used
  <2>1. PICK k \in 1..Len(codes) : k = call[c].code
    BY <1>4, Change
  <2>2. PICK new : /\ codes' = [codes EXCEPT ![k] = new]
                   /\ \/ \E mail \in {"unsent", "sent", "abandoned"} :
                             new = [codes[k] EXCEPT !.mail = mail]
                      \/ new = [codes[k] EXCEPT !.age = "deleted"]
    BY <1>4, <2>1 DEF Changes, Mailed, MailFails, TakeBack, Cut
  <2>3. new.served = codes[k].served /\ new.used = codes[k].used
    BY <1>0, <2>1, <2>2 DEF CodeRow
  <2>4. QED
    BY <1>2, <2>2, <2>3
<1>5. ASSUME NEW c \in Calls, UseCode(c), call[c].code # i
      PROVE  codes'[i] = codes[i]
  BY <1>0, <1>5 DEF UseCode
<1>6. QED
  BY <1>1, <1>3, <1>4, <1>5, Changers

\* The code that is used leaves the hands of the request that used it.
LEMMA UseIsCounted ==
    ASSUME Inv, NEW c \in Calls, UseCode(c), NEW k, k = call[c].code
    PROVE  Counted(k)'
<1>1. /\ call \in [Calls -> CallRow] /\ k \in 1..Len(codes)
      /\ codes[k] \in CodeRow /\ Counted(k) /\ DOMAIN codes = 1..Len(codes)
  BY RowTypes DEF Inv, Sound, UseCode
<1>2. codes[k].served \in Nat
  BY <1>1 DEF CodeRow
<1>3. codes' = [codes EXCEPT ![k] =
                   [codes[k] EXCEPT !.used = TRUE, !.served = @ + 1]]
  BY DEF UseCode
<1>4. codes'[k].used = TRUE /\ codes'[k].served = codes[k].served + 1
  BY <1>1, <1>3 DEF CodeRow
<1>5. call' = [call EXCEPT ![c] = Idle] /\ call[c].stage = "use"
  BY DEF UseCode, Done, Stage
<1>6. c \in Quoting(k) /\ Quoting(k)' = Quoting(k) \ {c}
  BY <1>1, <1>5, IdleIsSound DEF Quoting
<1>7. Cardinality(Quoting(k) \ {c}) = Cardinality(Quoting(k)) - 1
  BY <1>6, QuotingIsFinite, FS_RemoveElement
<1>8. QED
  BY <1>2, <1>1, <1>4, <1>6, <1>7, QuotingIsFinite DEF Counted

LEMMA CountedStep ==
    ASSUME Inv, [Next]_vars
    PROVE  \A i \in 1..Len(codes)' : Counted(i)'
<1>0. /\ TypeOK /\ Len(codes) \in Nat /\ call \in [Calls -> CallRow]
      /\ \A i \in 1..Len(codes) : codes[i] \in CodeRow /\ Counted(i)
  BY RowTypes DEF Inv
<1>1. ASSUME NEW i \in 1..Len(codes)
      PROVE  Counted(i)'
  <2>1. codes[i].served \in Nat
    BY <1>0 DEF CodeRow
  <2>2. ASSUME NEW c \in Calls, NEW p \in Purposes, Quote(c, p), i = Max(Usable(p))
        PROVE  Counted(i)'
    <3>1. ~codes[i].used /\ codes' = codes
      BY <1>0, <2>2, NewestIsUsable DEF Quote, Usable
    <3>2. codes[i].served = 0
      BY <1>0, <2>1, <3>1 DEF Counted
    <3>3. QED
      BY <3>1, <3>2, QuotingIsFinite DEF Counted
  <2>3. ASSUME NEW c \in Calls, UseCode(c), call[c].code = i
        PROVE  Counted(i)'
    BY <2>3, UseIsCounted
  <2>4. QED
    BY <1>0, <2>1, <2>2, <2>3, QuotingStep, ServedStep, CountedIsKept
<1>2. ASSUME NEW c \in Calls, CreateCode(c)
      PROVE  \A i \in 1..Len(codes)' : Counted(i)'
  <2>1. PICK new \in CodeRow : /\ codes' = Append(codes, new)
                              /\ new.served = 0
    BY <1>2, Creation
  <2>2. PICK last : last = Len(codes) + 1
    OBVIOUS
  <2>3. Len(codes)' = last /\ codes'[last] = new
    BY <1>0, <2>1, <2>2, Appended
  <2>4. Counted(last)'
    BY <2>1, <2>3, QuotingIsFinite DEF Counted
  <2>5. \A i \in 1..Len(codes)' : i = last \/ i \in 1..Len(codes)
    BY <1>0, <2>2, <2>3
  <2>6. QED
    BY <1>1, <2>4, <2>5
<1>3. ASSUME ~\E c \in Calls : CreateCode(c)
      PROVE  Len(codes)' = Len(codes)
  <2>1. ASSUME NEW c \in Calls, Changes(c)
        PROVE  Len(codes)' = Len(codes)
    <3>1. PICK new : /\ codes' = [codes EXCEPT ![call[c].code] = new]
                     /\ Successor(codes[call[c].code], new)
      BY <1>3, <2>1, Change
    <3>2. QED
      BY <1>0, <3>1 DEF TypeOK
  <2>2. ASSUME NEW k \in DOMAIN codes, Age(k)
        PROVE  Len(codes)' = Len(codes)
    BY <1>0, <2>2 DEF TypeOK, Age
  <2>3. QED
    BY <2>1, <2>2, Changers
<1>4. QED
  BY <1>1, <1>2, <1>3
-----------------------------------------------------------------------------
(* An address is verified by proof. *)

LEMMA ProofStep ==
    ASSUME Inv, [Next]_vars
    PROVE  VerifiedByProof'
<1>0. /\ TypeOK /\ VerifiedByProof /\ DOMAIN codes = 1..Len(codes)
      /\ \A i \in 1..Len(codes) : codes[i] \in CodeRow
      /\ Len(codes) \in Nat
  BY RowTypes DEF Inv
<1>1. Kept /\ TypeOK'
  BY KeptStep, TypeStep
<1>2. DOMAIN codes' = 1..Len(codes)' /\ 1..Len(codes) \subseteq 1..Len(codes)'
  BY <1>0, <1>1 DEF Kept
<1>3. ASSUME NEW i \in DOMAIN codes, codes[i].purpose = "email_verification",
             codes[i].served > 0
      PROVE  VerifiedByProof'
  <2>1. codes[i].served \in Nat /\ i \in DOMAIN codes'
    BY <1>0, <1>2 DEF CodeRow
  <2>2. codes'[i].served \in Nat
    <3>1. codes' \in Seq(CodeRow)
      BY <1>1 DEF Kept
    <3>2. codes'[i] \in CodeRow
      BY <2>1, <3>1
    <3>3. QED
      BY <3>2 DEF CodeRow
  <2>3. codes'[i].served > 0 /\ codes'[i].purpose = "email_verification"
    BY <1>0, <1>1, <1>3, <2>1, <2>2 DEF Kept
  <2>4. QED
    BY <2>1, <2>3 DEF VerifiedByProof
<1>4. CASE guest'.verified = guest.verified /\ (vouched => vouched')
  BY <1>0, <1>3, <1>4 DEF VerifiedByProof
<1>5. ASSUME NEW c \in Calls, Vouch(c) \/ JoinByGoogle(c) \/ CreateGuest(c)
      PROVE  VerifiedByProof'
  BY <1>0, <1>4, <1>5 DEF Vouch, JoinByGoogle, CreateGuest, NoGuest, VerifiedByProof
<1>6. ASSUME NEW c \in Calls, UseCode(c)
      PROVE  VerifiedByProof'
  <2>1. PICK k : k = call[c].code
    OBVIOUS
  <2>2. /\ k \in 1..Len(codes) /\ codes[k].purpose = call[c].purpose
        /\ codes[k] \in CodeRow
    BY <1>0, <1>6, <2>1 DEF Inv, Sound, UseCode
  <2>3. codes'[k].served = codes[k].served + 1 /\ codes[k].served \in Nat
    BY <1>0, <1>6, <2>1, <2>2 DEF UseCode, CodeRow
  <2>4. codes'[k].served > 0 /\ codes'[k].purpose = codes[k].purpose
    BY <1>1, <2>2, <2>3 DEF Kept
  <2>5. CASE call[c].purpose = "email_verification"
    BY <1>2, <2>2, <2>4, <2>5 DEF VerifiedByProof
  <2>6. CASE call[c].purpose # "email_verification"
    BY <1>4, <1>6, <2>6 DEF UseCode, Effect
  <2>7. QED
    BY <2>5, <2>6
<1>7. ASSUME NEW enabled \in BOOLEAN, toggleTwoFa(enabled)
      PROVE  VerifiedByProof'
  <2>1. guest'.verified = guest.verified /\ vouched' = vouched
    BY <1>0, <1>7 DEF toggleTwoFa, TypeOK
  <2>2. QED
    BY <1>4, <2>1
<1>8. ASSUME NEW c \in Calls, AddEmailProvider(c) \/ LinkGoogle(c)
      PROVE  VerifiedByProof'
  BY <1>4, <1>8 DEF AddEmailProvider, LinkGoogle
<1>9. QED
  BY <1>4, <1>5, <1>6, <1>7, <1>8, Writers DEF Writes
-----------------------------------------------------------------------------
LEMMA InitInv == Init => Inv
<1> SUFFICES ASSUME Init PROVE Inv
  OBVIOUS
<1>1. codes = <<>> /\ codes \in Seq(CodeRow) /\ Len(codes) <= MaxCodes
  BY MaxCodesAssumption DEF Init
<1>2. call \in [Calls -> CallRow]
  BY IdleIsCall DEF Init
<1>3. TypeOK
  BY <1>1, <1>2 DEF Init, TypeOK, NoGuest, CallRow, CodeRow
<1>4. \A c \in Calls : Sound(call[c])
  BY DEF Init, Sound, Idle
<1>5. Len(codes) = 0 /\ VerifiedByProof
  BY DEF Init, NoGuest, VerifiedByProof
<1>6. QED
  BY <1>3, <1>4, <1>5 DEF Inv

LEMMA InvHolds == Spec => []Inv
<1>1. Inv /\ [Next]_vars => Inv'
  BY TypeStep, SoundStep, MailingStep, CountedStep, ProofStep DEF Inv
<1>2. QED
  BY InitInv, <1>1, PTL DEF Spec

\* The account, its codes and its requests keep their shape.
THEOREM TypeCorrect == Spec => []TypeOK
<1>1. Inv => TypeOK
  BY DEF Inv
<1>2. QED
  BY <1>1, InvHolds, PTL

\* However mails fail and requests are cut, who is told to wait by the rate
\* limit has a mail, but for the rows that a sign-up or a cut request leaves.
THEOREM WaitingGetsAMail == Spec => []WaitsForAMail
<1>1. Inv => WaitsForAMail
  BY RowTypes DEF Inv, Mailing, WaitsForAMail
<1>2. QED
  BY <1>1, InvHolds, PTL

\* used_at is written by id and without a condition: still a code never serves
\* more requests than were running at one time.
THEOREM ServesOverlapping == Spec => []ServesOnlyOverlapping
<1>1. ASSUME Inv, NEW i \in DOMAIN codes
      PROVE  codes[i].served <= Cardinality(Calls)
  <2>1. Counted(i) /\ codes[i].served \in Nat
    BY <1>1, RowTypes DEF Inv, CodeRow
  <2>2. QED
    BY <2>1, QuotingIsFinite DEF Counted
<1>2. Inv => ServesOnlyOverlapping
  BY <1>1 DEF ServesOnlyOverlapping
<1>3. QED
  BY <1>2, InvHolds, PTL

\* No two-factor or reset code, and no overlap of requests, makes an address
\* count as verified.
THEOREM VerifiedIsProved == Spec => []VerifiedByProof
<1>1. Inv => VerifiedByProof
  BY DEF Inv
<1>2. QED
  BY <1>1, InvHolds, PTL

=============================================================================
