--------------------------- MODULE GuestAccounts ---------------------------
(***************************************************************************)
(* One guest's account and the codes mailed to its address: sign-up, the   *)
(* e-mail verification, two-factor and password-reset codes, and signing   *)
(* in with Google (GuestAuthService).  Requests overlap, the mail service  *)
(* fails, a failed request takes its code back, and a request may be cut.  *)
(*                                                                         *)
(* A code is the row of otp_logs that holds its hash; what a request       *)
(* quotes is a code that was mailed, or wrong and without effect.  Tokens  *)
(* carry no state of ours; linking bookings after a login is in            *)
(* StayGuests.                                                             *)
(***************************************************************************)
EXTENDS Naturals, Sequences, FiniteSets, FiniteSetsExt

CONSTANTS
    Calls,     \* requests that can be running at one time
    MaxCodes   \* bound: codes ever made

ASSUME MaxCodesAssumption == MaxCodes \in Nat
ASSUME CallsAssumption == IsFiniteSet(Calls)

VARIABLES
    guest,      \* the row of guests
    providers,  \* the guest's rows of auth_providers
    codes,      \* otp_logs, oldest first
    call,       \* what each running request has got to
    vouched     \* history: Google has said the address is the guest's

vars == <<guest, providers, codes, call, vouched>>
-----------------------------------------------------------------------------
Purposes == {"email_verification", "two_fa", "password_reset"}

\* served counts the requests a code has served (history; used_at is used).
\* recent: younger than the 60 seconds of the rate limit;
\* valid: younger than the ten minutes of expires_at.
Older(age) == IF age = "recent" THEN "valid" ELSE "expired"

NoGuest == [there |-> FALSE, verified |-> FALSE, password |-> FALSE,
            twoFa |-> FALSE]
Idle == [stage |-> "idle", purpose |-> "none", code |-> 0, keeps |-> FALSE]

\* Rows made recently and not used: the next request is told to wait.
RateLimited(p) ==
    \E i \in DOMAIN codes : /\ codes[i].purpose = p
                            /\ ~codes[i].used
                            /\ codes[i].age = "recent"

\* Mutant of Usable: the purpose of a code is not asked for.
UsableForAnything(p) ==
    {i \in DOMAIN codes : ~codes[i].used
                          /\ codes[i].age \in {"recent", "valid"}}

Usable(p) ==
    {i \in DOMAIN codes : /\ codes[i].purpose = p
                          /\ ~codes[i].used
                          /\ codes[i].age \in {"recent", "valid"}}

Stage(c, r) == call' = [call EXCEPT ![c] = r]
Done(c) == Stage(c, Idle)
-----------------------------------------------------------------------------
Init ==
    /\ guest = NoGuest
    /\ providers = {}
    /\ codes = <<>>
    /\ call = [c \in Calls |-> Idle]
    /\ vouched = FALSE

(* Sign-up: three statements, then a verification code the guest did not   *)
(* ask for, whose failure is only logged.                                  *)

Signup(c) ==
    /\ call[c] = Idle /\ ~guest.there
    /\ Stage(c, [Idle EXCEPT !.stage = "create"])
    /\ UNCHANGED <<guest, providers, codes, vouched>>

\* guests.email is unique: of two sign-ups the second fails.
CreateGuest(c) ==
    /\ call[c].stage = "create"
    /\ IF guest.there
       THEN Done(c) /\ UNCHANGED guest
       ELSE /\ guest' = [NoGuest EXCEPT !.there = TRUE, !.password = TRUE]
            /\ Stage(c, [call[c] EXCEPT !.stage = "provider"])
    /\ UNCHANGED <<providers, codes, vouched>>

AddEmailProvider(c) ==
    /\ call[c].stage = "provider"
    /\ providers' = providers \cup {"email"}
    /\ Stage(c, [Idle EXCEPT !.stage = "row", !.keeps = TRUE,
                             !.purpose = "email_verification"])
    /\ UNCHANGED <<guest, codes, vouched>>
-----------------------------------------------------------------------------
(* Asking for a code.  sendTwoFaOtp answers a login that comes too soon as *)
(* if it had mailed one; the others refuse.                                *)

SendCode(c, p) ==
    /\ call[c] = Idle /\ guest.there /\ ~RateLimited(p)
    /\ Stage(c, [Idle EXCEPT !.stage = "row", !.purpose = p])
    /\ UNCHANGED <<guest, providers, codes, vouched>>

sendOtp(c) == ~guest.verified /\ SendCode(c, "email_verification")
login(c) == guest.password /\ guest.twoFa /\ SendCode(c, "two_fa")
forgotPassword(c) == guest.password /\ SendCode(c, "password_reset")

toggleTwoFa(enabled) ==
    /\ guest.there /\ guest.twoFa # enabled
    /\ guest' = [guest EXCEPT !.twoFa = enabled]
    /\ UNCHANGED <<providers, codes, call, vouched>>

CreateCode(c) ==
    /\ call[c].stage = "row"
    /\ Len(codes) < MaxCodes
    /\ codes' = Append(codes, [purpose |-> call[c].purpose, age |-> "recent",
                               used |-> FALSE, served |-> 0,
                               mail |-> "unsent", keeps |-> call[c].keeps])
    /\ Stage(c, [call[c] EXCEPT !.stage = "mail", !.code = Len(codes) + 1])
    /\ UNCHANGED <<guest, providers, vouched>>

Mailed(c) ==
    /\ call[c].stage = "mail"
    /\ codes' = [codes EXCEPT ![call[c].code].mail = "sent"]
    /\ Done(c)
    /\ UNCHANGED <<guest, providers, vouched>>

\* Mutant of MailFails: the row is left in every case.
MailFailsKeeping(c) ==
    /\ call[c].stage = "mail"
    /\ \E m \in {"unsent", "sent"} :
          codes' = [codes EXCEPT ![call[c].code].mail = m]
    /\ Done(c)
    /\ UNCHANGED <<guest, providers, vouched>>

\* The service reports a failure, whether or not the mail has left.  A
\* sign-up logs it and leaves the row; the others go on to delete it.
MailFails(c) ==
    /\ call[c].stage = "mail"
    /\ \E m \in {"unsent", "sent"} :
          codes' = [codes EXCEPT ![call[c].code].mail = m]
    /\ IF call[c].keeps THEN Done(c)
       ELSE Stage(c, [call[c] EXCEPT !.stage = "take back"])
    /\ UNCHANGED <<guest, providers, vouched>>

TakeBack(c) ==
    /\ call[c].stage = "take back"
    /\ codes' = [codes EXCEPT ![call[c].code].age = "deleted"]
    /\ Done(c)
    /\ UNCHANGED <<guest, providers, vouched>>

\* A code gets older, never before the codes older than it.
Age(i) ==
    /\ codes[i].age \in {"recent", "valid"}
    /\ \A j \in 1..(i - 1) :
          codes[j].age \in {Older(codes[i].age), "expired", "deleted"}
    /\ codes' = [codes EXCEPT ![i].age = Older(@)]
    /\ UNCHANGED <<guest, providers, call, vouched>>
-----------------------------------------------------------------------------
(* Quoting a code.  The newest code of the purpose that is neither used    *)
(* nor expired is compared; a wrong one changes nothing.                   *)

Quote(c, p) ==
    LET found == Max(Usable(p))
    IN  /\ call[c] = Idle /\ guest.there
        /\ Usable(p) # {} /\ codes[found].mail = "sent"
        /\ Stage(c, [Idle EXCEPT !.stage = "use", !.purpose = p,
                                 !.code = found])
        /\ UNCHANGED <<guest, providers, codes, vouched>>

\* What the code was for: a two-factor code signs the guest in, a reset
\* stores the new password (any password is one here).
Effect(p) == IF p = "email_verification"
             THEN [guest EXCEPT !.verified = TRUE] ELSE guest

\* Mutant of UseCode: a two-factor code is not marked.
UseCodeUnmarked(c) ==
    LET i == call[c].code
    IN  /\ call[c].stage = "use" /\ codes[i].age # "deleted"
        /\ codes' = [codes EXCEPT ![i].used = codes[i].purpose # "two_fa",
                                  ![i].served = @ + 1]
        /\ guest' = Effect(call[c].purpose)
        /\ Done(c)
        /\ UNCHANGED <<providers, vouched>>

\* verifyOtp, verifyTwoFa and resetPassword: the row is marked by its id and
\* the guest updated with it; nothing asks again whether it is unused.
UseCode(c) ==
    LET i == call[c].code
    IN  /\ call[c].stage = "use" /\ codes[i].age # "deleted"
        /\ codes' = [codes EXCEPT ![i].used = TRUE, ![i].served = @ + 1]
        /\ guest' = Effect(call[c].purpose)
        /\ Done(c)
        /\ UNCHANGED <<providers, vouched>>

\* The row was taken back meanwhile: the update finds none and all of it is
\* rolled back.
UseCodeGone(c) ==
    /\ call[c].stage = "use" /\ codes[call[c].code].age = "deleted"
    /\ Done(c)
    /\ UNCHANGED <<guest, providers, codes, vouched>>
-----------------------------------------------------------------------------
(* Google.  A returning guest only gets a token; one whose address has an  *)
(* account is linked to it; else an account without a password is made.    *)

\* Both lookups; keeps holds what the second one found in email_verified.
googleLogin(c) ==
    /\ call[c] = Idle /\ "google" \notin providers
    /\ Stage(c, [Idle EXCEPT !.stage = IF guest.there THEN "link" ELSE "join",
                             !.keeps = guest.verified])
    /\ UNCHANGED <<guest, providers, codes, vouched>>

\* auth_providers is unique by provider and user: the second one fails.
LinkGoogle(c) ==
    /\ call[c].stage = "link"
    /\ providers' = providers \cup {"google"}
    /\ IF "google" \in providers \/ call[c].keeps THEN Done(c)
       ELSE Stage(c, [Idle EXCEPT !.stage = "vouch"])
    /\ UNCHANGED <<guest, codes, vouched>>

Vouch(c) ==
    /\ call[c].stage = "vouch"
    /\ guest' = [guest EXCEPT !.verified = TRUE]
    /\ vouched' = TRUE
    /\ Done(c)
    /\ UNCHANGED <<providers, codes>>

\* The account and its provider are two statements.
JoinByGoogle(c) ==
    /\ call[c].stage = "join"
    /\ IF guest.there
       THEN Done(c) /\ UNCHANGED <<guest, vouched>>
       ELSE /\ guest' = [NoGuest EXCEPT !.there = TRUE, !.verified = TRUE]
            /\ vouched' = TRUE
            /\ Stage(c, [Idle EXCEPT !.stage = "link", !.keeps = TRUE])
    /\ UNCHANGED <<providers, codes>>
-----------------------------------------------------------------------------
\* The process dies, a query fails, or the deletion of a row does (which is
\* ignored).  A code whose mail has not gone is abandoned.
Cut(c) ==
    LET r == call[c]
    IN  /\ r.stage # "idle"
        /\ codes' = IF r.stage \in {"mail", "take back"}
                       /\ codes[r.code].mail = "unsent"
                    THEN [codes EXCEPT ![r.code].mail = "abandoned"] ELSE codes
        /\ Done(c)
        /\ UNCHANGED <<guest, providers, vouched>>

Next ==
    \/ \E c \in Calls :
          \/ Signup(c) \/ CreateGuest(c) \/ AddEmailProvider(c)
          \/ sendOtp(c) \/ login(c) \/ forgotPassword(c)
          \/ CreateCode(c) \/ Mailed(c) \/ MailFails(c) \/ TakeBack(c)
          \/ \E p \in Purposes : Quote(c, p)
          \/ UseCode(c) \/ UseCodeGone(c)
          \/ googleLogin(c) \/ LinkGoogle(c) \/ Vouch(c) \/ JoinByGoogle(c)
          \/ Cut(c)
    \/ \E enabled \in BOOLEAN : toggleTwoFa(enabled)
    \/ \E i \in DOMAIN codes : Age(i)

Spec == Init /\ [][Next]_vars
-----------------------------------------------------------------------------
(* Properties. *)

Stages == {"idle", "create", "provider", "row", "mail", "take back", "use",
           "link", "vouch", "join"}

\* Every row and every request has the shape above.
TypeOK ==
    /\ guest \in [there : BOOLEAN, verified : BOOLEAN, password : BOOLEAN,
                 twoFa : BOOLEAN]
    /\ providers \subseteq {"email", "google"}
    /\ codes \in Seq([purpose : Purposes, keeps : BOOLEAN, used : BOOLEAN,
                     served : Nat,
                     age : {"recent", "valid", "expired", "deleted"},
                     mail : {"unsent", "sent", "abandoned"}])
    /\ Len(codes) <= MaxCodes
    /\ call \in [Calls -> [stage : Stages, purpose : Purposes \cup {"none"},
                          code : 0..MaxCodes, keeps : BOOLEAN]]
    /\ vouched \in BOOLEAN

\* "Roll back the OTP record so the guest isn't blocked by the rate limit": a
\* guest told to wait has a mail on its way or in the box.  The rows of a
\* sign-up whose mail failed and those of requests that were cut do block.
WaitsForAMail ==
    \A i \in DOMAIN codes :
        codes[i].age = "recent" /\ ~codes[i].used /\ ~codes[i].keeps =>
            \/ codes[i].mail \in {"sent", "abandoned"}
            \/ \E c \in Calls : call[c].code = i

\* used_at is written after the code was compared and by the row's id only, so
\* one code can serve requests that overlap; it never serves a later one.
ServesOnlyOverlapping ==
    \A i \in DOMAIN codes : codes[i].served <= Cardinality(Calls)

\* An address counts as verified only if Google vouched for it or a code that
\* was mailed to it for that purpose has been quoted: two-factor and reset
\* codes, which live in the same table, prove nothing about it.
VerifiedByProof ==
    guest.verified =>
        \/ vouched
        \/ \E i \in DOMAIN codes : /\ codes[i].purpose = "email_verification"
                                   /\ codes[i].served > 0
=============================================================================
