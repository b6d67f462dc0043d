------------------------------- MODULE Colive -------------------------------
(***************************************************************************)
(* A long stay from the search to eZee: quotes and drafts (ColiveService), *)
(* the draft's Razorpay order and its verification (PaymentService), and   *)
(* the handler that makes the stay's reservation (EzeeSyncWorker).         *)
(*                                                                         *)
(* No row of `payments` and no webhook stands behind a draft: only the     *)
(* guest's own verification confirms it.  Every await of a call is a point *)
(* where another call, or a handler of the worker, may run.                *)
(***************************************************************************)
EXTENDS ColivePricing

CONSTANTS
    Answers,      \* what eZee may answer to a request for rates
    Durations,    \* duration_days of the requests
    Requests,     \* addons of the requests: how many of each
    Amounts,      \* the grand_total that a request for an order may name
    Quotes, Drafts,
    RzpOrders,    \* Razorpay orders that can be opened
    Calls,        \* payment calls that can be running at one time
    Handlers,     \* handlers that can be running at one time
    MaxStays,     \* bound: reservations that eZee makes for a draft
    NoAnswer, NoQuote, NoRoom, NoDraft, NoOrder

\* A long stay has at least 30 days.
ASSUME InputsAssumption ==
    /\ Durations \subseteq Nat /\ \A days \in Durations : days >= 30
    /\ Requests \subseteq [Addons -> Nat]
    /\ Amounts \subseteq Nat /\ MaxStays \in Nat

\* A room that is listed has a row; eZee's counts are numbers it may overbook,
\* its rates are not negative.
ASSUME AnswersAssumption ==
    \A rates \in Answers, room \in Rooms : room \in DOMAIN rates =>
        rates[room] \in Seq([units : Int, rate : Nat]) /\ rates[room] # <<>>
ASSUME NamesAssumption ==
    /\ NoAnswer \notin Answers /\ NoQuote \notin Quotes /\ NoRoom \notin Rooms
    /\ NoDraft \notin Drafts /\ NoOrder \notin RzpOrders

VARIABLES
    ezee,      \* eZee's rates now, NoAnswer while it cannot be reached
    cached,    \* the rates in the cache, NoAnswer if none
    quote,     \* colive_quotes
    draft,     \* colive_draft_bookings
    opened,    \* Razorpay's side: the draft and the amount of each order
    paid,      \* and the orders that were paid
    call,      \* createColiveOrder and verifyColivePayment calls
    messages,  \* INSERT_COLIVE_BOOKING messages of a draft
    handler,   \* where each handler is, and with which message
    stay,      \* what eZee knows of a draft
    overlapped \* drafts two handlers of whose message ran beside each other

web == <<ezee, cached, quote>>
shop == <<draft, opened, paid, call>>
sync == <<messages, handler, stay, overlapped>>
vars == <<ezee, cached, quote, draft, opened, paid, call, messages, handler, stay,
          overlapped>>
-----------------------------------------------------------------------------
Price == [room : Nat, tax : Nat, grand : Nat]

QuoteRow == [status : {"none", "live", "expired"}, room : Rooms \cup {NoRoom},
             days : Durations \cup {0}, wanted : [Addons -> Nat], price : Price]

\* `number`: which reservation ezee_reservation_no names, 0 if none; `sync`:
\* ezee_sync_status.
DraftRow == [status : {"none", "draft", "pending_payment", "confirmed"},
             quote : Quotes \cup {NoQuote}, room : Rooms \cup {NoRoom},
             days : Durations \cup {0}, wanted : [Addons -> Nat], total : Nat,
             order : RzpOrders \cup {NoOrder}, number : 0..MaxStays,
             sync : {"NOT_SYNCED", "PENDING", "PARTIAL", "SYNCED", "FAILED"}]

RzpOrder == [draft : Drafts \cup {NoDraft}, amount : Nat]
Unopened == [draft |-> NoDraft, amount |-> 0]

Call == [at : {"idle", "open_order", "confirm", "send"},
         draft : Drafts \cup {NoDraft}, amount : Nat]

Idle == [at |-> "idle", draft |-> NoDraft, amount |-> 0]

\* `mine` is the reservation that the handler has inserted, 0 before that.
Handler == [at : {"idle", "insert", "store", "process", "pay", "finish"},
            draft : Drafts \cup {NoDraft}, mine : 0..MaxStays]

Free == [at |-> "idle", draft |-> NoDraft, mine |-> 0]

\* Reservations are numbered as they are made.
Stay == [made : 0..MaxStays, processed : SUBSET (1..MaxStays),
         posted : SUBSET (1..MaxStays)]

TypeOK ==
    /\ ezee \in Answers \cup {NoAnswer} /\ cached \in Answers \cup {NoAnswer}
    /\ quote \in [Quotes -> QuoteRow]
    /\ draft \in [Drafts -> DraftRow]
    /\ opened \in [RzpOrders -> RzpOrder]
    /\ paid \subseteq RzpOrders
    /\ call \in [Calls -> Call]
    /\ messages \in [Drafts -> Nat]
    /\ handler \in [Handlers -> Handler]
    /\ stay \in [Drafts -> Stay]
    /\ overlapped \subseteq Drafts

Nothing == [addon \in Addons |-> 0]

Init ==
    /\ ezee \in Answers /\ cached = NoAnswer
    /\ quote = [q \in Quotes |->
                  [status |-> "none", room |-> NoRoom, days |-> 0,
                   wanted |-> Nothing, price |-> [room |-> 0, tax |-> 0, grand |-> 0]]]
    /\ draft = [d \in Drafts |->
                  [status |-> "none", quote |-> NoQuote, room |-> NoRoom,
                   days |-> 0, wanted |-> Nothing, total |-> 0,
                   order |-> NoOrder, number |-> 0, sync |-> "NOT_SYNCED"]]
    /\ opened = [r \in RzpOrders |-> Unopened]
    /\ paid = {}
    /\ call = [c \in Calls |-> Idle]
    /\ messages = [d \in Drafts |-> 0]
    /\ handler = [h \in Handlers |-> Free]
    /\ stay = [d \in Drafts |-> [made |-> 0, processed |-> {}, posted |-> {}]]
    /\ overlapped = {}
-----------------------------------------------------------------------------
(* Rates, quotes and drafts. *)

\* External: eZee's rates change, or it stops to answer.
EzeeChanges ==
    /\ ezee' \in (Answers \cup {NoAnswer}) \ {ezee}
    /\ UNCHANGED <<cached, quote>> /\ UNCHANGED shop /\ UNCHANGED sync

\* getEzeePricing: cached rates first; an answer is cached, a failure is not.
Rates == IF cached # NoAnswer THEN cached ELSE ezee
CacheRates == cached' = Rates

\* searchInventory and getPropertyDetail change nothing else.
Search ==
    /\ CacheRates
    /\ UNCHANGED <<ezee, quote>> /\ UNCHANGED shop /\ UNCHANGED sync

CacheExpires ==
    /\ cached # NoAnswer /\ cached' = NoAnswer
    /\ UNCHANGED <<ezee, quote>> /\ UNCHANGED shop /\ UNCHANGED sync

\* A room without a monthly price cannot be quoted.  No answer is like an
\* answer that lists no room.
CreateQuote(q, room, days, wanted) ==
    /\ quote[q].status = "none"
    /\ MonthPrice[room] # 0
    /\ quote' = [quote EXCEPT ![q] =
                   [status |-> "live", room |-> room, days |-> days, wanted |-> wanted,
                    price |-> Priced(IF Rates = NoAnswer THEN <<>> ELSE Rates,
                                     room, days, wanted)]]
    /\ CacheRates
    /\ UNCHANGED ezee /\ UNCHANGED shop /\ UNCHANGED sync

QuoteExpires(q) ==
    /\ quote[q].status = "live"
    /\ quote' = [quote EXCEPT ![q].status = "expired"]
    /\ UNCHANGED <<ezee, cached>> /\ UNCHANGED shop /\ UNCHANGED sync

\* The request is the guest's second one; its room, days and addons are not
\* compared with the quote's, and one quote may serve several drafts.  eZee is
\* not asked again.
CreateDraft(d, q, room, days, wanted) ==
    /\ draft[d].status = "none"
    /\ quote[q].status = "live"
    /\ Chosen(wanted) \subseteq OnSale
    /\ draft' = [draft EXCEPT ![d].status = "draft", ![d].quote = q, ![d].room = room,
                              ![d].days = days, ![d].wanted = wanted,
                              ![d].total = DraftTotal(quote[q].price, days, wanted)]
    /\ UNCHANGED web /\ UNCHANGED <<opened, paid, call>> /\ UNCHANGED sync
-----------------------------------------------------------------------------
(* Payment. *)

Begin(c, as) == call[c] = Idle /\ call' = [call EXCEPT ![c] = as]
Answer(c) == call' = [call EXCEPT ![c] = Idle]

\* createColiveOrder: a draft that is not confirmed, and an amount that the
\* request names; nobody compares it with the draft's total
StartOrder(c, d, amount) ==
    /\ amount > 0
    /\ draft[d].status \notin {"none", "confirmed"}
    /\ Begin(c, [at |-> "open_order", draft |-> d, amount |-> amount])
    /\ UNCHANGED web /\ UNCHANGED <<draft, opened, paid>> /\ UNCHANGED sync

\* gets a new Razorpay order, which takes the place of an older one and makes
\* the draft wait for it, whatever happened since the draft was read.
OpenOrder(c, r) ==
    LET d == call[c].draft
    IN  /\ call[c].at = "open_order"
        /\ opened[r] = Unopened
        /\ opened' = [opened EXCEPT ![r] = [draft |-> d, amount |-> call[c].amount]]
        /\ draft' = [draft EXCEPT ![d].status = "pending_payment", ![d].order = r]
        /\ Answer(c)
        /\ UNCHANGED web /\ UNCHANGED paid /\ UNCHANGED sync

\* External: the guest pays an order.
Pay(r) ==
    /\ opened[r] # Unopened /\ r \notin paid
    /\ paid' = paid \cup {r}
    /\ UNCHANGED web /\ UNCHANGED <<draft, opened, call>> /\ UNCHANGED sync

\* Mutant of StartVerify: the signature is not looked at.
StartVerifyUnsigned(c, d, r) ==
    /\ draft[d].order = r
    /\ draft[d].status # "confirmed"
    /\ Begin(c, [at |-> "confirm", draft |-> d, amount |-> 0])
    /\ UNCHANGED web /\ UNCHANGED <<draft, opened, paid>> /\ UNCHANGED sync

\* verifyColivePayment: Razorpay signed the order, it is the draft's, and the
\* draft is not confirmed.
StartVerify(c, d, r) ==
    /\ r \in paid
    /\ draft[d].order = r
    /\ draft[d].status # "confirmed"
    /\ Begin(c, [at |-> "confirm", draft |-> d, amount |-> 0])
    /\ UNCHANGED web /\ UNCHANGED <<draft, opened, paid>> /\ UNCHANGED sync

\* The draft is confirmed by its id alone,
Confirm(c) ==
    /\ call[c].at = "confirm"
    /\ draft' = [draft EXCEPT ![call[c].draft].status = "confirmed",
                              ![call[c].draft].sync = "PENDING"]
    /\ call' = [call EXCEPT ![c].at = "send"]
    /\ UNCHANGED web /\ UNCHANGED <<opened, paid>> /\ UNCHANGED sync

\* and queued; a send that fails is only logged.
SendInsert(c) ==
    /\ call[c].at = "send"
    /\ messages' \in {messages, [messages EXCEPT ![call[c].draft] = @ + 1]}
    /\ Answer(c)
    /\ UNCHANGED web /\ UNCHANGED <<draft, opened, paid, handler, stay, overlapped>>

Crash(c) ==
    /\ call[c] # Idle
    /\ Answer(c)
    /\ UNCHANGED web /\ UNCHANGED <<draft, opened, paid>> /\ UNCHANGED sync
-----------------------------------------------------------------------------
(* handleInsertColiveBooking.  The queue holds a message back while it is    *)
(* handled, but no longer than its visibility timeout: a handler that        *)
(* outlasts it meets another one with the same message.                      *)

Goto(h, at) == handler' = [handler EXCEPT ![h].at = at]

\* The message is deleted, or is there again because the deletion failed or
\* came too late.
Lessened(d) ==
    {messages} \cup {n \in {[messages EXCEPT ![d] = @ - 1]} : messages[d] > 0}

\* Handler h runs a message of d from its start.
Take(h, d) ==
    /\ handler' = [handler EXCEPT ![h] = [at |-> "insert", draft |-> d, mine |-> 0]]
    /\ overlapped' = IF \E k \in Handlers : handler[k].draft = d
                     THEN overlapped \cup {d} ELSE overlapped

\* Mutant of Receive: a draft that has a number is handled again.
ReceiveAgain(h, d) ==
    /\ handler[h] = Free /\ messages[d] > 0
    /\ Take(h, d)
    /\ UNCHANGED web /\ UNCHANGED shop /\ UNCHANGED <<messages, stay>>

\* A draft with a number is done with, however far the handler came that
\* stored it.
Receive(h, d) ==
    /\ handler[h] = Free /\ messages[d] > 0
    /\ IF draft[d].number # 0
       THEN messages' \in Lessened(d) /\ UNCHANGED <<handler, overlapped>>
       ELSE Take(h, d) /\ UNCHANGED messages
    /\ UNCHANGED web /\ UNCHANGED shop /\ UNCHANGED stay

InsertStay(h) ==
    LET d == handler[h].draft
        number == stay[d].made + 1
    IN  /\ handler[h].at = "insert" /\ number <= MaxStays
        /\ stay' = [stay EXCEPT ![d].made = number]
        /\ handler' = [handler EXCEPT ![h].at = "store", ![h].mine = number]
        /\ UNCHANGED web /\ UNCHANGED shop /\ UNCHANGED <<messages, overlapped>>

StoreNumber(h) ==
    LET d == handler[h].draft
    IN  /\ handler[h].at = "store"
        /\ draft' = [draft EXCEPT ![d].number = handler[h].mine, ![d].sync = "PARTIAL"]
        /\ Goto(h, "process")
        /\ UNCHANGED web /\ UNCHANGED <<opened, paid, call, messages, stay, overlapped>>

\* processBooking confirms the handler's own reservation.
ProcessStay(h) ==
    /\ handler[h].at = "process"
    /\ stay' = [stay EXCEPT ![handler[h].draft].processed = @ \cup {handler[h].mine}]
    /\ Goto(h, "pay")
    /\ UNCHANGED web /\ UNCHANGED shop /\ UNCHANGED <<messages, overlapped>>

\* A payment that cannot be posted is only logged.
PostPayment(h) ==
    /\ handler[h].at = "pay"
    /\ stay' \in {stay, [stay EXCEPT ![handler[h].draft].posted = @ \cup {handler[h].mine}]}
    /\ Goto(h, "finish")
    /\ UNCHANGED web /\ UNCHANGED shop /\ UNCHANGED <<messages, overlapped>>

\* Handler h ends, with this status of the draft.
End(h, status) ==
    LET d == handler[h].draft
    IN  /\ draft' = [draft EXCEPT ![d].sync = status]
        /\ messages' \in Lessened(d)
        /\ handler' = [handler EXCEPT ![h] = Free]
        /\ UNCHANGED web /\ UNCHANGED <<opened, paid, call, stay, overlapped>>

\* Mutant of Finish: it does not wait for processBooking.
FinishUnprocessed(h) ==
    handler[h].at \in {"process", "finish"} /\ End(h, "SYNCED")

Finish(h) == handler[h].at = "finish" /\ End(h, "SYNCED")

\* A call of the handler fails, or its process stops before it can say so: the
\* message comes back, or goes to the dead letters after too many receptions.
HandlerFails(h) ==
    /\ handler[h].at # "idle"
    /\ End(h, "FAILED") \/ End(h, draft[handler[h].draft].sync)
-----------------------------------------------------------------------------
Shopping ==
    \/ EzeeChanges \/ Search \/ CacheExpires
    \/ \E q \in Quotes :
          \/ QuoteExpires(q)
          \/ \E days \in Durations, wanted \in Requests :
                \E room \in Rooms :
                   \/ CreateQuote(q, room, days, wanted)
                   \/ \E d \in Drafts : CreateDraft(d, q, room, days, wanted)

Paying ==
    \/ \E c \in Calls :
          \/ \E d \in Drafts : \/ \E amount \in Amounts : StartOrder(c, d, amount)
                             \/ \E r \in RzpOrders : StartVerify(c, d, r)
          \/ \E r \in RzpOrders : OpenOrder(c, r)
          \/ Confirm(c) \/ SendInsert(c) \/ Crash(c)
    \/ \E r \in RzpOrders : Pay(r)

Handling ==
    \E h \in Handlers :
        \/ \E d \in Drafts : Receive(h, d)
        \/ InsertStay(h) \/ StoreNumber(h) \/ ProcessStay(h)
        \/ PostPayment(h) \/ Finish(h) \/ HandlerFails(h)

Next == Shopping \/ Paying \/ Handling

Spec == Init /\ [][Next]_vars
-----------------------------------------------------------------------------
(* Safety. *)

\* The search and the property's page are computed by two methods, with filters
\* of their own and each from another row of a room that eZee lists twice.  From
\* the same answer they agree where its rows do: no room is cheaper than the
\* search says unless its rows differ in their rates and it has no price of its
\* own, and a property said to be available has no scarce room unless its rows
\* differ in their units.
SearchAgreesWithDetail ==
    cached # NoAnswer =>
        \A stayType \in StayTypes :
            \A card \in Cards(cached, stayType) :
                /\ \/ card.monthly = 0 \/ PriceFrom(cached) \in 1..card.monthly
                   \/ Monthly(First(cached), card.room) # Monthly(Last(cached), card.room)
                /\ \/ InventoryState(FewestUnits(cached)) # "available" \/ card.units > 2
                   \/ Units(First(cached), card.room) # Units(Last(cached), card.room)

\* The draft's total is added up anew, from its own addons and the quote's room
\* and tax.  A guest who asks for the days and addons that were quoted has the
\* quoted total in the draft, whatever was quoted or changed meanwhile; the
\* room is not compared, and the draft's may be another one at this price.  The
\* total is what eZee is told was paid; the amount of the Razorpay order is the
\* request's.
DraftCostsAsQuoted ==
    \A d \in Drafts : \A q \in Quotes :
        /\ draft[d].quote = q
        /\ draft[d].days = quote[q].days /\ draft[d].wanted = quote[q].wanted
        => draft[d].total = quote[q].price.grand

\* Orders of a draft are replaced and calls overlap, and yet nothing is
\* confirmed, queued or reserved for a draft unless an order of it was paid, and
\* not for nothing.
ConfirmedWasPaid ==
    \A d \in Drafts :
        \/ draft[d].status = "confirmed" \/ messages[d] > 0 \/ stay[d].made > 0 =>
            \E r \in paid : opened[r].draft = d /\ opened[r].amount > 0

\* A draft may be confirmed and queued several times, and its handler fails and
\* is tried again: its payment is posted to reservations that were processed,
\* and to none but the one the draft names unless a handler outlasted its
\* receipt and ran beside another.
PostedOnce ==
    \A d \in Drafts :
        /\ stay[d].posted \subseteq stay[d].processed
        /\ d \in overlapped \/ stay[d].posted \subseteq {draft[d].number}

\* A draft shown as SYNCED has a reservation that is confirmed in eZee, whatever
\* wrote the status; and it is the one the draft names, with the same exception.
SyncedIsProcessed ==
    \A d \in Drafts : draft[d].sync = "SYNCED" =>
        /\ stay[d].processed # {}
        /\ d \in overlapped \/ draft[d].number \in stay[d].processed
=============================================================================
