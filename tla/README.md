# Vibehouse backend: a verification project

TLA+ models of the NestJS backend of Vibehouse, a hostel that sells beds, addons
and long stays. The modules are model-checked with TLC on small instances and
their main invariants are proved with TLAPS for every value of the constants.
Paths below are relative to the repository (`src/` is its TypeScript).

The models are about what is hard to test in this program: several requests,
workers and timers interleave at every `await`, transactions run at READ
COMMITTED and rely on values that were read before they began, Razorpay and SQS
deliver more than once and out of order, and processes stop half way.

1. [Inventory](#1-inventory-of-the-system)
2. [What models what](#2-what-models-what)
3. [Runs](#3-runs-bounds-and-what-they-show)
4. [Fairness](#4-fairness)
5. [Proofs](#5-proofs)
6. [Divergences found](#6-divergences-found)
7. [What is not modelled](#7-what-is-not-modelled)
8. [Plan](#8-plan)

## 1. Inventory of the system

Postgres (through Prisma) holds all durable state; Redis caches; SQS carries
messages to workers that run inside every API process; Razorpay (payments), eZee
(the property management system, the source of truth for stays), MyGate (locks),
S3 and Textract are external.

### Booking checkout and booking payment
`src/guest/booking/guest-booking.service.ts`, `src/payment/*`.

- *State*: `ezee_booking_cache` (status, `is_active`, `ezee_reservation_no`),
  `booking_slots`, `booking_guest_access`, the booking's `addon_orders` row,
  `payments`, the counters of `inventory`.
- *Operations*: `createBookingOrder` (one transaction: reserve addons, create
  booking, slots and access), `createBookingPayment`, `verifyPayment`,
  `handleWebhook`, `handlePaymentFailure`; inside them `fulfilOrder`,
  `fulfilBookingOrder` and `rollbackPendingBooking`.
- *Interactions*: Razorpay webhooks; `INSERT_BOOKING` to the eZee queue after
  the commit; the inventory ledger.
- *Hard*: verify, the webhook and the failure call of one payment overlap; each
  tests a status, awaits, then updates by id; the rollback reads the addon order
  before it holds a lock.
- *Correct when*: no unit of stock is lost or sold twice, nothing is honoured
  that was not paid, what was paid is recorded, a booking is created and rolled
  back as a whole, eZee hears of it after the commit only.

### Inventory ledger
`inventory` rows, changed by the payment, booking, store and admin services with
relative updates under CHECK constraints
(`prisma/migrations/20260414000000_inventory_non_negative_constraints`).

- *Correct when*: every unit is in one place, no counter is negative, units only
  change place, arrive or are written off.

### Lending desk
`src/admin/inventory/*`, `requestBorrowable` in `src/guest/store/*`.

- *State*: `borrowable_checkouts`, `returnable_checkouts`, `inventory`.
- *Operations*: request, lend, issue, verify return (two kinds), restock, mark
  damaged, list and unlist.
- *Hard*: every check is made before the transaction that relies on it.
- *Correct when*: units counted as lent are those of open loans, nothing
  disappears from the books, nobody is lent more than allowed.

### eZee synchronisation
`src/sqs/*`, `src/sqs/workers/ezee-sync.worker.ts`, `src/ezee/ezee.service.ts`.

- *State*: the ezee-sync FIFO queue (one group per booking, three receptions,
  then a dead-letter queue), receipts, `ezee_reservation_no`,
  `ezee_sync_status` of long-stay drafts, and eZee's own reservations.
- *Operations*: poll, dispatch, delete; `handleInsertBooking`,
  `handleInsertColiveBooking`, `handleAddExtraCharge`.
- *Hard*: eZee calls are not idempotent and a process may stop between a call
  and the row that remembers it; `fetch` has no timeout, so a handler may
  outlast the 120 s for which its message is hidden.
- *Correct when*: each booking becomes one confirmed reservation, paid once, and
  addons are charged as sold.

### Reconciliation
`src/ezee/ezee-reconciliation.service.ts`: at start-up and every 15 minutes, in
every process, without waiting for the last pass.

- *Operations*: queue unsynced bookings again, copy eZee's status into
  `ezee_booking_cache`, ingest bookings made elsewhere, provision locks.
- *Hard*: passes overlap and write a status they fetched earlier.
- *Correct when*: our row never says what eZee never said, and every confirmed
  booking gets into eZee in the end.

### Addon store and its payments
`src/guest/store/*`, the `addon_upsell` half of `src/payment/*`.

- *State*: a cart is an `addon_orders` row that is PENDING, with its items;
  `payments`; `inventory`.
- *Operations*: `addToCart`, `updateCartItem`, `removeFromCart`, `createOrder`
  (replaces the cart's payment), `verifyPayment`, webhook, `handlePaymentFailure`,
  `fulfilOrder` (sells under `FOR UPDATE`, or ends in FAILED_STOCK and
  REFUND_NEEDED), `ADD_EXTRA_CHARGE` to the eZee queue.
- *Hard*: carts stay open to edits while a payment runs; payments are unlinked and
  replaced; verify and webhook both fulfil.
- *Correct when*: goods, refunds and charges are only for captured money, a
  captured payment has decided its order, the ledger is kept.

### Long stays (colive)
`src/guest/colive/*`, the colive half of `src/payment/*`,
`handleInsertColiveBooking`.

- *State*: `colive_quotes`, `colive_draft_bookings`, cached rates.
- *Operations*: search, detail, quote, draft, `createColiveOrder`,
  `verifyColivePayment`, the worker's handler.
- *Hard*: the price is computed at four places, from rates in which eZee may list a
  room twice; the request names the amount that is charged; orders are replaced and
  calls overlap; a handler fails between any two calls and is tried again, and may run
  beside another one of the same message.
- *Correct when*: search and detail agree and a draft costs what was quoted, only a
  paid draft is confirmed, its payment is posted once, to a reservation that eZee
  confirmed, and it is shown as SYNCED when there is one.

### Room availability
`getRoomAvailability` and `createBookingOrder` in `src/guest/booking/*`.

- *State*: one cached value per pair of dates; eZee's bookings.
- *Hard*: an order holds no bed until the worker inserts it, minutes after it was
  paid; deletions of a key race with requests that are about to put one; eZee's
  failure is answered with an estimate.
- *Correct when*: a bed is sold twice for known reasons only.

### Slots, links and KYC
`linkBooking`, `ensureSlots` (`src/guest/booking/*`), `src/guest/kyc/*`,
`autoLinkBookings` (`src/guest/auth/*`).

- *State*: `booking_guest_access`, `booking_slots`, `kyc_submissions`.
- *Hard*: no call is a transaction, and the booking may be rolled back under it.
- *Correct when*: who holds a slot is linked, who is shown as completed has a
  submission, a submission's author is linked.

### Accounts
`src/guest/auth/*`.

- *State*: `guests`, `auth_providers`, `otp_logs`.
- *Operations*: sign-up, login with a second factor, codes (sent, quoted, rate
  limited), reset, Google sign-in.
- *Hard*: requests read a code before either marks it; a mail fails after its row
  was written; an account and its provider are two statements.
- *Correct when*: nobody waits for a mail that never goes, a code serves only
  requests that overlap, an address is verified by proof.

### Check-in and locks
`EzeeReconciliationService` and `src/mygate/*`.

- *State*: rows ingested from eZee, `room_number`, `smart_lock_access`, MyGate's
  accesses.
- *Hard*: passes overlap, provisioning is fire-and-forget, and MyGate does not
  return the PIN it made: it is looked for by name and time.
- *Correct when*: drift goes away, every reservation that stays among the arrivals
  asked for comes to be known, two PINs or an unknown one have an explanation.

### Caches
`src/redis/cache.service.ts` and its callers.

- *State*: nine kinds of cached results, each deleted by some of nineteen
  mutations; the staff's `is_active`.
- *Hard*: a load that read the old rows may put its value after the deletion;
  Redis may fail; each mutation has its own idea of which keys to delete.
- *Correct when*: what was cached before a product was edited or an account
  deactivated does not stay, and nothing stale stays for good.

### The rest
Staff listings, events, room types and users are CRUD over single rows; the ops and
notify workers append log and audit rows that nothing reads back; e-mail, S3 and
Textract are I/O; controllers, DTOs and bootstrap are routing.

## 2. What models what

    Stock ──────────── BookingPayment ──┐
      │ ├───────────── Lending ─────────┤ implement StockLedger
      │ ├───────────── AddonStore ──────┤
      └─ StockLedger ◄──────────────────┘
    EzeeSync (starts where BookingPayment's messages end)
    ColivePricing ─ Colive      CheckIn      Rooms
    StayGuests                  Caches       GuestAccounts

| module | role |
|---|---|
| `Stock` | the counters of an inventory row and the few ways they change (pure operators) |
| `StockLedger` | abstract specification: what anybody may do to the inventory |
| `BookingPayment` | checkout, payment, capture, failure and rollback of a stay |
| `Lending` | borrowables and returnables |
| `AddonStore` | cart, payments of a cart, sale, shortage, refund |
| `EzeeSync` | queue, worker, resending, status drift, eZee |
| `ColivePricing` | the four computations of a long stay's price (pure operators) |
| `Colive` | quotes, drafts, payment orders, and the draft's way into eZee |
| `Rooms` | beds: availability, its cache and estimate, orders, sales in eZee |
| `StayGuests` | links, slots and KYC submissions of one booking |
| `GuestAccounts` | one address: account, providers, codes |
| `CheckIn` | reservations taken in and followed, and the PINs asked for |
| `Caches` | who loads and who deletes which key |
| `MC*` | values of constants for TLC, symmetry sets |
| `*Proofs` | theorems about the module they are named after; `BookingPaymentProofs` also about `StockLedger`, `StayGuestsProofs` about `CheckIn`, `RoomsProofs` about `Caches` |

The modules meet at messages and rows that one of them abstracts: what
`BookingPayment` queues is where `EzeeSync` starts; a booking that fails there is a
`StartRollback` in `StayGuests` and an order that never reaches eZee in `Rooms`; a
row that `CheckIn` takes in is where `StayGuests` may start.

### Stock and StockLedger
A row of `inventory` is a function from counters to `Int`: Postgres integers
that nothing but the CHECK constraints keeps from going negative. `Legal` is
those constraints; an update that breaks one aborts its transaction, which in
the models is an action of its own. Reserve, release, finalise, sell, lend and
take back are one operator, `Move`. All updates in the code are relative
(`increment`, `decrement`), so they are functions of the row they find.

`StockLedger` promises only that units change place, arrive or are written off.
`BookingPayment`, `Lending` and `AddonStore` implement it (`Ledger == INSTANCE
StockLedger WITH stock <- stock, ...`, and `KeepsLedger` is its specification):
TLC checks it and TLAPS proves it for the three.

### BookingPayment

| variable | code |
|---|---|
| `booking[b]` | `ezee_booking_cache.status`, `is_active`; `access`: slots and APPROVED access rows exist; `kyc`: a form was submitted for one of the slots |
| `order[b]` | the addon order created with the booking: status, quantities |
| `payment[p]` | `payments`: status and booking; `recorded`: it has Razorpay's payment id |
| `paid` | what Razorpay captured (external) |
| `request[r]` | a call in progress: its next await, its payment, the addon order its rollback saw |
| `insertQueue` | bookings with an `INSERT_BOOKING` message |
| `stock` | `inventory` |

One action per await. A transaction is one step where its first statement locks
what it goes on to use (`FulfilTx`: the update of the booking row comes first,
and every other writer of the booking's order must lock that row before it
commits). `rollbackPendingBooking` reads the addon order before it holds a lock,
so `FindPendingOrder` and `RollbackTx` are two steps. `verifyPayment` and the
webhook both read the payment and call `fulfilOrder`, which reads and tests it
again: only the second read is kept. `Crash` stands for a process that stops, a
lost connection, a transaction's timeout, and a deadlock's victim.

Decisions: several payments may exist for one booking, for nothing forbids it;
`insertQueue` is a set (what a message sent twice does is `EzeeSync`'s subject);
rooms are left out, so `CreateBookingOrder` is guarded by the addons' stock
alone (the beds are in `Rooms`); carts of a pending booking are not edited; the
`devSimulate*` endpoints are left out. A guest may submit a KYC form before paying,
for `submitKyc` asks for access and not for the booking's status: then the foreign key
of `kyc_submissions` refuses the rollback (`RollbackAbort`). `deleteSlot` may take the
submission away again; whether it did is left open, so `RollbackTx` is possible too
(`StayGuests` has the slots and submissions one by one).

### Lending
A loan is a row of either checkout table; a call reads (`Start...`,
`ReadLoans...`), then writes in one transaction (`LendTx`, `ReturnTx`,
`DamageTx`), or aborts on a CHECK constraint. Only a guest's own request reads
the stock again under `FOR UPDATE` (`LendPossible`). `OVERDUE` is not in the
model: the code never writes it. `bought` is a history variable.
`updateProduct` is modelled as far as it lists or unlists.

### EzeeSync
Starts when payments have been captured: each booking's message was sent, was
lost (the producer only logs a failed send), or was sent twice (two captures at
once). Each group is a sequence; its first message is hidden while somebody
holds its receipt (`inFlight`), is dead-lettered after `MaxReceives`, and is
deleted only with a valid receipt. A handler is a few steps, one per call: read
the row, `InsertBooking`, store the number, `ProcessBooking`, `AddPayment`,
finish. A call may fail with its effect (`Called`) or without it (`Refused`).
A pass reads its bookings, then goes through them one by one.

`SlowCalls` says whether a handler may outlast its receipt. It is TRUE of the
code in principle (no timeout on `fetch`, 120 s of visibility); the runs and the
theorem that set it to FALSE say what holds while no handler does.

Abstracted: room details and the fetch-room step, room-number drift,
sub-reservations (the charge goes to the reservation), `handleUpdateReservation`
(a stub in the code), ingesting external bookings, lock provisioning (both in
`CheckIn`). A failed
first read of a handler is the same as `Crash` there; a handler that resets the
visibility of a deadlocked message is an early `Expire`. eZee is external: it
makes a reservation, confirms it, posts money, and the front desk checks guests
in and out; a terminal status stays.

### AddonStore
`call[c]` is a running call: its next await and what it has read. One action per
await, and the transaction of `fulfilOrder` is one step, for it begins by locking
the inventory rows. Merged, because nothing can tell: opening a payment and linking
it to the cart; the cart and its payment read together; the payment's status and
its order looked up together at the start of a fulfilment. The shelf starts empty
and staff put a unit on it (`RestockUnit`), so that a shortage comes and goes.
Services without stock are left out. `charged` is the set of orders with an
`ADD_EXTRA_CHARGE` message.

### ColivePricing and Colive
A stay's price is computed by the search (the cheapest room), the room's detail,
the quote and the draft, which adds the quote's tax to addons it adds up anew: each
is an operator, with the code's rounding and its months of thirty days. eZee's answer
is a list of rows in which a room may occur more than once: the search takes a room's
last row (`new Map`), the detail and the quote its first (`find`). In `Colive` rates
change and fail between the steps. The draft's request names room, days and addons
again, and none is compared with the quote's. A draft has no `payments` row and no
webhook: only the guest's verification confirms it. `createColiveOrder` tests the
status, asks Razorpay for the amount that the request names, which nobody compares
with the draft's total, then writes `pending_payment` by id, so a confirmed draft can
be opened again, and the payment of a replaced order can no longer be verified. The
comment of `createDraft` says it validates room availability; the code never asks
eZee, and neither does the model.

The handler stops where a number is stored. Any number of handlers may run one
message beside each other, for its receipt may expire while the first is at work:
`overlapped` (history) names the drafts this happened to. Two of them both find no
number, both insert, and what holds then is less: `PostedOnce` and
`SyncedIsProcessed` say how much less.

### Rooms
`booking[b]` is a row of `ezee_booking_cache` and its reservation: *ordered* by a
guest, *sold* or *refused* when the worker inserts it, *shown* when the worker has
deleted the key of its dates, *elsewhere* when another channel sold it. A cached
value keeps what it shows, whether it is eZee's or estimated, and (history) which
bookings were in eZee when it was read. An estimate counts other channels' rows,
of those any subset that has been ingested, and none of ours: their
`room_type_name` is `<name> x<quantity>`. `cache.del` and `cache.get` may fail; a
`set` that fails is an expiry. Merged: payment, which `BookingPayment` has, is
between order and insertion; the selection is chosen when the booking is created.
One room type; prices are left out; no booking leaves eZee. A key is identified with
its dates: the worker spells them YYYY-MM-DD, a search as its request did, so this
holds of requests in that form only (another spelling of a date has a key of its own,
which no sale deletes).

### StayGuests
One action per statement of `linkBooking`, `ensureSlots`, `autoLinkBookings`,
`addSlot`, `submitKyc` and `deleteSlot`; the check of access and the read of the
slot at the start of the last two are one. The unique keys and the foreign key from
submissions to slots (`onDelete: NoAction`) are the database's part. A rollback of
the booking is one transaction and fails as a whole when a slot has a submission.
`VERIFIED` is written by no code. A booking starts as a pending order of ours or as
a row taken in from eZee.

### GuestAccounts
One address, one account, one Google identity. A code has a purpose, an age
(*recent* while it counts for the rate limit, *valid* until `expires_at`), a mail
that went or not, and (history) how many requests it has served: it is compared,
then marked by id, so requests that overlap share one. A sign-up whose mail fails
keeps its row; other senders take theirs back. The two lookups of a Google sign-in
are one step. Passwords and tokens are abstracted; linking bookings at sign-up is in
`StayGuests`.

### CheckIn
Rows are named as in the code: `TDS-...` for our own bookings, `EZEE-...` for those
a pass took in, so one reservation may come to have both. A pass reads its rows
(`Begin`), fetches and updates them one by one, lists arrivals, and takes in what it
does not know; the list of arrivals and the question which are known are one step.
`job` is a provisioning in the background; asking for an active PIN goes out before
the row is updated. MyGate answers without the PIN, so accesses are listed and the
first with the name and start time is taken. The name is that of guest and room
(`<guest> — Room <number>`), so two guests of one name, or one guest's two
reservations, have the same in a room on one day: `name` gives each reservation its
guest's, or *Guest* where none is linked. Arrivals are listed for a window of days
only, from `Back` days ago to `Ahead` days on (1 and 28 in the code), while days go by:
a reservation entered after its arrival, or whose days pass while no pass gets through,
is never taken in. eZee may have reservations before the first pass. Left out: a change
of the day of arrival, rooms without a lock, MyGate's cached session (a login that
fails is `NoSession`).

### Caches
For each of the nine functions, the tables it reads and its key; for each of the
nineteen mutations, the tables it writes and, in order, the keys it deletes, which is
all the model says about them. Of a value are kept its function, the tables that have
changed since it was put (`behind`), and whether it was *missed*: put by a load that
had read the old rows, or not deleted because the deletion was cut or Redis did not
answer (logged and forgotten, as in `del()`). A value that no deletion was meant for
just stays behind. The mutations do not keep what `invalidatePropertyCache` says of
itself (section 6), so `EditsAreForgotten` is about products and accounts only.

## 3. Runs, bounds and what they show

`CHECK_DEADLOCK FALSE` is set where guests may stop, queues be empty and every row
of the instance used, and then nothing has to happen; `GuestAccounts` and `CheckIn`
are checked for deadlock. Symmetry is used for safety only, over sets of model
values that no formula orders.

### Passing runs

| run | instance | shows |
|---|---|---|
| `booking_payment` | 2 bookings, 2 payments, 2 requests, 2 towels, one in a basket, 1 crash; one booking's guest may submit a KYC form | `HonouredWasPaid`, `PendingIsWhole`, `NoLeakedReservation`, `SentAfterCommit`, `RequestsStaySound`, the refinement `KeepsLedger`; captured money is recorded although a request dies (`CapturedIsRecorded`), a failed payment frees its booking (`FailedReleasesBooking`) unless a request died, a stale rollback took its units or its guest had submitted a form |
| `lending_safety` | 1 umbrella to borrow, 1 kind of towel to issue, 1 stay, 2 loans, 2 calls, 2 units each, quantities 1 and 2 | `LentIsAccounted`, `BoughtIsAccounted`, `KeepsLedger` |
| `addon_store` | 1 stay, 2 carts, 2 items, 2 payments, 2 calls, 1 unit that arrives | `HonouredWasPaid`, `CapturedIsDecided`, `KeepsLedger` |
| `ezee_sync_safety` | 1 booking, 2 workers with slow handlers, 2 overlapping passes, 2 numbers, 2 receptions | `PaidIsProcessed` with duplicates and two handlers of one message, `NeverAhead` with overlapping passes and several reservations of a booking |
| `ezee_sync_liveness` | 1 booking, 2 workers, 1 pass, 3 numbers, 3 receptions, 1 addon order, 2 faults | every booking gets a number in eZee in the end (`EventuallySynced`), and while receipts outlive handlers the number never changes (`NumberStays`) |
| `colive` | 2 rooms, one of them with 2 rows, 2 addons, 2 durations, rates that change and fail, 1 quote, 1 draft, 2 Razorpay orders over 0 or 1, 2 calls, 2 handlers, 2 reservations | `SearchAgreesWithDetail` (where a room's rows agree), `DraftCostsAsQuoted`, `ConfirmedWasPaid`, `PostedOnce` and `SyncedIsProcessed` with handlers beside each other |
| `rooms` | 1 bed, 2 nights, 2 cached ranges that overlap, 2 bookings, 2 requests, 1 or 2 selections | `NothingOlder`, `ShortForAReason` |
| `stay_guests` | a booking for 1, 2 guests, 2 slots, 2 submissions, 2 calls | `SubmitterIsLinked`, `PreVerifiedMeansSubmitted`, `HolderIsLinked` |
| `guest_accounts` | 2 requests, 2 codes | `WaitsForAMail`, `ServesOnlyOverlapping`, `VerifiedByProof` |
| `check_in` | 1 reservation, ours or not, with an account or not, beside it one of a namesake, 1 room, 3 days of which arrivals are listed on one, 2 passes, 3 events, 1 fault | `TwoPinsOverlapped`, `UnknownPinIsExplained`, `DriftGoesAway`, `KnownInTheEnd` |
| `caches` | all keys, tables and mutations, 2 requests, 2 changes, 2 values cached at a time | `EditsAreForgotten`, `FreshInTheEnd` |

Why these bounds are enough to meet the interesting cases. Two units and two
bookings are the least for which one booking's rollback can touch what another
reserved, and two requests let a capture and a failure call of one payment, or the
captures of two payments of one booking, overlap; three requests change nothing that
the theorems of section 5 do not cover. Two calls and two loans are the least for
which a return is verified twice while another loan of the product is open. In
`AddonStore` two carts, two payments and two calls race for the one unit, for one
cart's payment, or for one row. In `EzeeSync` one booking suffices, for groups do
not interact except through workers; the queue may start with two messages, the
least that repeat a handler. In `Rooms` one bed and two requests are the last bed
and its two buyers, and two ranges that share a night are what one deletion does
not cover. In `StayGuests`, `GuestAccounts` and `Caches` races are between two
requests over one row, slot, code or key; a third would repeat one of them. In
`CheckIn` reservations share nothing but a name, so the second one is a namesake that
eZee has from the beginning; the one room and day make the two names equal whenever
both have a PIN. Of three days one is listed, which is enough for a reservation to be
entered too early, in time or too late.

What the code does not bound is capped: requests that die by `MaxCrashes`;
restocking by `MaxBought` or `MaxTotal`, the quantities of a call by `Quantities` or
`MaxQuantity`; failing calls and stopping processes by `MaxFaults`, payments told
apart by `MaxPaid`, addon orders by `MaxOrders`, the messages of a group by
`MaxQueue` (a resend into a full group is dropped, as a failed send is),
reservations of a draft by `MaxStays`, amounts of its orders by `Amounts`, guests who
submit a form before paying by `Submitting`, what happens in eZee by `MaxEvents`, days
by `MaxDays`, slots,
their numbers and submissions by `MaxSlots`, `MaxNumber` and the set `Submissions`, codes by
`MaxCodes`, changes of tables by `MaxChanges` and keys with a value by `MaxCached`.
`MaxReceives` is 2 in `ezee_sync_safety`, whose slow handlers make repetitions
enough, and the code's 3 elsewhere; `MaxUnits` is 2 in `rooms` and 6 in the code;
`Back` and `Ahead` are 0 in `check_in`, 1 and 28 in the code.

Two runs cut states by a constraint. `Settled` (`MCColive`): once an order is opened for
the draft, nothing that follows reads the rates or the quote, and nothing done to those
reads what follows, so TLC goes on only from the states in which the rates are gone and
the quote has expired, which exist for every draft. `OneOrBoth` (`MCCheckIn`): overlap
and faults begin on the day that is listed, and while the namesake's reservation is not
cancelled neither reservation is ours, passes do not overlap and nothing fails; the two
PINs of one name need none of that, and each reservation alone meets the rest. The
invariants are proved without the constraints (section 5); for `DriftGoesAway` and
`KnownInTheEnd` the run shows no more than the states it has.

Failures and slow handlers are in different runs (`ezee_sync_safety` has no faults,
`ezee_sync_liveness` no slow handlers); the theorems of section 5 hold for every
value of these constants.

The type invariants of `BookingPayment`, `Lending` and `EzeeSync` are in their runs;
the other modules define theirs, which describe the shape of the state, and their
runs are kept for what a step can break. Those of `AddonStore`, `Colive`,
`StayGuests`, `GuestAccounts`, `Rooms`, `CheckIn` and `Caches` are proved (section 5).

### The run that finds a violation
`rooms_served_as_products` has the instance of `caches`; section 6.

## 4. Fairness

- `BookingPayment`: as long as requests are running one of them goes on (weak
  fairness; the event loop serves every settled await, which is more). Strong
  fairness of starting a fulfilment: Razorpay
  repeats the webhook of a captured payment until it is answered with success,
  and it is not before the payment is recorded. Guests, the browser and failure
  calls owe nothing. `CapturedIsRecorded` is excused when a stale rollback has
  taken another booking's reservation (then the capture's transaction breaks a
  CHECK for ever; section 6). `FailedReleasesBooking` is excused by the same, by a
  request that died, and by a KYC form: the rollback is refused, and with the payment
  FAILED the repeated call returns early.
- `EzeeSync`: weak fairness of a running handler, of passes (timers go on for
  ever), of dead-lettering and of the end of a visibility timeout; strong
  fairness of receiving from each group, for SQS serves every group and loops
  are idle again and again. Faults are bounded and not fair: something that is
  down for ever keeps nothing in step. Front desk and guests owe nothing.
- `CheckIn`: the timer's pass begins again and again and what it or its provisionings
  wait for is answered (one weak fairness condition for all of it), for `setInterval`
  never stops; staff need not start a pass nor theirs end, the worker need not store a
  number, and faults are bounded. Days need not go by.
- `Caches`: a value that has expired is dropped (each is stored with a time to
  live). Nothing else is assumed, so freshness never relies on a deletion that may
  fail.
- `Lending`, `AddonStore`, `Colive`, `Rooms`, `StayGuests` and `GuestAccounts`
  promise nothing in time: what they begin may be cut at any await, and nothing in
  the code takes it up again but the guest.

## 5. Proofs

All theorems hold for any sets of bookings, payments, requests, products,
workers, passes..., from the assumptions on constants named in the modules
(finite sets where something is counted, natural numbers, null values outside
their sets). TLC evaluates those assumptions on each run.

**BookingPaymentProofs.** The inductive invariant is `TypeOK /\
RequestsStaySound`. The safety properties are not inductive alone: a rollback
that is about to write has read its order long ago, and whether its release is
the one it should be depends on what other requests did meanwhile.
`RequestsStaySound` is what survives: the payment being fulfilled was captured,
the order that a rollback found asks for the same units if it is still there,
and a rollback that found none has none to miss. From it:
`TypeCorrect`, `RequestsSound`, `StockIsConserved`, `HonouredIsPaid`,
`BookingsAreWhole`, `SentOnlyAfterCommit`, `NothingLeaks` (with lemmas on the
cardinality of the units that orders ask for) and `ImplementsLedger` (every step
is a ledger step or leaves the stock alone). At the end of the module stands what
anything that implements the ledger inherits, the lending desk and the store too:
each step of the abstract ledger keeps a row `Conserved` and takes from one place what
it gives to another, hence `LedgerIsSafe`: every row stays legal and conserved.

**LendingProofs.** The invariant is type correctness, that loans are of known
products, and that what a running call holds is real (`SoundCall`).
`NothingDisappears`, `LentToSomebody` (an inequality: a return verified twice
refutes the equality) and `ImplementsLedger`.

**EzeeSyncProofs.** The invariant is type correctness, that receipts belong to
messages, that stored numbers are of reservations of that booking, that a
handler past `ProcessBooking` holds a reservation that eZee confirmed, and that
what a pass found has been true of a reservation. It covers slow handlers, faults
and drafts, for any numbers of workers and passes. `PaidAreProcessed`,
`RowsFollow` and, with the further invariant that a group has one handler at a
time while receipts outlive handlers, `NumberIsForEver`:
`~SlowCalls => (Spec => NumberStays)`.

**AddonStoreProofs.** `HonouredWasPaid` and `CapturedIsDecided` speak of an order's
payment, but a call acts on the payment it read some awaits ago, which may have been
unlinked or replaced since. The inductive invariant adds `LinksAgree` (the order and
the payment that name each other agree, and what was captured was opened) and
`SoundCall`: a call about to fulfil holds a captured payment of that very order, and
one about to charge, a decided order. `HonouredIsPaid`, `CapturedDecides` and
`ImplementsLedger`.

**StayGuestsProofs.** Access is checked once, at the start of a call, and links and
slots may be rolled back under it. What survives is tied to the slot: as long as the
slot of a running call exists its guest is linked (`SoundCall`), for a rollback takes
slots and links together; and a slot with a submission cannot go (the foreign key;
`SubmittedForASlot` ties each submission to one). With the bound on slot numbers that `addSlot` needs, this gives
`SubmittersAreLinked`, `CompletedWasSubmitted` and `HoldersAreLinked`.

**ColiveProofs.** First the prices: a sum over any finite set of addons is a number,
so every computed price is; what `createDraftBooking` adds up from a quote's own
request is what `createQuote` said (`DraftCostsTheQuote`); and search and detail agree
on any answer, however many rows a room has in it, on the rooms whose first and last
row do (`RatesAgree`). Then the inductive invariant: quotes and drafts cost what
they say (`SoundQuote`, `SoundDraft`), an order is of one draft for ever, a call about
to confirm holds a paid order, and a handler's step tells what is true of the
reservation it made itself (`SoundHandler`), however many run. What the draft's number
tells (`Numbered`) is kept as long as one handler at a time has the draft's message;
what remains of it when two have is `Promised`. `SearchAgrees`, `DraftsCostTheirQuote`,
`ConfirmedIsPaid`, `PaymentPostedOnce` and `SyncedWasProcessed`. None of them says that
the amount charged is the draft's total, which the code does not see to.

**GuestAccountsProofs.** No single property is inductive. `Mailing` names the witness
that `WaitsForAMail` leaves open: not any request that knows the code, but the one
that is to mail it or to take it back. `Counted` bounds together the requests that a
code has served and those that compared it and have yet to mark it: the first can
only grow by one of the second, and nobody joins those once the code is marked.
`Sound` says that the row a request holds is of its purpose. `WaitingGetsAMail`,
`ServesOverlapping` and `VerifiedIsProved`.

**CheckIn** (at the end of StayGuestsProofs). A pass asks for a PIN when it
sees none and the PIN is made some calls later, found by a name that other guests and
the guest's other rows may have. `LockInv` says of a row that was never provisioned
twice at a time that it has one provisioning, or one PIN, or neither (`OneAtATime`);
of a row without a PIN, that no access was made for it that was not lost (`NothingKept`);
and of every access, that it is stored or why it is not (`Explained`): when a PIN is
made and an older access is taken for it, the older one is not the row's own, for then
the row had a PIN, or two provisionings, or had lost it. `TwoPins` and `PinsExplained`.

**RoomsProofs.** What an answer of eZee knows is fixed when it is given, and what a key
owes only grows until the key is deleted again: `SoundCache` and `SoundCall` say that
every answer, cached or in flight, knows what its key owed when it was asked for, which
gives `NothingIsOlder`. For `ShortOnlyForAReason` an answer must also leave, on every
night, no more than the bookings it knows leave free: bookings in eZee never change
their nights, so this survives everything others do meanwhile, and since eZee itself
never oversells, an order that an answer admits and that finds no bed has been overtaken
by a booking the answer did not know. It rests on lemmas about sums and minima over
finite sets (the beds taken on a night, the least free night of a range).

**Caches** (at the end of RoomsProofs). `EditsAreForgotten` is inductive
only with `Covered`: of the products and accounts that a running change has yet to write
(`Edited`), every key of the property or session (`Promises`) that may hold a value
loaded from them is on the change's list of deletions. This is checked against the
tables that each of the nine functions reads and the lists of the nineteen mutations;
it fails for the stock and for the owner's lists. `EditsForgotten`.

**Assumptions.** Beyond types: counted sets are finite (`Calls`, `Items`, `Rooms`,
`Addons`, the nights of a range), null values are outside their sets, eZee's answers are
sequences of rows of numbers, none of them empty, for listed rooms
(`AnswersAssumption`), days are integers (`WindowAssumption`). Each is in the module that declares the
constant, and TLC evaluates it on every run. `StayGuestsProofs` and `RoomsProofs` extend
two components each; the two share nothing, which is why the specifications of `CheckIn`
and `Caches` bear the component's name (`CheckInSpec`, `CachesSpec`).

**Numbers and sets.** That a set of numbers has a lowest or, if bounded, a highest
element, and that a sum over a finite set is a number, is shown by least
counterexample (`WFMin` of the well-founded induction theorems), for the library's
induction rules take an operator as their parameter and cannot be applied here.

**Only model-checked**: `CapturedIsRecorded`, `FailedReleasesBooking`,
`EventuallySynced`, `DriftGoesAway`, `KnownInTheEnd` and `FreshInTheEnd` (liveness
under fairness is out of this prover's reach).

## 6. Divergences found

`rooms_served_as_products`: `getRoomCatalog` caches under the key of the store's
catalogue. Whichever is asked first is the answer to both for ten minutes: a list of
rooms is served where products are asked for, or the other way round.

The models reach more, each listed with its line under "hazards" in `PROJECT.json`.
A property could only restate what the code does, or is stated with the exception:

- *Payments*: a failure call that read the payment before its capture writes FAILED
  over CAPTURED; a capture after a failed attempt confirms the cancelled booking,
  without slots, access and addons; a rollback cancels a booking confirmed meanwhile
  and releases units that another booking reserved (`~ReservationsIntact`); a request
  that dies between FAILED and the rollback leaves the booking pending, for its
  repetition returns early; the second of two captures of one addon payment finds
  none left and marks an order that was sold for a refund; a KYC form submitted for an
  unpaid stay makes every rollback of it fail, and since the payment is FAILED before
  that, the repeated call returns early: the booking stays pending for ever, with its
  units reserved, without any crash.
- *Long stays*: the amount of the order is the request's, so a confirmed draft says it
  was paid its total whatever was charged; the room of the draft need not be the quoted
  one; a room that eZee lists twice has one price in the search and another on the page;
  two handlers beside each other make two reservations, post the payment to both, and
  SYNCED may be shown of the one that is not confirmed.
- *Lending*: two verifications of one return both pass; more is issued than was
  ordered, or two are lent to a guest who asks twice.
- *eZee*: the number only skips the insertion, so a repeated handler posts a nightly
  booking's payment again; a total price is multiplied by the quantity once more; a
  booking with a number but not confirmed in eZee is found by no query; the number
  lost between eZee's answer and our update gives two reservations; a charge that
  comes before the booking's number is dead-lettered; the retry of a draft stops at
  the number that a failed run stored; a slow pass writes CHECKED_IN over a status
  that has ended.
- *Check-in*: a booking of ours is taken in a second time if its number was not yet
  stored, and then has two rows and two PINs; the PIN of a guest without an account
  is made and cannot be stored; a provisioning that failed is never tried again; guests
  of one name in one room on one day are given one PIN, and nobody knows the other; a
  reservation that no pass has seen by the day after its arrival is never taken in.
- *Caches*: `invalidatePropertyCache` says "Called after any product or inventory
  mutation" (`src/src/redis/cache.service.ts`); creating and rolling back a booking
  change the stock and call it not at all, and creating a product, lending returnables,
  a guest's borrowing and captures call it for the property but not for the owner's
  lists of all properties. What they leave stays until its time to live is over.
- *Rooms*: an order of two selections of one type is checked one by one; the
  estimate never counts our own bookings; a sale outdates the values of its own dates
  only, not of others that share a night.

## 7. What is not modelled

- The demand forecast of returnables, staff listings and roles, KYC documents in S3
  and their text recognition, MyGate's two revocations (nothing calls them), the
  read-only endpoints: single reads, or writes of one row that nobody else relies on.
- Carts of a booking that is still pending: `AddonStore` has carts of a stay,
  `BookingPayment` the order made with the booking.
- A booking whose guest never pays keeps PENDING_PAYMENT and its reserved units:
  `expires_at` is written and read nowhere, so the model has no action that ends
  it either.
- `deleteProduct`, `createProduct` and thresholds as changes of the stock (what they
  delete from the cache is in `Caches`): single statements over rows nobody holds,
  except the hazard listed for `deleteProduct`.
- Pure I/O, templates, listings, routing, DTO validation, the development
  endpoints: no state whose order matters.

## 8. Plan

The order is by what a wrong interleaving costs.

1. Done: the modules of section 2, and the proofs of section 5: every invariant and
   every action property that a run checks is a theorem.
2. More of the code per module, with its proofs kept: room-number drift and the
   sub-reservations of a booking in `EzeeSync`.
3. A composition of `AddonStore` with `BookingPayment`, in which a guest edits the
   order of a booking that is still pending, and an end-to-end specification of a
   stay (paid, confirmed, in eZee) that `BookingPayment` and `EzeeSync` implement.
