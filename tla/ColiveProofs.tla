---------------------------- MODULE ColiveProofs ----------------------------
(***************************************************************************)
(* Proofs about Colive and the prices of ColivePricing, for every          *)
(* catalogue of rooms and addons, all rates eZee may answer, and any       *)
(* number of drafts, orders, overlapping payment calls and handlers.        *)
(***************************************************************************)
EXTENDS Colive, FiniteSetTheorems, SequenceTheorems, WellFoundedInduction, TLAPS

\* Some order of the draft was paid, and not for nothing.
Backed(d) == \E r \in paid : opened[r].draft = d /\ opened[r].amount > 0

\* An order is of one draft, for ever, it is for an amount, and only opened
\* orders are paid.
OrdersAreOfDrafts ==
    /\ \A d \in Drafts : \A r \in RzpOrders : draft[d].order = r => opened[r].draft = d
    /\ \A r \in RzpOrders : opened[r] # Unopened => opened[r].amount > 0
    /\ \A r \in paid : opened[r] # Unopened

\* What a running call relies on.
SoundCall(c) ==
    /\ call[c].at # "idle" => call[c].draft \in Drafts
    /\ call[c].at = "open_order" => call[c].amount > 0
    /\ call[c].at \in {"confirm", "send"} => Backed(call[c].draft)

\* What a quote says is what its own request costs, if nothing was skipped.
SoundQuote(q) ==
    quote[q].status # "none" /\ Chosen(quote[q].wanted) \subseteq OnSale =>
        DraftTotal(quote[q].price, quote[q].days, quote[q].wanted) = quote[q].price.grand

\* A draft was added up from the quote it names, which stays as it was.
SoundDraft(d) ==
    \A q \in Quotes : draft[d].quote = q =>
        /\ quote[q].status # "none" /\ Chosen(draft[d].wanted) \subseteq OnSale
        /\ draft[d].total = DraftTotal(quote[q].price, draft[d].days, draft[d].wanted)

\* What a handler relies on: its draft was paid, its own reservation was made,
\* and was processed before a payment is posted to it.
SoundHandler(h) ==
    LET d == handler[h].draft
    IN  /\ handler[h].at = "idle" <=> d = NoDraft
        /\ d # NoDraft => d \in Drafts /\ Backed(d)
        /\ handler[h].at \in {"store", "process", "pay", "finish"} =>
              handler[h].mine \in 1..stay[d].made
        /\ handler[h].at \in {"pay", "finish"} => handler[h].mine \in stay[d].processed

\* What the number of a draft says while one handler at a time has its message:
\* that handler stored it, or it names the only reservation that was paid for.
Numbered(d) ==
    /\ \A h, k \in Handlers : handler[h].draft = d /\ handler[k].draft = d => h = k
    /\ \A h \in Handlers : handler[h].draft = d =>
          /\ handler[h].at \in {"insert", "store"} => draft[d].number = 0
          /\ handler[h].at \in {"process", "pay", "finish"} =>
                draft[d].number = handler[h].mine
    /\ draft[d].number = 0 => stay[d].posted = {}
    /\ stay[d].posted \subseteq {draft[d].number}
    /\ draft[d].sync = "SYNCED" => draft[d].number \in stay[d].processed

\* What is promised of a draft whoever handles it.
Promised(d) ==
    /\ stay[d].posted \subseteq stay[d].processed
    /\ draft[d].sync = "SYNCED" => stay[d].processed # {}

\* The inductive invariant.
Inv ==
    /\ TypeOK
    /\ \A q \in Quotes : SoundQuote(q)
    /\ \A d \in Drafts : SoundDraft(d)
    /\ OrdersAreOfDrafts
    /\ \A c \in Calls : SoundCall(c)
    /\ ConfirmedWasPaid
    /\ \A h \in Handlers : SoundHandler(h)
    /\ \A d \in Drafts : Promised(d) /\ (d \in overlapped \/ Numbered(d))
-----------------------------------------------------------------------------
(* Minimum and sum of finite sets.                                         *)

\* A set of numbers has a lowest one: induction, told as least counterexample.
LEMMA HasLowest ==
    ASSUME NEW S \in SUBSET Nat, S # {}
    PROVE  \E low \in S : \A m \in S : low <= m
<1>1. PICK low \in S : \A m \in S : <<m, low>> \notin OpToRel(<, Nat)
  BY NatLessThanWellFounded, WFMin
<1>2. ASSUME NEW m \in S
      PROVE  low <= m
  <2>1. m \in Nat /\ low \in Nat
    OBVIOUS
  <2>2. ~(m < low)
    BY <1>1, <2>1 DEF OpToRel
  <2>3. QED
    BY <2>1, <2>2
<1>3. QED
  BY <1>2

LEMMA FiniteHasMin ==
    ASSUME NEW S \in SUBSET Int, S # {}, IsFiniteSet(S)
    PROVE  Min(S) \in S /\ \A x \in S : Min(S) <= x
<1> DEFINE HasMin(T) == \E x \in T : \A y \in T : x <= y
           sizes == {Cardinality(T) : T \in {U \in SUBSET S : U # {} /\ ~HasMin(U)}}
<1>1. \A T \in SUBSET S : IsFiniteSet(T) /\ Cardinality(T) \in Nat
  BY FS_Subset, FS_CardinalityType
<1>2. SUFFICES ASSUME ~HasMin(S) PROVE FALSE
  BY DEF Min
<1>3. sizes \subseteq Nat /\ sizes # {}
  BY <1>1, <1>2
<1> HIDE DEF HasMin
<1>4. PICK low \in sizes : \A m \in sizes : low <= m
  BY <1>3, HasLowest
<1>5. PICK T \in SUBSET S : T # {} /\ ~HasMin(T) /\ Cardinality(T) = low
  BY <1>4
<1>6. PICK x \in T : TRUE
  BY <1>5
<1>7. /\ T \ {x} \in SUBSET S
      /\ Cardinality(T \ {x}) < Cardinality(T)
  BY <1>1, <1>5, <1>6, FS_RemoveElement
<1>8. T \ {x} = {} \/ HasMin(T \ {x})
  BY <1>1, <1>3, <1>4, <1>5, <1>7
<1>9. HasMin(T)
  <2>1. CASE T \ {x} = {}
    BY <1>6, <2>1 DEF HasMin
  <2>2. CASE HasMin(T \ {x})
    <3>1. PICK m \in T \ {x} : \A y \in T \ {x} : m <= y
      BY <2>2 DEF HasMin
    <3>2. x \in Int /\ m \in Int /\ \A y \in T : y \in Int
      OBVIOUS
    <3>3. CASE m <= x
      BY <3>1, <3>3 DEF HasMin
    <3>4. CASE x <= m
      BY <3>1, <3>2, <3>4 DEF HasMin
    <3>5. QED
      BY <3>2, <3>3, <3>4
  <2>3. QED
    BY <1>8, <2>1, <2>2
<1>10. QED
  BY <1>5, <1>9

\* The sum over a finite set of addons is the number that its recursion says.
LEMMA AddonTotalIsNat ==
    ASSUME NEW S, IsFiniteSet(S), NEW wanted, NEW days,
           \A addon \in S : AddonLine(addon, wanted[addon], days) \in Nat
    PROVE  AddonTotal(S, wanted, days) \in Nat
<1> DEFINE line(addon) == AddonLine(addon, wanted[addon], days)
           pick(s) == CHOOSE addon \in s : TRUE
           next(g, s) == IF s = {} THEN 0 ELSE line(pick(s)) + g[s \ {pick(s)}]
           Sums(g) == g = [s \in SUBSET S |-> next(g, s)]
           upTo(n) == {s \in SUBSET S : Cardinality(s) <= n}
           SumsTo(n, g) == g = [s \in upTo(n) |-> next(g, s)]
<1>1. AddonTotal(S, wanted, days) = (CHOOSE g : Sums(g))[S]
  BY DEF AddonTotal, MapThenSumSet, MapThenFoldSet
<1>2. \A s \in SUBSET S : IsFiniteSet(s) /\ Cardinality(s) \in Nat
  BY FS_Subset, FS_CardinalityType
<1>3. ASSUME NEW s \in SUBSET S, s # {}
      PROVE  /\ pick(s) \in s /\ s \ {pick(s)} \in SUBSET S
             /\ Cardinality(s \ {pick(s)}) = Cardinality(s) - 1
  BY <1>2, <1>3, FS_RemoveElement
<1>4. \A s \in SUBSET S : Cardinality(s) = 0 => s = {}
  BY <1>2, FS_EmptySet
<1> HIDE DEF pick, line
<1>5. \A n \in Nat : \E g : SumsTo(n, g)
  <2> DEFINE bad == {n \in Nat : ~\E g : SumsTo(n, g)}
  <2> SUFFICES ASSUME bad # {} PROVE FALSE
    OBVIOUS
  <2> HIDE DEF SumsTo
  <2>1. PICK n \in bad : \A m \in bad : n <= m
    BY HasLowest
  <2>2. CASE n = 0
    <3>1. \A s \in upTo(0) : s = {}
      BY <1>2, <1>4
    <3>2. SumsTo(0, [s \in upTo(0) |-> 0])
      BY <3>1 DEF SumsTo
    <3>3. QED
      BY <2>1, <2>2, <3>2
  <2>3. CASE n # 0
    <3>1. n - 1 \in Nat /\ n - 1 \notin bad
      BY <2>1, <2>3
    <3>2. PICK g : SumsTo(n - 1, g)
      BY <3>1
    <3> DEFINE h == [s \in upTo(n) |-> next(g, s)]
    <3>3. \A s \in upTo(n - 1) : s \in upTo(n) /\ h[s] = g[s]
      <4>1. \A s \in upTo(n - 1) : g[s] = next(g, s)
        BY <3>2 DEF SumsTo
      <4>2. upTo(n - 1) \subseteq upTo(n)
        BY <1>2, <3>1
      <4>3. QED
        BY <4>1, <4>2
    <3>4. ASSUME NEW s \in upTo(n)
          PROVE  h[s] = next(h, s)
      <4>1. CASE s = {}
        BY <4>1
      <4>2. CASE s # {}
        <5>1. s \ {pick(s)} \in upTo(n - 1)
          BY <1>2, <1>3, <3>1, <4>2
        <5>2. h[s \ {pick(s)}] = g[s \ {pick(s)}]
          BY <3>3, <5>1
        <5>3. QED
          BY <4>2, <5>2
      <4>3. QED
        BY <4>1, <4>2
    <3>5. h = [s \in upTo(n) |-> h[s]]
      OBVIOUS
    <3> HIDE DEF h
    <3>6. SumsTo(n, h)
      BY <3>4, <3>5 DEF SumsTo
    <3>7. QED
      BY <2>1, <3>6
  <2>4. QED
    BY <2>2, <2>3
<1>6. \E g : Sums(g)
  <2>1. PICK g : SumsTo(Cardinality(S), g)
    BY <1>2, <1>5
  <2>2. upTo(Cardinality(S)) = SUBSET S
    BY FS_Subset
  <2>3. QED
    BY <2>1, <2>2
<1>7. ASSUME NEW g, Sums(g)
      PROVE  g[S] \in Nat
  <2> DEFINE sizes == {Cardinality(s) : s \in {t \in SUBSET S : g[t] \notin Nat}}
  <2>1. SUFFICES ASSUME sizes # {} PROVE FALSE
    OBVIOUS
  <2>2. sizes \subseteq Nat
    BY <1>2
  <2>3. PICK low \in sizes : \A m \in sizes : low <= m
    BY <2>1, <2>2, HasLowest
  <2>4. PICK s \in SUBSET S : g[s] \notin Nat /\ Cardinality(s) = low
    BY <2>3
  <2>5. g[s] = next(g, s)
    BY <1>7
  <2>6. s # {}
    BY <2>4, <2>5
  <2>7. g[s \ {pick(s)}] \in Nat
    <3>1. s \ {pick(s)} \in SUBSET S /\ Cardinality(s \ {pick(s)}) = low - 1
      BY <1>3, <2>4, <2>6
    <3>2. low \in Nat
      BY <2>2
    <3>3. Cardinality(s \ {pick(s)}) \notin sizes
      BY <2>3, <3>1, <3>2
    <3>4. QED
      BY <3>1, <3>3
  <2>8. line(pick(s)) \in Nat
    BY <1>3, <2>6 DEF line
  <2>9. QED
    BY <2>4, <2>5, <2>6, <2>7, <2>8
<1>8. QED
  BY <1>1, <1>6, <1>7
-----------------------------------------------------------------------------
(* Prices. *)

LEMMA TaxIsNat == \A amount \in Nat : Tax(amount) \in Nat
BY DEF Tax, Rounded

\* A line is a price times a quantity that is never more than allowed.
LEMMA AddonLineIsNat ==
    ASSUME NEW addon \in Addons, NEW quantity \in Nat, NEW days \in Nat
    PROVE  AddonLine(addon, quantity, days) \in Nat
<1>1. UnitPrice[addon] \in Nat /\ MaxQuantity[addon] \in Nat
  BY PriceAssumption
<1>2. Min({quantity, MaxQuantity[addon]}) \in Nat
  <2>1. \E x \in {quantity, MaxQuantity[addon]} :
           \A y \in {quantity, MaxQuantity[addon]} : x <= y
    BY <1>1
  <2>2. Min({quantity, MaxQuantity[addon]}) \in {quantity, MaxQuantity[addon]}
    BY <2>1 DEF Min
  <2>3. QED
    BY <1>1, <2>2
<1>3. (IF addon \in PerMonth THEN Months(days) ELSE 1) \in Nat
  BY DEF Months
<1>4. \A a, b \in Nat : a * b \in Nat
  OBVIOUS
<1>5. QED
  BY <1>1, <1>2, <1>3, <1>4 DEF AddonLine

\* Whatever eZee answered, or did not, a quote and a draft have a price.
LEMMA AddonTotalsAreNat ==
    ASSUME NEW wanted \in [Addons -> Nat], NEW days \in Nat, NEW S \in SUBSET Addons
    PROVE  AddonTotal(S, wanted, days) \in Nat
<1>1. IsFiniteSet(S)
  BY TablesAssumption, FS_Subset
<1>2. \A addon \in S : AddonLine(addon, wanted[addon], days) \in Nat
  BY AddonLineIsNat
<1>3. QED
  BY <1>1, <1>2, AddonTotalIsNat

\* The rows that count are rows of eZee's answer.
Listing(rates) ==
    \A room \in Rooms : room \in DOMAIN rates =>
        rates[room] \in Seq([units : Int, rate : Nat]) /\ rates[room] # <<>>

LEMMA RowsThatCount ==
    ASSUME NEW rates, Listing(rates), NEW room \in Rooms
    PROVE  /\ DOMAIN First(rates) = DOMAIN rates /\ DOMAIN Last(rates) = DOMAIN rates
           /\ room \in DOMAIN rates =>
                /\ First(rates)[room].units \in Int /\ First(rates)[room].rate \in Nat
                /\ Last(rates)[room].units \in Int /\ Last(rates)[room].rate \in Nat
<1>1. DOMAIN First(rates) = DOMAIN rates /\ DOMAIN Last(rates) = DOMAIN rates
  BY DEF First, Last
<1>2. ASSUME room \in DOMAIN rates
      PROVE  /\ First(rates)[room] \in [units : Int, rate : Nat]
             /\ Last(rates)[room] \in [units : Int, rate : Nat]
  <2>1. PICK rows \in Seq([units : Int, rate : Nat]) : rows = rates[room] /\ rows # <<>>
    BY <1>2 DEF Listing
  <2>2. Len(rows) \in Nat \ {0}
    BY <2>1
  <2>3. \A n \in 1..Len(rows) : rows[n] \in [units : Int, rate : Nat]
    <3>1. \A S : \A q \in Seq(S) : \A n \in 1..Len(q) : q[n] \in S
      BY ElementOfSeq
    <3>2. QED
      BY <3>1
  <2>4. First(rates)[room] = rows[1] /\ Last(rates)[room] = rows[Len(rows)]
    BY <1>2, <2>1 DEF First, Last
  <2>5. 1 \in 1..Len(rows) /\ Len(rows) \in 1..Len(rows)
    BY <2>2
  <2>6. QED
    BY <2>3, <2>4, <2>5
<1>3. QED
  BY <1>1, <1>2

LEMMA PricedIsPrice ==
    ASSUME NEW rates, NEW room \in Rooms, NEW wanted \in [Addons -> Nat],
           NEW days \in Nat, Listing(rates)
    PROVE  Priced(rates, room, days, wanted) \in Price
<1>1. MonthPrice[room] \in Nat /\ BasePrice[room] \in Nat
  BY PriceAssumption
<1>2. ChargedRate(First(rates), room) \in Nat
  BY <1>1, RowsThatCount DEF ChargedRate
<1>3. Months(days) \in Nat /\ ExtraDays(days) \in Nat
  BY DEF Months, ExtraDays
<1>4. \A a, b, c, e \in Nat : a * b + c * e \in Nat
  OBVIOUS
<1>5. RoomTotal(rates, room, days) \in Nat
  BY <1>1, <1>2, <1>3, <1>4 DEF RoomTotal
<1>6. AddonTotal(Chosen(wanted) \cap OnSale, wanted, days) \in Nat
  BY AddonTotalsAreNat DEF Chosen
<1> DEFINE subtotal == RoomTotal(rates, room, days)
                         + AddonTotal(Chosen(wanted) \cap OnSale, wanted, days)
<1>7. subtotal \in Nat
  BY <1>5, <1>6
<1>8. Priced(rates, room, days, wanted) =
         [room |-> RoomTotal(rates, room, days), tax |-> Tax(subtotal),
          grand |-> subtotal + Tax(subtotal)]
  BY DEF Priced
<1> HIDE DEF subtotal
<1>9. Tax(subtotal) \in Nat /\ subtotal + Tax(subtotal) \in Nat
  BY <1>7, TaxIsNat
<1>10. QED
  BY <1>5, <1>8, <1>9 DEF Price

LEMMA DraftTotalIsNat ==
    ASSUME NEW price \in Price, NEW wanted \in [Addons -> Nat], NEW days \in Nat
    PROVE  DraftTotal(price, days, wanted) \in Nat
<1>1. AddonTotal(Chosen(wanted), wanted, days) \in Nat
  BY AddonTotalsAreNat DEF Chosen
<1>2. price.room \in Nat /\ price.tax \in Nat
  BY DEF Price
<1>3. QED
  BY <1>1, <1>2 DEF DraftTotal

\* A draft that asks for what was quoted costs what was quoted: nothing of it
\* was skipped, and the tax is the quote's.
LEMMA DraftCostsTheQuote ==
    ASSUME NEW rates, NEW room, NEW days, NEW wanted, Chosen(wanted) \subseteq OnSale
    PROVE  DraftTotal(Priced(rates, room, days, wanted), days, wanted) =
              Priced(rates, room, days, wanted).grand
<1>1. Chosen(wanted) \cap OnSale = Chosen(wanted)
  OBVIOUS
<1>2. QED
  BY <1>1 DEF DraftTotal, Priced

\* The search and the page agree wherever the rows of a room do.
LEMMA RatesAgree ==
    ASSUME NEW rates, NEW stayType, NEW card \in Cards(rates, stayType), Listing(rates)
    PROVE  /\ \/ card.monthly = 0 \/ PriceFrom(rates) \in 1..card.monthly
              \/ Monthly(First(rates), card.room) # Monthly(Last(rates), card.room)
           /\ \/ InventoryState(FewestUnits(rates)) # "available" \/ card.units > 2
              \/ Units(First(rates), card.room) # Units(Last(rates), card.room)
<1> DEFINE prices == {Monthly(Last(rates), room) : room \in Rooms}
           units == {Units(Last(rates), room) : room \in Rooms}
<1>1. PICK room \in Rooms :
         card = [room |-> room, monthly |-> Monthly(First(rates), room),
                 units |-> Units(First(rates), room)]
  BY DEF Cards
<1>2. prices \subseteq Nat /\ units \subseteq Int
  <2>1. ASSUME NEW r \in Rooms
        PROVE  Monthly(Last(rates), r) \in Nat /\ Units(Last(rates), r) \in Int
    <3>1. MonthPrice[r] \in Nat /\ 30 * BasePrice[r] \in Nat
      BY PriceAssumption
    <3>2. QED
      BY <3>1, RowsThatCount DEF Monthly, ShownRate, Units
  <2>2. QED
    BY <2>1
<1>3. IsFiniteSet(prices) /\ IsFiniteSet(units)
  <2>1. [r \in Rooms |-> Monthly(Last(rates), r)] \in Surjection(Rooms, prices)
    BY DEF Surjection
  <2>2. [r \in Rooms |-> Units(Last(rates), r)] \in Surjection(Rooms, units)
    BY DEF Surjection
  <2>3. QED
    BY <2>1, <2>2, TablesAssumption, FS_Surjection
<1>4. /\ card.room = room /\ card.monthly = Monthly(First(rates), room)
      /\ card.units = Units(First(rates), room)
  BY <1>1
<1>5. ASSUME card.monthly # 0, Monthly(First(rates), room) = Monthly(Last(rates), room)
      PROVE  PriceFrom(rates) \in 1..card.monthly
  <2>1. card.monthly \in prices \ {0}
    BY <1>4, <1>5
  <2>2. PriceFrom(rates) = Min(prices \ {0})
    BY <2>1 DEF PriceFrom
  <2>3. IsFiniteSet(prices \ {0})
    BY <1>3, FS_Difference
  <2>4. prices \ {0} \in SUBSET Int
    BY <1>2
  <2> HIDE DEF prices
  <2>5. /\ PriceFrom(rates) \in prices \ {0}
        /\ PriceFrom(rates) <= card.monthly
    BY <2>1, <2>2, <2>3, <2>4, FiniteHasMin
  <2>6. PriceFrom(rates) \in Nat \ {0} /\ card.monthly \in Nat
    BY <1>2, <2>1, <2>5
  <2>7. QED
    BY <2>5, <2>6
<1>6. ASSUME InventoryState(FewestUnits(rates)) = "available",
             Units(First(rates), room) = Units(Last(rates), room)
      PROVE  card.units > 2
  <2>1. FewestUnits(rates) = Min(units) /\ card.units \in units
    BY <1>4, <1>6 DEF FewestUnits
  <2> HIDE DEF units
  <2>2. FewestUnits(rates) \in units /\ FewestUnits(rates) <= card.units
    BY <1>2, <1>3, <2>1, FiniteHasMin
  <2>3. FewestUnits(rates) \in Int /\ card.units \in Int
    BY <1>2, <2>1, <2>2
  <2>4. FewestUnits(rates) > 2
    BY <1>6, <2>3 DEF InventoryState
  <2>5. QED
    BY <2>2, <2>3, <2>4
<1>7. QED
  BY <1>4, <1>5, <1>6
-----------------------------------------------------------------------------
LEMMA InitInv == Init => Inv
<1> SUFFICES ASSUME Init PROVE Inv
  OBVIOUS
<1>1. /\ \A q \in Quotes : quote[q].status = "none"
      /\ \A d \in Drafts : /\ draft[d].status = "none" /\ draft[d].quote = NoQuote
                           /\ draft[d].order = NoOrder /\ draft[d].number = 0
                           /\ draft[d].sync = "NOT_SYNCED"
                           /\ messages[d] = 0 /\ stay[d].made = 0
                           /\ stay[d].processed = {} /\ stay[d].posted = {}
      /\ \A c \in Calls : call[c].at = "idle"
      /\ \A h \in Handlers : handler[h].at = "idle" /\ handler[h].draft = NoDraft
      /\ \A r \in RzpOrders : opened[r] = Unopened
      /\ paid = {}
  BY DEF Init, Idle, Free
<1>2. TypeOK
  <2>1. Nothing \in [Addons -> Nat] /\ 0 \in 0..MaxStays
    BY InputsAssumption DEF Nothing
  <2>2. quote \in [Quotes -> QuoteRow]
    BY <2>1 DEF Init, QuoteRow, Price
  <2>3. draft \in [Drafts -> DraftRow]
    BY <2>1 DEF Init, DraftRow
  <2>4. call \in [Calls -> Call] /\ opened \in [RzpOrders -> RzpOrder]
    BY DEF Init, Idle, Call, Unopened, RzpOrder
  <2>5. stay \in [Drafts -> Stay] /\ handler \in [Handlers -> Handler]
    BY <2>1 DEF Init, Stay, Handler, Free
  <2>6. QED
    BY <2>2, <2>3, <2>4, <2>5 DEF Init, TypeOK
<1>3. /\ \A q \in Quotes : SoundQuote(q)
      /\ \A d \in Drafts : SoundDraft(d)
  BY <1>1, NamesAssumption DEF SoundQuote, SoundDraft
<1>4. OrdersAreOfDrafts /\ (\A c \in Calls : SoundCall(c)) /\ ConfirmedWasPaid
  BY <1>1, NamesAssumption DEF OrdersAreOfDrafts, SoundCall, ConfirmedWasPaid
<1>5. /\ \A h \in Handlers : SoundHandler(h)
      /\ \A d \in Drafts : Promised(d) /\ Numbered(d)
  BY <1>1, NamesAssumption DEF SoundHandler, Promised, Numbered
<1>6. QED
  BY <1>2, <1>3, <1>4, <1>5 DEF Inv
-----------------------------------------------------------------------------
(* The steps, by what they write. *)

Payments(c) ==
    \/ \E d \in Drafts : \/ \E amount \in Amounts : StartOrder(c, d, amount)
                         \/ \E r \in RzpOrders : StartVerify(c, d, r)
    \/ \E r \in RzpOrders : OpenOrder(c, r)
    \/ Confirm(c) \/ SendInsert(c) \/ Crash(c)

Handles(h) ==
    \/ \E d \in Drafts : Receive(h, d)
    \/ InsertStay(h) \/ StoreNumber(h) \/ ProcessStay(h)
    \/ PostPayment(h) \/ Finish(h) \/ HandlerFails(h)

Drafting(d) ==
    \E q \in Quotes, days \in Durations, wanted \in Requests, room \in Rooms :
        CreateDraft(d, q, room, days, wanted)

Quoting(q) ==
    \E days \in Durations, wanted \in Requests, room \in Rooms :
        CreateQuote(q, room, days, wanted)

LEMMA StepKinds ==
    ASSUME [Next]_vars
    PROVE  \/ UNCHANGED vars
           \/ EzeeChanges \/ Search \/ CacheExpires
           \/ \E q \in Quotes : QuoteExpires(q) \/ Quoting(q)
           \/ \E d \in Drafts : Drafting(d)
           \/ \E h \in Handlers : Handles(h)
           \/ \E c \in Calls : Payments(c)
           \/ \E r \in RzpOrders : Pay(r)
BY DEF Next, Shopping, Paying, Handling, Payments, Handles, Drafting, Quoting

\* What each kind leaves alone.
LEMMA LeftAlone ==
    /\ EzeeChanges \/ Search \/ CacheExpires => UNCHANGED <<quote, shop, sync>>
    /\ \A q \in Quotes : QuoteExpires(q) \/ Quoting(q) => UNCHANGED <<shop, sync>>
    /\ \A d \in Drafts : Drafting(d) => UNCHANGED <<web, opened, paid, call, sync>>
    /\ \A h \in Handlers : Handles(h) => UNCHANGED <<web, opened, paid, call>>
    /\ \A c \in Calls : Payments(c) => UNCHANGED <<web, handler, stay, overlapped>>
    /\ \A r \in RzpOrders : Pay(r) => UNCHANGED <<web, draft, opened, call, sync>>
<1>1. EzeeChanges \/ Search \/ CacheExpires => UNCHANGED <<quote, shop, sync>>
  BY DEF EzeeChanges, Search, CacheExpires
<1>2. ASSUME NEW q \in Quotes
      PROVE  QuoteExpires(q) \/ Quoting(q) => UNCHANGED <<shop, sync>>
  BY DEF QuoteExpires, Quoting, CreateQuote
<1>3. ASSUME NEW d \in Drafts
      PROVE  Drafting(d) => UNCHANGED <<web, opened, paid, call, sync>>
  BY DEF Drafting, CreateDraft
<1>4. ASSUME NEW h \in Handlers
      PROVE  Handles(h) => UNCHANGED <<web, opened, paid, call>>
  BY DEF Handles, Receive, InsertStay, StoreNumber, ProcessStay, PostPayment,
         Finish, HandlerFails, End, shop
<1>5. ASSUME NEW c \in Calls
      PROVE  Payments(c) => UNCHANGED <<web, handler, stay, overlapped>>
  BY DEF Payments, StartOrder, StartVerify, OpenOrder, Confirm, SendInsert, Crash, sync
<1>6. ASSUME NEW r \in RzpOrders
      PROVE  Pay(r) => UNCHANGED <<web, draft, opened, call, sync>>
  BY DEF Pay
<1>7. QED
  BY <1>1, <1>2, <1>3, <1>4, <1>5, <1>6
-----------------------------------------------------------------------------
(* Types. *)

\* The rows of colive_draft_bookings that the code writes.
LEMMA DraftRows ==
    ASSUME NEW row \in DraftRow
    PROVE  /\ \A q \in Quotes, room \in Rooms, days \in Durations,
                 wanted \in [Addons -> Nat], total \in Nat :
                 [row EXCEPT !.status = "draft", !.quote = q, !.room = room,
                             !.days = days, !.wanted = wanted, !.total = total] \in DraftRow
           /\ \A r \in RzpOrders :
                 [row EXCEPT !.status = "pending_payment", !.order = r] \in DraftRow
           /\ [row EXCEPT !.status = "confirmed", !.sync = "PENDING"] \in DraftRow
           /\ \A n \in 0..MaxStays :
                 [row EXCEPT !.number = n, !.sync = "PARTIAL"] \in DraftRow
           /\ \A to \in {"SYNCED", "FAILED"} : [row EXCEPT !.sync = to] \in DraftRow
<1>1. ASSUME NEW q \in Quotes, NEW room \in Rooms, NEW days \in Durations,
             NEW wanted \in [Addons -> Nat], NEW total \in Nat
      PROVE  [row EXCEPT !.status = "draft", !.quote = q, !.room = room, !.days = days,
                         !.wanted = wanted, !.total = total] \in DraftRow
  BY DEF DraftRow
<1>2. ASSUME NEW r \in RzpOrders
      PROVE  [row EXCEPT !.status = "pending_payment", !.order = r] \in DraftRow
  BY DEF DraftRow
<1>3. [row EXCEPT !.status = "confirmed", !.sync = "PENDING"] \in DraftRow
  BY DEF DraftRow
<1>4. ASSUME NEW n \in 0..MaxStays
      PROVE  [row EXCEPT !.number = n, !.sync = "PARTIAL"] \in DraftRow
  BY DEF DraftRow
<1>5. ASSUME NEW to \in {"SYNCED", "FAILED"}
      PROVE  [row EXCEPT !.sync = to] \in DraftRow
  BY DEF DraftRow
<1>6. QED
  BY <1>1, <1>2, <1>3, <1>4, <1>5

\* How a handler ends.
LEMMA EndStep ==
    ASSUME TypeOK, NEW h \in Handlers, NEW status, End(h, status),
           NEW d \in Drafts, handler[h].draft = d
    PROVE  /\ handler' = [handler EXCEPT ![h] = Free]
           /\ stay' = stay /\ overlapped' = overlapped
           /\ draft' = [draft EXCEPT ![d].sync = status]
           /\ \/ messages' = messages
              \/ messages[d] > 0 /\ messages' = [messages EXCEPT ![d] = @ - 1]
<1>1. messages' \in Lessened(d)
  BY DEF End
<1>2. \/ messages' = messages
      \/ messages[d] > 0 /\ messages' = [messages EXCEPT ![d] = @ - 1]
  BY <1>1 DEF Lessened
<1>3. QED
  BY <1>2 DEF End

LEMMA TypeStep ==
    ASSUME Inv, [Next]_vars
    PROVE  TypeOK'
<1>0. /\ TypeOK /\ (\A c \in Calls : SoundCall(c)) /\ (\A h \in Handlers : SoundHandler(h))
      /\ quote \in [Quotes -> QuoteRow] /\ draft \in [Drafts -> DraftRow]
      /\ opened \in [RzpOrders -> RzpOrder] /\ paid \subseteq RzpOrders
      /\ call \in [Calls -> Call] /\ messages \in [Drafts -> Nat]
      /\ handler \in [Handlers -> Handler] /\ stay \in [Drafts -> Stay]
      /\ MaxStays \in Nat
  BY InputsAssumption DEF Inv, TypeOK
<1>h. ASSUME NEW h \in Handlers, handler[h].at # "idle"
      PROVE  handler[h].draft \in Drafts
  BY <1>0, <1>h DEF SoundHandler
<1>1. ezee' \in Answers \cup {NoAnswer} /\ cached' \in Answers \cup {NoAnswer}
  <2>1. Rates \in Answers \cup {NoAnswer}
    BY <1>0 DEF TypeOK, Rates
  <2>2. CASE UNCHANGED web
    BY <1>0, <2>2 DEF web, TypeOK
  <2>3. CASE EzeeChanges \/ Search \/ CacheExpires
    BY <1>0, <2>1, <2>3 DEF EzeeChanges, Search, CacheExpires, CacheRates, TypeOK
  <2>4. ASSUME NEW q \in Quotes, QuoteExpires(q) \/ Quoting(q)
        PROVE  ezee' = ezee /\ cached' \in {cached, Rates}
    BY <2>4 DEF QuoteExpires, Quoting, CreateQuote, CacheRates
  <2>5. QED
    BY <1>0, <2>1, <2>2, <2>3, <2>4, StepKinds, LeftAlone DEF vars, web, TypeOK
<1>2. quote' \in [Quotes -> QuoteRow]
  <2>1. CASE quote' = quote
    BY <1>0, <2>1
  <2>2. ASSUME NEW q \in Quotes, QuoteExpires(q)
        PROVE  quote' \in [Quotes -> QuoteRow]
    BY <1>0, <2>2 DEF QuoteExpires, QuoteRow
  <2>3. ASSUME NEW q \in Quotes, NEW days \in Durations, NEW wanted \in Requests,
               NEW room \in Rooms, CreateQuote(q, room, days, wanted)
        PROVE  quote' \in [Quotes -> QuoteRow]
    <3> DEFINE rates == IF Rates = NoAnswer THEN <<>> ELSE Rates
               price == Priced(rates, room, days, wanted)
    <3>1. Rates = NoAnswer \/ Rates \in Answers
      BY <1>0 DEF TypeOK, Rates
    <3>2. Listing(rates)
      <4>1. CASE Rates = NoAnswer
        <5>1. DOMAIN rates = {}
          BY <4>1
        <5>2. QED
          BY <5>1 DEF Listing
      <4>2. CASE Rates \in Answers
        BY <4>2, NamesAssumption, AnswersAssumption DEF Listing
      <4>3. QED
        BY <3>1, <4>1, <4>2
    <3>3. wanted \in [Addons -> Nat] /\ days \in Nat
      BY InputsAssumption
    <3> HIDE DEF rates
    <3>4. price \in Price
      BY <3>2, <3>3, PricedIsPrice
    <3> HIDE DEF price
    <3>5. [status |-> "live", room |-> room, days |-> days, wanted |-> wanted,
           price |-> price] \in QuoteRow
      BY <3>3, <3>4 DEF QuoteRow
    <3>6. quote' = [quote EXCEPT ![q] = [status |-> "live", room |-> room, days |-> days,
                                         wanted |-> wanted, price |-> price]]
      BY <2>3 DEF CreateQuote, price, rates
    <3>7. QED
      BY <1>0, <3>5, <3>6
  <2>4. QED
    BY <2>1, <2>2, <2>3, StepKinds, LeftAlone DEF vars, web, Quoting
<1>3. draft' \in [Drafts -> DraftRow]
  <2>1. CASE draft' = draft
    BY <1>0, <2>1
  <2>2. ASSUME NEW d \in Drafts, NEW q \in Quotes, NEW days \in Durations,
               NEW wanted \in Requests, NEW room \in Rooms,
               CreateDraft(d, q, room, days, wanted)
        PROVE  draft' \in [Drafts -> DraftRow]
    <3>1. wanted \in [Addons -> Nat] /\ days \in Nat
      BY InputsAssumption
    <3>2. quote[q].price \in Price
      BY <1>0 DEF QuoteRow
    <3> DEFINE total == DraftTotal(quote[q].price, days, wanted)
    <3>3. total \in Nat
      BY <3>1, <3>2, DraftTotalIsNat
    <3>4. draft' = [draft EXCEPT ![d].status = "draft", ![d].quote = q,
                                 ![d].room = room, ![d].days = days,
                                 ![d].wanted = wanted, ![d].total = total]
      BY <2>2 DEF CreateDraft
    <3> HIDE DEF total
    <3> DEFINE row == [draft[d] EXCEPT !.status = "draft", !.quote = q, !.room = room,
                                       !.days = days, !.wanted = wanted, !.total = total]
    <3>5. row \in DraftRow
      BY <1>0, <3>1, <3>3, DraftRows
    <3>6. draft' = [draft EXCEPT ![d] = row]
      BY <1>0, <3>4
    <3> HIDE DEF row
    <3>7. QED
      BY <1>0, <3>5, <3>6
  <2>3. ASSUME NEW c \in Calls, Payments(c)
        PROVE  draft' \in [Drafts -> DraftRow]
    <3>1. ASSUME NEW r \in RzpOrders, OpenOrder(c, r)
          PROVE  draft' \in [Drafts -> DraftRow]
      <4> DEFINE d == call[c].draft
                 row == [draft[d] EXCEPT !.status = "pending_payment", !.order = r]
      <4>1. d \in Drafts
        BY <1>0, <3>1 DEF OpenOrder, SoundCall
      <4>2. row \in DraftRow
        BY <1>0, <4>1, DraftRows
      <4>3. draft' = [draft EXCEPT ![d] = row]
        BY <3>1 DEF OpenOrder
      <4> HIDE DEF row, d
      <4>4. QED
        BY <1>0, <4>1, <4>2, <4>3
    <3>2. CASE Confirm(c)
      <4> DEFINE d == call[c].draft
                 row == [draft[d] EXCEPT !.status = "confirmed", !.sync = "PENDING"]
      <4>1. d \in Drafts
        BY <1>0, <3>2 DEF Confirm, SoundCall
      <4>2. row \in DraftRow
        BY <1>0, <4>1, DraftRows
      <4>3. draft' = [draft EXCEPT ![d] = row]
        BY <3>2 DEF Confirm
      <4> HIDE DEF row, d
      <4>4. QED
        BY <1>0, <4>1, <4>2, <4>3
    <3>3. QED
      BY <1>0, <2>3, <3>1, <3>2
      DEF Payments, StartOrder, StartVerify, SendInsert, Crash, shop
  <2>4. ASSUME NEW h \in Handlers, Handles(h)
        PROVE  draft' \in [Drafts -> DraftRow]
    <3>1. CASE StoreNumber(h)
      <4> DEFINE d == handler[h].draft
                 row == [draft[d] EXCEPT !.number = handler[h].mine, !.sync = "PARTIAL"]
      <4>1. d \in Drafts /\ handler[h].mine \in 0..MaxStays
        BY <1>0, <1>h, <3>1 DEF StoreNumber, Handler
      <4>2. row \in DraftRow
        BY <1>0, <4>1, DraftRows
      <4>3. draft' = [draft EXCEPT ![d] = row]
        BY <3>1 DEF StoreNumber
      <4> HIDE DEF row, d
      <4>4. QED
        BY <1>0, <4>1, <4>2, <4>3
    <3>2. ASSUME NEW status, End(h, status), handler[h].at # "idle",
                 status \in {"SYNCED", "FAILED"} \/ status = draft[handler[h].draft].sync
          PROVE  draft' \in [Drafts -> DraftRow]
      <4>1. PICK d \in Drafts : d = handler[h].draft
        BY <1>h, <3>2
      <4>2. draft' = [draft EXCEPT ![d] = [draft[d] EXCEPT !.sync = status]]
        BY <3>2, <4>1 DEF End
      <4>3. [draft[d] EXCEPT !.sync = status] \in DraftRow
        <5>1. CASE status \in {"SYNCED", "FAILED"}
          BY <1>0, <5>1, DraftRows
        <5>2. CASE status = draft[d].sync
          BY <1>0, <5>2 DEF DraftRow
        <5>3. QED
          BY <3>2, <4>1, <5>1, <5>2
      <4>4. QED
        BY <1>0, <4>2, <4>3
    <3>3. CASE Finish(h)
      BY <3>2, <3>3 DEF Finish
    <3>4. CASE HandlerFails(h)
      <4>1. handler[h].at # "idle"
        BY <3>4 DEF HandlerFails
      <4>2. QED
        BY <3>2, <3>4, <4>1 DEF HandlerFails
    <3>5. QED
      BY <1>0, <2>4, <3>1, <3>3, <3>4
      DEF Handles, Receive, InsertStay, ProcessStay, PostPayment, shop
  <2>5. QED
    BY <2>1, <2>2, <2>3, <2>4, StepKinds, LeftAlone DEF vars, shop, Drafting
<1>4. /\ opened' \in [RzpOrders -> RzpOrder]
      /\ paid' \subseteq RzpOrders /\ call' \in [Calls -> Call]
  <2>1. CASE UNCHANGED <<opened, paid, call>>
    BY <1>0, <2>1
  <2>2. ASSUME NEW c \in Calls, Payments(c)
        PROVE  /\ opened' \in [RzpOrders -> RzpOrder]
               /\ paid' \subseteq RzpOrders /\ call' \in [Calls -> Call]
    <3>1. Idle \in Call
      BY DEF Idle, Call
    <3>2. ASSUME NEW d \in Drafts, NEW amount \in Amounts, StartOrder(c, d, amount)
          PROVE  UNCHANGED <<opened, paid>> /\ call' \in [Calls -> Call]
      <4>1. [at |-> "open_order", draft |-> d, amount |-> amount] \in Call
        BY InputsAssumption DEF Call
      <4>2. QED
        BY <1>0, <3>2, <4>1 DEF StartOrder, Begin
    <3>3. ASSUME NEW d \in Drafts, NEW r \in RzpOrders, StartVerify(c, d, r)
          PROVE  UNCHANGED <<opened, paid>> /\ call' \in [Calls -> Call]
      <4>1. [at |-> "confirm", draft |-> d, amount |-> 0] \in Call
        BY DEF Call
      <4>2. QED
        BY <1>0, <3>3, <4>1 DEF StartVerify, Begin
    <3>4. ASSUME NEW r \in RzpOrders, OpenOrder(c, r)
          PROVE  /\ opened' \in [RzpOrders -> RzpOrder]
                 /\ paid' = paid /\ call' \in [Calls -> Call]
      <4>1. [draft |-> call[c].draft, amount |-> call[c].amount] \in RzpOrder
        BY <1>0 DEF Call, RzpOrder
      <4>2. QED
        BY <1>0, <3>1, <3>4, <4>1 DEF OpenOrder, Answer
    <3>5. CASE Confirm(c)
      BY <1>0, <3>5 DEF Confirm, Call
    <3>6. CASE SendInsert(c) \/ Crash(c)
      BY <1>0, <3>1, <3>6 DEF SendInsert, Crash, Answer
    <3>7. QED
      BY <1>0, <2>2, <3>2, <3>3, <3>4, <3>5, <3>6 DEF Payments
  <2>3. ASSUME NEW r \in RzpOrders, Pay(r)
        PROVE  paid' \subseteq RzpOrders
    BY <1>0, <2>3 DEF Pay
  <2>4. QED
    BY <1>0, <2>1, <2>2, <2>3, StepKinds, LeftAlone DEF vars, shop
<1>5. messages' \in [Drafts -> Nat]
  <2>1. CASE messages' = messages
    BY <1>0, <2>1
  <2>2. ASSUME NEW c \in Calls, SendInsert(c)
        PROVE  messages' \in [Drafts -> Nat]
    BY <1>0, <2>2 DEF SendInsert
  <2>3. ASSUME NEW c \in Calls, Payments(c), ~SendInsert(c)
        PROVE  messages' = messages
    BY <2>3 DEF Payments, StartOrder, StartVerify, OpenOrder, Confirm, Crash, sync
  <2>4. ASSUME NEW d, messages' \in Lessened(d)
        PROVE  messages' \in [Drafts -> Nat]
    BY <1>0, <2>4 DEF Lessened
  <2>5. ASSUME NEW h \in Handlers, Handles(h)
        PROVE  messages' = messages \/ \E d : messages' \in Lessened(d)
    BY <2>5
    DEF Handles, Receive, InsertStay, StoreNumber, ProcessStay, PostPayment,
        Finish, HandlerFails, End
  <2>6. QED
    BY <2>1, <2>2, <2>3, <2>4, <2>5, StepKinds, LeftAlone DEF vars, sync
<1>6. /\ handler' \in [Handlers -> Handler] /\ stay' \in [Drafts -> Stay]
      /\ overlapped' \subseteq Drafts
  <2>1. CASE UNCHANGED <<handler, stay, overlapped>>
    BY <1>0, <2>1 DEF TypeOK
  <2>2. ASSUME NEW h \in Handlers, Handles(h)
        PROVE  handler' \in [Handlers -> Handler]
    <3>1. Free \in Handler /\ \A d \in Drafts : [at |-> "insert", draft |-> d, mine |-> 0] \in Handler
      BY <1>0 DEF Free, Handler
    <3>2. ASSUME NEW d \in Drafts, Receive(h, d)
          PROVE  handler' \in [Handlers -> Handler]
      BY <1>0, <3>1, <3>2 DEF Receive, Take
    <3>3. CASE InsertStay(h)
      <4>1. PICK number : number = stay[handler[h].draft].made + 1
        OBVIOUS
      <4>2. number \in 0..MaxStays
        <5>1. handler[h].draft \in Drafts
          BY <1>h, <3>3 DEF InsertStay
        <5>2. stay[handler[h].draft].made \in Nat
          BY <1>0, <5>1 DEF Stay
        <5>3. QED
          BY <1>0, <3>3, <4>1, <5>2 DEF InsertStay
      <4>3. handler' = [handler EXCEPT ![h].at = "store", ![h].mine = number]
        BY <3>3, <4>1 DEF InsertStay
      <4>4. QED
        BY <1>0, <4>2, <4>3 DEF Handler
    <3>4. CASE StoreNumber(h) \/ ProcessStay(h) \/ PostPayment(h)
      BY <1>0, <3>4 DEF StoreNumber, ProcessStay, PostPayment, Goto, Handler
    <3>5. CASE Finish(h) \/ HandlerFails(h)
      BY <1>0, <3>1, <3>5 DEF Finish, HandlerFails, End
    <3>6. QED
      BY <2>2, <3>2, <3>3, <3>4, <3>5 DEF Handles
  <2>3. ASSUME NEW h \in Handlers, Handles(h)
        PROVE  stay' \in [Drafts -> Stay]
    <3>1. ASSUME handler[h].at \in {"store", "process", "pay", "finish"}
          PROVE  handler[h].draft \in Drafts /\ handler[h].mine \in 1..MaxStays
      <4>1. handler[h].draft \in Drafts /\ handler[h].mine \in 1..stay[handler[h].draft].made
        BY <1>0, <1>h, <3>1 DEF SoundHandler
      <4>2. stay[handler[h].draft].made \in 0..MaxStays
        BY <1>0, <4>1 DEF Stay
      <4>3. QED
        BY <1>0, <4>1, <4>2
    <3>2. CASE InsertStay(h)
      <4>1. PICK d \in Drafts : d = handler[h].draft
        BY <1>h, <3>2 DEF InsertStay
      <4>2. stay[d].made \in Nat /\ stay[d].made + 1 <= MaxStays
            /\ stay' = [stay EXCEPT ![d].made = stay[d].made + 1]
        BY <1>0, <3>2, <4>1 DEF InsertStay, Stay
      <4>3. stay[d].made + 1 \in 0..MaxStays
        BY <1>0, <4>2
      <4>4. QED
        BY <1>0, <4>2, <4>3 DEF Stay
    <3>3. CASE ProcessStay(h) \/ PostPayment(h)
      <4>1. PICK d \in Drafts : d = handler[h].draft
        BY <1>h, <3>3 DEF ProcessStay, PostPayment
      <4>2. handler[h].mine \in 1..MaxStays
        BY <3>1, <3>3 DEF ProcessStay, PostPayment
      <4>3. PICK n \in 1..MaxStays : n = handler[h].mine
        BY <4>2
      <4>4. \/ stay' = stay
            \/ stay' = [stay EXCEPT ![d].processed = @ \cup {n}]
            \/ stay' = [stay EXCEPT ![d].posted = @ \cup {n}]
        BY <3>3, <4>1, <4>3 DEF ProcessStay, PostPayment
      <4>5. QED
        BY <1>0, <4>4 DEF Stay
    <3>4. QED
      BY <1>0, <2>3, <3>2, <3>3
      DEF Handles, Receive, StoreNumber, Finish, HandlerFails, End
  <2>4. ASSUME NEW h \in Handlers, Handles(h)
        PROVE  overlapped' \subseteq Drafts
    BY <1>0, <2>4
    DEF Handles, Receive, Take, InsertStay, StoreNumber, ProcessStay, PostPayment,
        Finish, HandlerFails, End, TypeOK
  <2>5. QED
    BY <2>1, <2>2, <2>3, <2>4, StepKinds, LeftAlone DEF vars, sync
<1>7. QED
  BY <1>1, <1>2, <1>3, <1>4, <1>5, <1>6 DEF TypeOK
-----------------------------------------------------------------------------
(* What a step does to one draft and to one quote. *)

LEMMA DraftStep ==
    ASSUME TypeOK, \A c \in Calls : SoundCall(c), [Next]_vars, NEW d \in Drafts
    PROVE  /\ \/ /\ draft'[d].quote = draft[d].quote /\ draft'[d].days = draft[d].days
                 /\ draft'[d].wanted = draft[d].wanted /\ draft'[d].total = draft[d].total
              \/ Drafting(d)
           /\ \/ draft'[d].order = draft[d].order
              \/ \E c \in Calls, r \in RzpOrders :
                    OpenOrder(c, r) /\ call[c].draft = d /\ draft'[d].order = r
           /\ draft'[d].status = "confirmed" =>
                 \/ draft[d].status = "confirmed"
                 \/ \E c \in Calls : Confirm(c) /\ call[c].draft = d
           /\ \/ draft'[d].number = draft[d].number
              \/ \E h \in Handlers : /\ StoreNumber(h) /\ handler[h].draft = d
                                     /\ draft'[d].number = handler[h].mine
           /\ draft'[d].sync = "SYNCED" =>
                 \/ draft[d].sync = "SYNCED"
                 \/ \E h \in Handlers : Finish(h) /\ handler[h].draft = d
<1> DEFINE Same == /\ draft'[d].quote = draft[d].quote /\ draft'[d].days = draft[d].days
                   /\ draft'[d].wanted = draft[d].wanted
                   /\ draft'[d].total = draft[d].total
           SameOrder == draft'[d].order = draft[d].order
           SameStatus == draft'[d].status = draft[d].status
           SameSync == draft'[d].number = draft[d].number /\ draft'[d].sync = draft[d].sync
<1>0. draft \in [Drafts -> DraftRow]
  BY DEF TypeOK
<1>1. CASE draft'[d] = draft[d]
  BY <1>1
<1>2. ASSUME NEW e \in Drafts, Drafting(e), draft'[d] # draft[d]
      PROVE  Drafting(d) /\ SameOrder /\ draft'[d].status = "draft" /\ SameSync
  <2>1. PICK q \in Quotes, days \in Durations, wanted \in Requests, room \in Rooms :
           CreateDraft(e, q, room, days, wanted)
    BY <1>2 DEF Drafting
  <2> DEFINE total == DraftTotal(quote[q].price, days, wanted)
  <2>2. draft' = [draft EXCEPT ![e].status = "draft", ![e].quote = q, ![e].room = room,
                               ![e].days = days, ![e].wanted = wanted,
                               ![e].total = total]
    BY <2>1 DEF CreateDraft
  <2> HIDE DEF total
  <2>3. e = d
    BY <1>0, <1>2, <2>2
  <2>4. SameOrder /\ draft'[d].status = "draft" /\ SameSync
    BY <1>0, <2>2, <2>3 DEF DraftRow
  <2>5. QED
    BY <1>2, <2>3, <2>4
<1>3. ASSUME NEW c \in Calls, NEW r \in RzpOrders, OpenOrder(c, r),
             draft'[d] # draft[d]
      PROVE  /\ call[c].draft = d /\ draft'[d].order = r
             /\ Same /\ draft'[d].status = "pending_payment" /\ SameSync
  BY <1>0, <1>3 DEF OpenOrder, DraftRow
<1>4. ASSUME NEW c \in Calls, Confirm(c), draft'[d] # draft[d]
      PROVE  /\ call[c].draft = d
             /\ Same /\ SameOrder /\ draft'[d].number = draft[d].number
             /\ draft'[d].sync = "PENDING"
  BY <1>0, <1>4 DEF Confirm, DraftRow
<1>5. ASSUME NEW h \in Handlers, StoreNumber(h), draft'[d] # draft[d]
      PROVE  /\ handler[h].draft = d /\ draft'[d].number = handler[h].mine
             /\ Same /\ SameOrder /\ SameStatus /\ draft'[d].sync = "PARTIAL"
  BY <1>0, <1>5 DEF StoreNumber, DraftRow
<1>e. ASSUME NEW h \in Handlers, NEW status, End(h, status), draft'[d] # draft[d]
      PROVE  /\ handler[h].draft = d /\ Same /\ SameOrder /\ SameStatus
             /\ draft'[d].number = draft[d].number /\ draft'[d].sync = status
  BY <1>0, <1>e DEF End, DraftRow
<1>6. ASSUME NEW h \in Handlers, Finish(h), draft'[d] # draft[d]
      PROVE  /\ handler[h].draft = d /\ Same /\ SameOrder /\ SameStatus
             /\ draft'[d].number = draft[d].number
  BY <1>6, <1>e DEF Finish
<1>7. ASSUME NEW h \in Handlers, HandlerFails(h), draft'[d] # draft[d]
      PROVE  /\ Same /\ SameOrder /\ SameStatus
             /\ draft'[d].number = draft[d].number
             /\ draft'[d].sync \in {"FAILED", draft[d].sync}
  <2>1. PICK status : End(h, status) /\ status \in {"FAILED", draft[handler[h].draft].sync}
    BY <1>7 DEF HandlerFails
  <2>2. QED
    BY <1>7, <1>e, <2>1
<1>8. \/ draft' = draft
      \/ \E e \in Drafts : Drafting(e)
      \/ \E h \in Handlers : StoreNumber(h) \/ Finish(h) \/ HandlerFails(h)
      \/ \E c \in Calls : Confirm(c) \/ \E r \in RzpOrders : OpenOrder(c, r)
  <2>1. ASSUME NEW c \in Calls, Payments(c)
        PROVE  \/ draft' = draft \/ Confirm(c) \/ \E r \in RzpOrders : OpenOrder(c, r)
    BY <2>1 DEF Payments, StartOrder, StartVerify, SendInsert, Crash
  <2>2. ASSUME NEW h \in Handlers, Handles(h)
        PROVE  draft' = draft \/ StoreNumber(h) \/ Finish(h) \/ HandlerFails(h)
    BY <2>2 DEF Handles, Receive, InsertStay, ProcessStay, PostPayment, shop
  <2>3. QED
    BY <2>1, <2>2, StepKinds, LeftAlone DEF vars, shop
<1>9. CASE draft'[d] # draft[d]
  <2> HIDE DEF Same, SameOrder, SameStatus, SameSync
  <2>1. CASE \E e \in Drafts : Drafting(e)
    BY <1>2, <1>9, <2>1 DEF SameOrder, SameSync
  <2>2. CASE \E c \in Calls, r \in RzpOrders : OpenOrder(c, r)
    BY <1>3, <1>9, <2>2 DEF Same, SameSync
  <2>3. CASE \E c \in Calls : Confirm(c)
    BY <1>4, <1>9, <2>3 DEF Same, SameOrder
  <2>4. CASE \E h \in Handlers : StoreNumber(h)
    BY <1>5, <1>9, <2>4 DEF Same, SameOrder, SameStatus
  <2>5. CASE \E h \in Handlers : Finish(h)
    BY <1>6, <1>9, <2>5 DEF Same, SameOrder, SameStatus
  <2>6. CASE \E h \in Handlers : HandlerFails(h)
    BY <1>7, <1>9, <2>6 DEF Same, SameOrder, SameStatus
  <2>7. QED
    BY <1>8, <1>9, <2>1, <2>2, <2>3, <2>4, <2>5, <2>6
<1>10. QED
  BY <1>1, <1>9

\* A quote is written once and then only expires.
LEMMA QuoteStep ==
    ASSUME TypeOK, [Next]_vars, NEW q \in Quotes, quote[q].status # "none"
    PROVE  /\ quote'[q].status # "none" /\ quote'[q].days = quote[q].days
           /\ quote'[q].wanted = quote[q].wanted /\ quote'[q].price = quote[q].price
<1>0. quote \in [Quotes -> QuoteRow]
  BY DEF TypeOK
<1>1. ASSUME NEW p \in Quotes, QuoteExpires(p)
      PROVE  /\ quote'[q].status # "none" /\ quote'[q].days = quote[q].days
             /\ quote'[q].wanted = quote[q].wanted /\ quote'[q].price = quote[q].price
  BY <1>0, <1>1 DEF QuoteExpires, QuoteRow
<1>2. ASSUME NEW p \in Quotes, Quoting(p)
      PROVE  quote'[q] = quote[q]
  BY <1>0, <1>2 DEF Quoting, CreateQuote
<1>3. QED
  BY <1>1, <1>2, StepKinds, LeftAlone DEF vars, web
-----------------------------------------------------------------------------
(* The price of a draft. *)

LEMMA QuotesStep ==
    ASSUME Inv, [Next]_vars, NEW q \in Quotes
    PROVE  SoundQuote(q)'
<1>0. TypeOK /\ SoundQuote(q) /\ quote \in [Quotes -> QuoteRow]
  BY DEF Inv, TypeOK
<1>1. CASE quote[q].status # "none"
  BY <1>0, <1>1, QuoteStep DEF SoundQuote
<1>2. ASSUME NEW days \in Durations, NEW wanted \in Requests, NEW room \in Rooms,
             CreateQuote(q, room, days, wanted)
      PROVE  SoundQuote(q)'
  <2>1. PICK rates : quote'[q] = [status |-> "live", room |-> room, days |-> days,
                                  wanted |-> wanted,
                                  price |-> Priced(rates, room, days, wanted)]
    BY <1>0, <1>2 DEF CreateQuote
  <2>2. /\ quote'[q].days = days /\ quote'[q].wanted = wanted
        /\ quote'[q].price = Priced(rates, room, days, wanted)
    BY <2>1
  <2>3. QED
    BY <2>2, DraftCostsTheQuote DEF SoundQuote
<1>3. CASE quote'[q] = quote[q]
  BY <1>0, <1>3 DEF SoundQuote
<1>4. ASSUME NEW p \in Quotes, p # q, QuoteExpires(p) \/ Quoting(p)
      PROVE  quote'[q] = quote[q]
  BY <1>0, <1>4 DEF QuoteExpires, Quoting, CreateQuote
<1>5. QuoteExpires(q) => quote[q].status # "none"
  BY DEF QuoteExpires
<1>6. QED
  BY <1>1, <1>2, <1>3, <1>4, <1>5, StepKinds, LeftAlone DEF vars, web, Quoting

LEMMA DraftsStep ==
    ASSUME Inv, [Next]_vars, NEW d \in Drafts
    PROVE  SoundDraft(d)'
<1>0. /\ TypeOK /\ SoundDraft(d) /\ (\A c \in Calls : SoundCall(c))
      /\ draft \in [Drafts -> DraftRow]
  BY DEF Inv, TypeOK
<1>1. ASSUME NEW q \in Quotes, draft'[d].quote = q
      PROVE  /\ quote'[q].status # "none" /\ Chosen(draft'[d].wanted) \subseteq OnSale
             /\ draft'[d].total =
                   DraftTotal(quote'[q].price, draft'[d].days, draft'[d].wanted)
  <2>1. CASE /\ draft'[d].quote = draft[d].quote /\ draft'[d].days = draft[d].days
             /\ draft'[d].wanted = draft[d].wanted /\ draft'[d].total = draft[d].total
    <3>1. /\ quote[q].status # "none" /\ Chosen(draft[d].wanted) \subseteq OnSale
          /\ draft[d].total = DraftTotal(quote[q].price, draft[d].days, draft[d].wanted)
      BY <1>0, <1>1, <2>1 DEF SoundDraft
    <3>2. quote'[q].price = quote[q].price /\ quote'[q].status # "none"
      BY <1>0, <3>1, QuoteStep
    <3>3. QED
      BY <2>1, <3>1, <3>2
  <2>2. ASSUME NEW p \in Quotes, NEW days \in Durations, NEW wanted \in Requests,
               NEW room \in Rooms, CreateDraft(d, p, room, days, wanted)
        PROVE  /\ quote'[q].status # "none" /\ Chosen(draft'[d].wanted) \subseteq OnSale
               /\ draft'[d].total =
                     DraftTotal(quote'[q].price, draft'[d].days, draft'[d].wanted)
    <3> DEFINE total == DraftTotal(quote[p].price, days, wanted)
    <3>1. /\ quote[p].status = "live" /\ Chosen(wanted) \subseteq OnSale
          /\ quote' = quote
          /\ draft' = [draft EXCEPT ![d].status = "draft", ![d].quote = p,
                                    ![d].room = room, ![d].days = days,
                                    ![d].wanted = wanted, ![d].total = total]
      BY <2>2 DEF CreateDraft, web
    <3> HIDE DEF total
    <3>2. /\ draft'[d].quote = p /\ draft'[d].days = days /\ draft'[d].wanted = wanted
          /\ draft'[d].total = total
      BY <1>0, <3>1 DEF DraftRow
    <3>3. QED
      BY <1>1, <3>1, <3>2 DEF total
  <2>3. QED
    BY <1>0, <2>1, <2>2, DraftStep DEF Drafting
<1>2. QED
  BY <1>1 DEF SoundDraft

LEMMA PriceIsQuoted == Inv => DraftCostsAsQuoted
BY DEF Inv, SoundQuote, SoundDraft, DraftCostsAsQuoted
-----------------------------------------------------------------------------
(* Payments. *)

\* A payment that stands behind a draft stands behind it for ever.
LEMMA OrdersStep ==
    ASSUME Inv, [Next]_vars
    PROVE  /\ OrdersAreOfDrafts'
           /\ \A d \in Drafts : Backed(d) => Backed(d)'
<1>0. /\ TypeOK /\ OrdersAreOfDrafts /\ (\A c \in Calls : SoundCall(c))
      /\ opened \in [RzpOrders -> RzpOrder] /\ paid \subseteq RzpOrders
      /\ call \in [Calls -> Call] /\ NoDraft \notin Drafts
  BY NamesAssumption DEF Inv, TypeOK
<1>a. ASSUME NEW c \in Calls, NEW p \in RzpOrders, OpenOrder(c, p), NEW r \in RzpOrders
      PROVE  /\ r # p => opened'[r] = opened[r]
             /\ opened[p] = Unopened
             /\ opened'[p].draft = call[c].draft /\ opened'[p].amount > 0
  <2>1. /\ opened' = [opened EXCEPT ![p] = [draft |-> call[c].draft,
                                             amount |-> call[c].amount]]
        /\ call[c].at = "open_order" /\ opened[p] = Unopened
    BY <1>a DEF OpenOrder
  <2>2. call[c].amount > 0
    BY <1>0, <2>1 DEF SoundCall
  <2>3. QED
    BY <1>0, <2>1, <2>2
<1>b. ASSUME NEW r \in RzpOrders
      PROVE  \/ opened'[r] = opened[r]
             \/ opened[r] = Unopened /\ opened'[r].amount > 0
  <2>1. ASSUME NEW c \in Calls, Payments(c)
        PROVE  opened' = opened \/ \E p \in RzpOrders : OpenOrder(c, p)
    BY <2>1 DEF Payments, StartOrder, StartVerify, Confirm, SendInsert, Crash
  <2>2. QED
    BY <1>a, <2>1, StepKinds, LeftAlone DEF vars, shop
<1>1. \A r \in RzpOrders : opened[r] # Unopened => opened'[r] = opened[r]
  BY <1>b
<1>2. paid' = paid \/ \E r \in RzpOrders : opened[r] # Unopened /\ paid' = paid \cup {r}
  <2>1. ASSUME NEW c \in Calls, Payments(c)
        PROVE  paid' = paid
    BY <2>1 DEF Payments, StartOrder, StartVerify, OpenOrder, Confirm, SendInsert, Crash
  <2>2. ASSUME NEW r \in RzpOrders, Pay(r)
        PROVE  opened[r] # Unopened /\ paid' = paid \cup {r}
    BY <2>2 DEF Pay
  <2>3. QED
    BY <2>1, <2>2, StepKinds, LeftAlone DEF vars, shop
<1>3. ASSUME NEW d \in Drafts, NEW r \in RzpOrders, draft'[d].order = r
      PROVE  opened'[r].draft = d
  <2>1. CASE draft[d].order = r
    <3>1. opened[r].draft = d
      BY <1>0, <2>1 DEF OrdersAreOfDrafts
    <3>2. opened[r] # Unopened
      BY <1>0, <3>1 DEF Unopened
    <3>3. QED
      BY <1>1, <3>1, <3>2
  <2>2. ASSUME NEW c \in Calls, OpenOrder(c, r), call[c].draft = d
        PROVE  opened'[r].draft = d
    BY <1>a, <2>2
  <2>3. QED
    BY <1>0, <1>3, <2>1, <2>2, DraftStep
<1>4. OrdersAreOfDrafts'
  <2>1. ASSUME NEW r \in paid'
        PROVE  opened'[r] # Unopened
    <3>1. r \in RzpOrders /\ opened[r] # Unopened
      BY <1>0, <1>2, <2>1 DEF OrdersAreOfDrafts
    <3>2. QED
      BY <1>1, <3>1
  <2>2. ASSUME NEW r \in RzpOrders, opened'[r] # Unopened
        PROVE  opened'[r].amount > 0
    BY <1>0, <1>b, <2>2 DEF OrdersAreOfDrafts
  <2>3. Unopened' = Unopened
    BY DEF Unopened
  <2>4. QED
    BY <1>3, <2>1, <2>2, <2>3 DEF OrdersAreOfDrafts
<1>5. ASSUME NEW d \in Drafts, Backed(d)
      PROVE  Backed(d)'
  <2>1. PICK r \in paid : opened[r].draft = d /\ opened[r].amount > 0
    BY <1>5 DEF Backed
  <2>2. r \in RzpOrders /\ opened[r] # Unopened
    BY <1>0, <2>1 DEF OrdersAreOfDrafts
  <2>3. r \in paid' /\ opened'[r] = opened[r]
    BY <1>1, <1>2, <2>1, <2>2
  <2>4. QED
    BY <2>1, <2>3 DEF Backed
<1>6. QED
  BY <1>4, <1>5

\* verifyColivePayment starts with a paid order of the draft.
LEMMA CallsStep ==
    ASSUME Inv, [Next]_vars, NEW c \in Calls
    PROVE  SoundCall(c)'
<1>0. /\ TypeOK /\ SoundCall(c) /\ OrdersAreOfDrafts
      /\ call \in [Calls -> Call] /\ paid \subseteq RzpOrders
  BY DEF Inv, TypeOK
<1>1. \A d \in Drafts : Backed(d) => Backed(d)'
  BY OrdersStep
<1>2. CASE call'[c] = call[c]
  <2>1. call[c].at # "idle" => call[c].draft \in Drafts
    BY <1>0 DEF SoundCall
  <2>2. PICK d : d = call[c].draft
    OBVIOUS
  <2>3. call[c].at \in {"confirm", "send"} => d \in Drafts /\ Backed(d)'
    BY <1>0, <1>1, <2>1, <2>2 DEF SoundCall
  <2>4. /\ call'[c].draft = d /\ call'[c].at = call[c].at
        /\ call'[c].amount = call[c].amount
        /\ call[c].at = "open_order" => call[c].amount > 0
    BY <1>0, <1>2, <2>2 DEF SoundCall
  <2>5. QED
    BY <2>1, <2>2, <2>3, <2>4 DEF SoundCall, Backed
<1>3. ASSUME NEW d \in Drafts, NEW amount \in Amounts, StartOrder(c, d, amount)
      PROVE  SoundCall(c)'
  <2>1. call'[c].at = "open_order" /\ call'[c].draft = d /\ call'[c].amount > 0
    BY <1>0, <1>3 DEF StartOrder, Begin
  <2>2. QED
    BY <2>1 DEF SoundCall
<1>4. ASSUME NEW d \in Drafts, NEW r \in RzpOrders, StartVerify(c, d, r)
      PROVE  SoundCall(c)'
  <2>1. call'[c].at = "confirm" /\ call'[c].draft = d
    BY <1>0, <1>4 DEF StartVerify, Begin
  <2>2. r \in paid' /\ opened'[r].draft = d /\ opened'[r].amount > 0
    BY <1>0, <1>4 DEF StartVerify, OrdersAreOfDrafts
  <2>3. QED
    BY <2>1, <2>2 DEF SoundCall, Backed
<1>5. CASE Confirm(c)
  <2>1. /\ call'[c].at = "send" /\ call'[c].draft = call[c].draft
        /\ call[c].draft \in Drafts /\ Backed(call[c].draft)
        /\ opened' = opened /\ paid' = paid
    BY <1>0, <1>5 DEF Confirm, Call, SoundCall
  <2>2. QED
    BY <2>1 DEF SoundCall, Backed
<1>6. ASSUME call' = [call EXCEPT ![c] = Idle]
      PROVE  SoundCall(c)'
  <2>1. call'[c].at = "idle"
    BY <1>0, <1>6 DEF Idle
  <2>2. QED
    BY <2>1 DEF SoundCall
<1>7. ASSUME NEW b \in Calls, b # c, Payments(b)
      PROVE  call'[c] = call[c]
  BY <1>0, <1>7
  DEF Payments, StartOrder, StartVerify, OpenOrder, Confirm, SendInsert, Crash,
      Begin, Answer
<1>8. ASSUME Payments(c)
      PROVE  SoundCall(c)'
  BY <1>3, <1>4, <1>5, <1>6, <1>8 DEF Payments, OpenOrder, SendInsert, Crash, Answer
<1>9. QED
  BY <1>2, <1>7, <1>8, StepKinds, LeftAlone DEF vars, shop

LEMMA PaidStep ==
    ASSUME Inv, [Next]_vars
    PROVE  ConfirmedWasPaid'
<1>0. /\ TypeOK /\ ConfirmedWasPaid /\ (\A c \in Calls : SoundCall(c))
      /\ (\A h \in Handlers : SoundHandler(h))
      /\ messages \in [Drafts -> Nat] /\ stay \in [Drafts -> Stay]
  BY DEF Inv, TypeOK
<1>1. SUFFICES ASSUME NEW d \in Drafts,
                      \/ draft'[d].status = "confirmed" \/ messages'[d] > 0
                      \/ stay'[d].made > 0
               PROVE  Backed(d)'
  BY DEF ConfirmedWasPaid, Backed
<1>2. SUFFICES Backed(d)
  BY OrdersStep
<1>3. ASSUME NEW c \in Calls, call[c].at \in {"confirm", "send"}, call[c].draft = d
      PROVE  Backed(d)
  BY <1>0, <1>3 DEF SoundCall
<1>4. draft[d].status = "confirmed" \/ messages[d] > 0 \/ stay[d].made > 0 => Backed(d)
  BY <1>0 DEF ConfirmedWasPaid, Backed
<1>5. CASE draft'[d].status = "confirmed"
  BY <1>0, <1>3, <1>4, <1>5, DraftStep DEF Confirm
<1>6. CASE messages'[d] > 0
  <2>1. ASSUME NEW c \in Calls, Payments(c)
        PROVE  messages'[d] = messages[d]
               \/ (call[c].at = "send" /\ call[c].draft = d)
    BY <1>0, <2>1
    DEF Payments, StartOrder, StartVerify, OpenOrder, Confirm, SendInsert, Crash, sync
  <2>2. ASSUME NEW e, messages' \in Lessened(e)
        PROVE  messages[d] > 0
    BY <1>0, <1>6, <2>2 DEF Lessened
  <2>3. ASSUME NEW h \in Handlers, Handles(h)
        PROVE  messages' = messages \/ \E e : messages' \in Lessened(e)
    BY <2>3
    DEF Handles, Receive, InsertStay, StoreNumber, ProcessStay, PostPayment,
        Finish, HandlerFails, End
  <2>4. QED
    BY <1>3, <1>4, <1>6, <2>1, <2>2, <2>3, StepKinds, LeftAlone DEF vars, sync
<1>7. CASE stay'[d].made > 0
  <2>1. ASSUME NEW h \in Handlers, Handles(h), stay'[d].made # stay[d].made
        PROVE  handler[h].draft = d /\ handler[h].at = "insert"
    BY <1>0, <2>1
    DEF Handles, Receive, InsertStay, StoreNumber, ProcessStay, PostPayment,
        Finish, HandlerFails, End, Stay
  <2>2. ASSUME NEW h \in Handlers, handler[h].draft = d
        PROVE  Backed(d)
    BY <1>0, <2>2, NamesAssumption DEF SoundHandler
  <2>3. QED
    BY <1>4, <1>7, <2>1, <2>2, StepKinds, LeftAlone DEF vars, sync
<1>8. QED
  BY <1>1, <1>5, <1>6, <1>7
-----------------------------------------------------------------------------
(* The handler. *)

\* A step leaves a handler as it is or is that handler's.
LEMMA WhoHandles ==
    ASSUME TypeOK, [Next]_vars, NEW h \in Handlers
    PROVE  handler'[h] = handler[h] \/ Handles(h)
<1>0. handler \in [Handlers -> Handler]
  BY DEF TypeOK
<1>1. ASSUME NEW k \in Handlers, k # h, Handles(k)
      PROVE  handler'[h] = handler[h]
  BY <1>0, <1>1
  DEF Handles, Receive, Take, InsertStay, StoreNumber, ProcessStay, PostPayment,
      Finish, HandlerFails, End, Goto
<1>2. QED
  BY <1>1, StepKinds, LeftAlone DEF vars, sync

\* eZee forgets nothing.
LEMMA StayGrows ==
    ASSUME TypeOK, [Next]_vars, NEW d \in Drafts
    PROVE  stay'[d].made >= stay[d].made /\ stay[d].processed \subseteq stay'[d].processed
<1>0. stay \in [Drafts -> Stay] /\ stay[d].made \in Nat
  BY DEF TypeOK, Stay
<1>1. ASSUME NEW h \in Handlers, Handles(h)
      PROVE  stay'[d].made >= stay[d].made
             /\ stay[d].processed \subseteq stay'[d].processed
  <2>1. CASE InsertStay(h)
    <3>1. stay' = [stay EXCEPT ![handler[h].draft].made = stay[handler[h].draft].made + 1]
      BY <2>1 DEF InsertStay
    <3>2. QED
      BY <1>0, <3>1 DEF Stay
  <2>2. CASE ProcessStay(h)
    <3>1. stay' = [stay EXCEPT ![handler[h].draft].processed = @ \cup {handler[h].mine}]
      BY <2>2 DEF ProcessStay
    <3>2. QED
      BY <1>0, <3>1 DEF Stay
  <2>3. CASE PostPayment(h)
    <3>1. \/ stay' = stay
          \/ stay' = [stay EXCEPT ![handler[h].draft].posted = @ \cup {handler[h].mine}]
      BY <2>3 DEF PostPayment
    <3>2. QED
      BY <1>0, <3>1 DEF Stay
  <2>4. stay' = stay \/ InsertStay(h) \/ ProcessStay(h) \/ PostPayment(h)
    BY <1>1 DEF Handles, Receive, StoreNumber, Finish, HandlerFails, End
  <2>5. QED
    BY <1>0, <2>1, <2>2, <2>3, <2>4
<1>2. QED
  BY <1>0, <1>1, StepKinds, LeftAlone DEF vars, sync

\* A draft two handlers met over stays marked.
LEMMA OverlappedGrows ==
    ASSUME [Next]_vars
    PROVE  overlapped \subseteq overlapped'
<1>1. ASSUME NEW h \in Handlers, Handles(h)
      PROVE  overlapped \subseteq overlapped'
  BY <1>1
  DEF Handles, Receive, Take, InsertStay, StoreNumber, ProcessStay, PostPayment,
      Finish, HandlerFails, End
<1>2. QED
  BY <1>1, StepKinds, LeftAlone DEF vars, sync

LEMMA HandlersStep ==
    ASSUME Inv, [Next]_vars, NEW h \in Handlers
    PROVE  SoundHandler(h)'
<1>0. /\ TypeOK /\ SoundHandler(h) /\ ConfirmedWasPaid
      /\ handler \in [Handlers -> Handler] /\ stay \in [Drafts -> Stay]
      /\ NoDraft \notin Drafts
      /\ \A d \in Drafts : Backed(d) => Backed(d)'
      /\ \A d \in Drafts : stay[d].made \in Nat /\ stay'[d].made \in Nat
  BY OrdersStep, TypeStep, NamesAssumption DEF Inv, TypeOK, Stay
\* What h relied on it may still rely on.
<1>1. ASSUME NEW d \in Drafts, handler[h].draft = d
      PROVE  /\ handler[h].at # "idle" /\ Backed(d)'
             /\ handler[h].at \in {"store", "process", "pay", "finish"} =>
                   handler[h].mine \in 1..stay'[d].made
             /\ handler[h].at \in {"pay", "finish"} => handler[h].mine \in stay'[d].processed
  <2>1. /\ stay'[d].made >= stay[d].made /\ stay[d].processed \subseteq stay'[d].processed
        /\ stay[d].made \in Nat /\ stay'[d].made \in Nat
    BY <1>0, StayGrows
  <2>2. QED
    BY <1>0, <1>1, <2>1 DEF SoundHandler
<1>2. SUFFICES ASSUME NEW d, d = handler'[h].draft
               PROVE  /\ handler'[h].at = "idle" <=> d = NoDraft
                      /\ d # NoDraft => d \in Drafts /\ Backed(d)'
                      /\ handler'[h].at \in {"store", "process", "pay", "finish"} =>
                            handler'[h].mine \in 1..stay'[d].made
                      /\ handler'[h].at \in {"pay", "finish"} =>
                            handler'[h].mine \in stay'[d].processed
  BY DEF SoundHandler, Backed
<1>3. CASE handler'[h] = handler[h]
  <2>1. CASE d = NoDraft
    BY <1>0, <1>2, <1>3, <2>1 DEF SoundHandler
  <2>2. CASE d \in Drafts
    BY <1>0, <1>1, <1>2, <1>3, <2>2
  <2>3. QED
    BY <1>0, <1>2, <1>3, <2>1, <2>2 DEF SoundHandler
<1>4. ASSUME NEW e \in Drafts, Receive(h, e)
      PROVE  \/ handler'[h] = handler[h]
             \/ handler'[h].at = "insert" /\ d = e /\ d \in Drafts /\ Backed(d)'
  <2>1. messages[e] > 0
    BY <1>4 DEF Receive
  <2>2. Backed(e)
    BY <1>0, <2>1 DEF ConfirmedWasPaid, Backed
  <2>3. Backed(e)'
    BY <1>0, <2>2
  <2>4. \/ handler' = handler
        \/ handler' = [handler EXCEPT ![h] = [at |-> "insert", draft |-> e, mine |-> 0]]
    BY <1>4 DEF Receive, Take
  <2>5. QED
    BY <1>0, <1>2, <2>3, <2>4
<1>5. CASE InsertStay(h)
  <2>1. PICK e \in Drafts : e = handler[h].draft
    BY <1>0, <1>5 DEF InsertStay, SoundHandler
  <2>2. /\ stay' = [stay EXCEPT ![e].made = stay[e].made + 1]
        /\ handler' = [handler EXCEPT ![h].at = "store", ![h].mine = stay[e].made + 1]
    BY <1>5, <2>1 DEF InsertStay
  <2>3. /\ handler'[h].at = "store" /\ handler'[h].draft = e
        /\ handler'[h].mine = stay[e].made + 1 /\ stay'[e].made = stay[e].made + 1
    BY <1>0, <2>1, <2>2 DEF Handler, Stay
  <2>4. QED
    BY <1>0, <1>1, <1>2, <2>1, <2>3
<1>6. CASE StoreNumber(h)
  <2>1. PICK e \in Drafts : e = handler[h].draft
    BY <1>0, <1>6 DEF StoreNumber, SoundHandler
  <2>2. /\ handler'[h].at = "process" /\ handler'[h].draft = e
        /\ handler'[h].mine = handler[h].mine /\ handler[h].at = "store"
    BY <1>0, <1>6, <2>1 DEF StoreNumber, Goto, Handler
  <2>3. QED
    BY <1>0, <1>1, <1>2, <2>1, <2>2
<1>7. CASE ProcessStay(h)
  <2>1. PICK e \in Drafts : e = handler[h].draft
    BY <1>0, <1>7 DEF ProcessStay, SoundHandler
  <2>2. /\ handler'[h].at = "pay" /\ handler'[h].draft = e
        /\ handler'[h].mine = handler[h].mine /\ handler[h].at = "process"
    BY <1>0, <1>7, <2>1 DEF ProcessStay, Goto, Handler
  <2>3. stay' = [stay EXCEPT ![e].processed = @ \cup {handler[h].mine}]
    BY <1>7, <2>1 DEF ProcessStay
  <2>4. handler[h].mine \in stay'[e].processed
    BY <1>0, <2>3 DEF Stay
  <2>5. QED
    BY <1>0, <1>1, <1>2, <2>1, <2>2, <2>4
<1>8. CASE PostPayment(h)
  <2>1. PICK e \in Drafts : e = handler[h].draft
    BY <1>0, <1>8 DEF PostPayment, SoundHandler
  <2>2. /\ handler'[h].at = "finish" /\ handler'[h].draft = e
        /\ handler'[h].mine = handler[h].mine /\ handler[h].at = "pay"
    BY <1>0, <1>8, <2>1 DEF PostPayment, Goto, Handler
  <2>3. QED
    BY <1>0, <1>1, <1>2, <2>1, <2>2
<1>9. CASE Finish(h) \/ HandlerFails(h)
  <2>1. handler'[h] = Free
    BY <1>0, <1>9 DEF Finish, HandlerFails, End
  <2>2. QED
    BY <1>0, <1>2, <2>1 DEF Free
<1>10. ASSUME NEW e \in Drafts, Receive(h, e), handler'[h] # handler[h]
       PROVE  /\ handler'[h].at = "idle" <=> d = NoDraft
              /\ d # NoDraft => d \in Drafts /\ Backed(d)'
              /\ handler'[h].at \in {"store", "process", "pay", "finish"} =>
                    handler'[h].mine \in 1..stay'[d].made
              /\ handler'[h].at \in {"pay", "finish"} =>
                    handler'[h].mine \in stay'[d].processed
  BY <1>0, <1>4, <1>10
<1>11. CASE Handles(h) /\ handler'[h] # handler[h]
  BY <1>5, <1>6, <1>7, <1>8, <1>9, <1>10, <1>11 DEF Handles
<1>12. QED
  BY <1>0, <1>3, <1>11, WhoHandles

\* A handler of another draft does not touch this one.
LEMMA OtherDraft ==
    ASSUME TypeOK, \A c \in Calls : SoundCall(c), [Next]_vars, NEW d \in Drafts,
           \A h \in Handlers : Handles(h) =>
              handler[h].draft # d /\ ~Receive(h, d)
    PROVE  /\ stay'[d] = stay[d] /\ draft'[d].number = draft[d].number
           /\ draft'[d].sync = "SYNCED" => draft[d].sync = "SYNCED"
           /\ d \notin overlapped => d \notin overlapped'
           /\ \A h \in Handlers : handler'[h].draft = d => handler'[h] = handler[h]
<1>0. /\ handler \in [Handlers -> Handler] /\ stay \in [Drafts -> Stay]
      /\ overlapped \subseteq Drafts
  BY DEF TypeOK
<1>1. ASSUME NEW h \in Handlers, Handles(h)
      PROVE  /\ stay'[d] = stay[d]
             /\ d \notin overlapped => d \notin overlapped'
             /\ handler'[h].draft # d
  <2>1. handler[h].draft # d /\ ~Receive(h, d)
    BY <1>1
  <2>2. ASSUME NEW e \in Drafts, Receive(h, e)
        PROVE  /\ stay' = stay /\ overlapped' \subseteq overlapped \cup {e}
               /\ handler'[h].draft \in {handler[h].draft, e} /\ e # d
    BY <1>0, <2>1, <2>2 DEF Receive, Take
  <2>3. CASE InsertStay(h)
    BY <1>0, <2>1, <2>3 DEF InsertStay, Handler
  <2>4. CASE StoreNumber(h) \/ ProcessStay(h) \/ PostPayment(h)
    BY <1>0, <2>1, <2>4 DEF StoreNumber, ProcessStay, PostPayment, Goto, Handler
  <2>5. CASE Finish(h) \/ HandlerFails(h)
    <3>1. stay' = stay /\ overlapped' = overlapped /\ handler'[h] = Free
      BY <1>0, <2>5 DEF Finish, HandlerFails, End
    <3>2. QED
      BY <3>1, NamesAssumption DEF Free
  <2>6. QED
    BY <1>1, <2>1, <2>2, <2>3, <2>4, <2>5 DEF Handles
<1>2. stay'[d] = stay[d] /\ (d \notin overlapped => d \notin overlapped')
  BY <1>1, StepKinds, LeftAlone DEF vars, sync
<1>3. \A h \in Handlers : handler'[h].draft = d => handler'[h] = handler[h]
  BY <1>1, WhoHandles
<1>4. draft'[d].number = draft[d].number
      /\ (draft'[d].sync = "SYNCED" => draft[d].sync = "SYNCED")
  BY DraftStep DEF Handles
<1>5. QED
  BY <1>2, <1>3, <1>4

\* Every step keeps what is promised of a draft.
LEMMA HandledStep ==
    ASSUME Inv, [Next]_vars, NEW d \in Drafts
    PROVE  Promised(d)' /\ (d \in overlapped' \/ Numbered(d)')
<1>0. /\ TypeOK /\ (\A c \in Calls : SoundCall(c)) /\ (\A h \in Handlers : SoundHandler(h))
      /\ Promised(d) /\ (d \in overlapped \/ Numbered(d))
      /\ draft \in [Drafts -> DraftRow] /\ handler \in [Handlers -> Handler]
      /\ stay \in [Drafts -> Stay] /\ NoDraft \notin Drafts
  BY NamesAssumption DEF Inv, TypeOK
<1>1. /\ \/ draft'[d].number = draft[d].number
         \/ \E h \in Handlers : /\ StoreNumber(h) /\ handler[h].draft = d
                                /\ draft'[d].number = handler[h].mine
      /\ draft'[d].sync = "SYNCED" =>
            \/ draft[d].sync = "SYNCED"
            \/ \E h \in Handlers : Finish(h) /\ handler[h].draft = d
  BY <1>0, DraftStep
<1>2. CASE \A h \in Handlers : Handles(h) => handler[h].draft # d /\ ~Receive(h, d)
  <2>1. /\ stay'[d] = stay[d] /\ draft'[d].number = draft[d].number
        /\ draft'[d].sync = "SYNCED" => draft[d].sync = "SYNCED"
        /\ d \notin overlapped => d \notin overlapped'
        /\ \A h \in Handlers : handler'[h].draft = d => handler'[h] = handler[h]
    BY <1>0, <1>2, OtherDraft
  <2>2. Promised(d)'
    BY <1>0, <2>1 DEF Promised
  <2>3. ASSUME d \notin overlapped'
        PROVE  Numbered(d)'
    <3>1. d \in overlapped => d \in overlapped'
      BY OverlappedGrows
    <3>2. Numbered(d)
      BY <1>0, <2>3, <3>1
    <3>3. QED
      BY <2>1, <3>2 DEF Numbered
  <2>4. QED
    BY <2>2, <2>3
<1>3. ASSUME NEW h \in Handlers, Receive(h, d)
      PROVE  Promised(d)' /\ (d \in overlapped' \/ Numbered(d)')
  <2>1. /\ stay' = stay /\ draft' = draft /\ handler[h] = Free
        /\ \/ draft[d].number # 0 /\ handler' = handler /\ overlapped' = overlapped
           \/ draft[d].number = 0 /\ Take(h, d)
    BY <1>3 DEF Receive, shop
  <2>2. Promised(d)'
    BY <1>0, <2>1 DEF Promised
  <2>3. CASE handler' = handler /\ overlapped' = overlapped
    BY <1>0, <2>1, <2>2, <2>3 DEF Numbered
  <2>4. CASE draft[d].number = 0 /\ Take(h, d) /\ d \notin overlapped'
    <3>1. /\ handler' = [handler EXCEPT ![h] = [at |-> "insert", draft |-> d, mine |-> 0]]
          /\ d \notin overlapped /\ \A k \in Handlers : handler[k].draft # d
      BY <2>4 DEF Take
    <3>2. \A k \in Handlers : handler'[k].draft = d => k = h
      BY <1>0, <3>1
    <3>3. handler'[h].at = "insert"
      BY <1>0, <3>1
    <3>4. Numbered(d)
      BY <1>0, <3>1
    <3>5. QED
      BY <2>1, <2>2, <2>4, <3>2, <3>3, <3>4 DEF Numbered
  <2>5. QED
    BY <2>1, <2>2, <2>3, <2>4
\* The other steps are those of a handler that has a message of d.
<1>4. ASSUME NEW h \in Handlers, Handles(h), handler[h].draft = d,
             \A e \in Drafts : ~Receive(h, e)
      PROVE  Promised(d)' /\ (d \in overlapped' \/ Numbered(d)')
  <2>0. /\ overlapped' = overlapped /\ h \in Handlers
        /\ \A k \in Handlers : k # h => handler'[k] = handler[k]
        /\ d \notin overlapped => \A k \in Handlers : handler[k].draft = d => k = h
    <3>1. overlapped' = overlapped
      BY <1>4 DEF Handles, InsertStay, StoreNumber, ProcessStay, PostPayment, Finish,
                  HandlerFails, End
    <3>2. \A k \in Handlers : k # h => handler'[k] = handler[k]
      BY <1>0, <1>4 DEF Handles, InsertStay, StoreNumber, ProcessStay, PostPayment,
                        Finish, HandlerFails, End, Goto
    <3>3. QED
      BY <1>0, <1>4, <3>1, <3>2 DEF Numbered
  <2>1. ASSUME d \notin overlapped
        PROVE  /\ handler[h].at \in {"insert", "store"} => draft[d].number = 0
               /\ handler[h].at \in {"process", "pay", "finish"} =>
                     draft[d].number = handler[h].mine
               /\ draft[d].number = 0 => stay[d].posted = {}
               /\ stay[d].posted \subseteq {draft[d].number}
               /\ draft[d].sync = "SYNCED" => draft[d].number \in stay[d].processed
    BY <1>0, <1>4, <2>1 DEF Numbered
  <2>2. CASE InsertStay(h)
    <3>1. /\ stay'[d].posted = stay[d].posted /\ stay'[d].processed = stay[d].processed
          /\ draft' = draft /\ handler[h].at = "insert" /\ handler'[h].at = "store"
          /\ handler'[h].draft = d
      BY <1>0, <1>4, <2>2 DEF InsertStay, shop, Handler, Stay
    <3>2. QED
      BY <1>0, <2>0, <2>1, <3>1 DEF Numbered, Promised
  <2>3. CASE StoreNumber(h)
    <3>1. /\ stay' = stay /\ draft'[d].number = handler[h].mine
          /\ draft'[d].sync = "PARTIAL" /\ handler[h].at = "store"
          /\ handler'[h].at = "process" /\ handler'[h].mine = handler[h].mine
          /\ handler'[h].draft = d
      BY <1>0, <1>4, <2>3 DEF StoreNumber, Goto, Handler, DraftRow
    <3>2. QED
      BY <1>0, <2>0, <2>1, <3>1 DEF Numbered, Promised
  <2>4. CASE ProcessStay(h)
    <3>1. /\ stay'[d].posted = stay[d].posted
          /\ stay'[d].processed = stay[d].processed \cup {handler[h].mine}
          /\ draft' = draft /\ handler[h].at = "process" /\ handler'[h].at = "pay"
          /\ handler'[h].mine = handler[h].mine /\ handler'[h].draft = d
      BY <1>0, <1>4, <2>4 DEF ProcessStay, Goto, shop, Handler, Stay
    <3>2. QED
      BY <1>0, <2>0, <2>1, <3>1 DEF Numbered, Promised
  <2>5. CASE PostPayment(h)
    <3>1. /\ stay'[d].posted \in {stay[d].posted, stay[d].posted \cup {handler[h].mine}}
          /\ stay'[d].processed = stay[d].processed
          /\ draft' = draft /\ handler[h].at = "pay" /\ handler'[h].at = "finish"
          /\ handler'[h].mine = handler[h].mine /\ handler'[h].draft = d
      BY <1>0, <1>4, <2>5 DEF PostPayment, Goto, shop, Handler, Stay
    <3>2. handler[h].mine \in stay[d].processed /\ handler[h].mine \in 1..stay[d].made
      BY <1>0, <1>4, <3>1 DEF SoundHandler
    <3>3. handler[h].mine # 0
      BY <1>0, <3>2 DEF Stay
    <3>4. QED
      BY <1>0, <2>0, <2>1, <3>1, <3>2, <3>3 DEF Numbered, Promised
  <2>6. CASE Finish(h) \/ HandlerFails(h)
    <3>1. stay' = stay /\ handler'[h].draft = NoDraft
      BY <1>0, <2>6 DEF Finish, HandlerFails, End, Free
    <3>2. draft'[d].number = draft[d].number
      BY <1>0, <1>4, <2>6 DEF Finish, HandlerFails, End, DraftRow
    <3>3. draft'[d].sync = "SYNCED" => draft[d].sync = "SYNCED" \/ handler[h].at = "finish"
      BY <1>0, <1>4, <2>6 DEF Finish, HandlerFails, End, DraftRow
    <3>4. handler[h].at = "finish" => handler[h].mine \in stay[d].processed
      BY <1>0, <1>4 DEF SoundHandler
    <3>5. QED
      BY <1>0, <2>0, <2>1, <3>1, <3>2, <3>3, <3>4 DEF Numbered, Promised
  <2>7. QED
    BY <1>4, <2>2, <2>3, <2>4, <2>5, <2>6 DEF Handles
<1>5. ASSUME NEW h \in Handlers, NEW e \in Drafts, Receive(h, e)
      PROVE  handler[h].draft = NoDraft
  BY <1>5 DEF Receive, Free
<1>6. QED
  BY <1>0, <1>2, <1>3, <1>4, <1>5
-----------------------------------------------------------------------------
THEOREM InvHolds == Spec => []Inv
<1>1. Inv /\ [Next]_vars => Inv'
  <2>1. SUFFICES ASSUME Inv, [Next]_vars PROVE Inv'
    OBVIOUS
  <2>2. \A d \in Drafts : Promised(d)' /\ (d \in overlapped' \/ Numbered(d)')
    BY <2>1, HandledStep
  <2>3. (\A q \in Quotes : SoundQuote(q)') /\ (\A d \in Drafts : SoundDraft(d)')
    BY <2>1, QuotesStep, DraftsStep
  <2>4. (\A c \in Calls : SoundCall(c)') /\ (\A h \in Handlers : SoundHandler(h)')
    BY <2>1, CallsStep, HandlersStep
  <2>5. TypeOK' /\ OrdersAreOfDrafts' /\ ConfirmedWasPaid'
    BY <2>1, TypeStep, OrdersStep, PaidStep
  <2>6. QED
    BY <2>2, <2>3, <2>4, <2>5 DEF Inv
<1>2. QED
  BY InitInv, <1>1, PTL DEF Spec

\* Rows, calls and what eZee knows stay of their types: every price is a number.
THEOREM TypeCorrect == Spec => []TypeOK
<1>1. Inv => TypeOK
  BY DEF Inv
<1>2. QED
  BY <1>1, InvHolds, PTL

\* From one answer of eZee searchInventory and getPropertyDetail show the same
\* price and availability of a room, but for what its own rows differ in.
THEOREM SearchAgrees == Spec => []SearchAgreesWithDetail
<1>1. TypeOK => SearchAgreesWithDetail
  <2>1. SUFFICES ASSUME TypeOK, cached # NoAnswer
                 PROVE  SearchAgreesWithDetail
    BY DEF SearchAgreesWithDetail
  <2>2. cached \in Answers
    BY <2>1 DEF TypeOK
  <2>3. Listing(cached)
    BY <2>2, AnswersAssumption DEF Listing
  <2>4. QED
    BY <2>3, RatesAgree DEF SearchAgreesWithDetail
<1>2. QED
  BY <1>1, TypeCorrect, PTL

\* createDraftBooking adds up what createQuote said, for the same request.
THEOREM DraftsCostTheirQuote == Spec => []DraftCostsAsQuoted
BY PriceIsQuoted, InvHolds, PTL

\* However orders are replaced and calls overlap, no draft is confirmed unpaid.
THEOREM ConfirmedIsPaid == Spec => []ConfirmedWasPaid
<1>1. Inv => ConfirmedWasPaid
  BY DEF Inv
<1>2. QED
  BY <1>1, InvHolds, PTL

\* However often handlers are tried and whatever runs beside them, the payment
\* is posted to processed reservations, and to the one of the draft alone unless
\* two handlers of its message ran beside each other.
THEOREM PaymentPostedOnce == Spec => []PostedOnce
<1>1. Inv => PostedOnce
  BY DEF Inv, PostedOnce, Promised, Numbered
<1>2. QED
  BY <1>1, InvHolds, PTL

\* Whoever wrote SYNCED, a reservation of the draft was processed, and the one
\* it names unless two handlers of its message ran beside each other.
THEOREM SyncedWasProcessed == Spec => []SyncedIsProcessed
<1>1. Inv => SyncedIsProcessed
  BY DEF Inv, SyncedIsProcessed, Promised, Numbered
<1>2. QED
  BY <1>1, InvHolds, PTL
=============================================================================
