---------------------------- MODULE ColivePricing ----------------------------
(***************************************************************************)
(* What a long stay costs (ColiveService): the price a search advertises,  *)
(* the price of a room's card, the lines of a quote and those of a draft.  *)
(* Each of the four is computed by a method of its own, from rates that    *)
(* eZee may or may not list a room in.                                     *)
(***************************************************************************)
EXTENDS Integers, Sequences, FiniteSets, FiniteSetsExt

CONSTANTS
    Rooms,        \* room options of the property
    MonthPrice,   \* colive_price_month of a room, 0 if not configured
    BasePrice,    \* base_price_per_night of a room
    ForTwo,       \* rooms with max_guests >= 2
    ForRemote,    \* rooms recommended for remote work, or for nobody
    Addons,       \* rows of `colive_addons`
    UnitPrice, MaxQuantity, PerMonth, OnSale   \* their columns

ASSUME PriceAssumption ==
    /\ MonthPrice \in [Rooms -> Nat] /\ BasePrice \in [Rooms -> Nat]
    /\ UnitPrice \in [Addons -> Nat] /\ MaxQuantity \in [Addons -> Nat]
    /\ PerMonth \subseteq Addons /\ OnSale \subseteq Addons
    /\ ForTwo \subseteq Rooms /\ ForRemote \subseteq Rooms
ASSUME TablesAssumption == IsFiniteSet(Rooms) /\ IsFiniteSet(Addons)
-----------------------------------------------------------------------------
\* Math.round of a fraction that is not negative.
Rounded(a, b) == (2 * a + b) \div (2 * b)

\* Five per cent GST.
Tax(amount) == Rounded(5 * amount, 100)

Months(days) == days \div 30
ExtraDays(days) == days % 30

\* eZee answers with rows, of which a room may have several: `rates` maps each
\* room that is listed to its rows in their order.  The search puts them into a
\* Map, where the last row of a room stays; the page and the quote look for the
\* first.
Last(rates) == [room \in DOMAIN rates |-> rates[room][Len(rates[room])]]
First(rates) == [room \in DOMAIN rates |-> rates[room][1]]

\* `row` maps the rooms listed to the row that counts.
Units(row, room) == IF room \in DOMAIN row THEN row[room].units ELSE 0

\* The two fallbacks differ (?? and ||): a rate of 0 counts when it is shown,
\* and does not when it is charged.
ShownRate(row, room) ==
    IF room \in DOMAIN row THEN row[room].rate ELSE BasePrice[room]
ChargedRate(row, room) ==
    IF room \in DOMAIN row /\ row[room].rate # 0 THEN row[room].rate
    ELSE BasePrice[room]

Monthly(row, room) ==
    IF MonthPrice[room] # 0 THEN MonthPrice[room] ELSE 30 * ShownRate(row, room)
-----------------------------------------------------------------------------
(* searchInventory: the property's card. *)

\* The lowest price of a month, whoever asks; 0 if there is none.
PriceFrom(rates) ==
    LET prices == {Monthly(Last(rates), room) : room \in Rooms} \ {0}
    IN  IF prices = {} THEN 0 ELSE Min(prices)

\* Mutant of FewestUnits: the most plentiful room decides.
MostUnits(rates) ==
    IF Rooms = {} THEN 0 ELSE Max({Units(Last(rates), room) : room \in Rooms})

\* The scarcest room decides.
FewestUnits(rates) ==
    IF Rooms = {} THEN 0 ELSE Min({Units(Last(rates), room) : room \in Rooms})

InventoryState(units) ==
    CASE units <= 0 -> "sold_out"
      [] units \in 1..2 -> "limited"
      [] OTHER -> "available"

StayTypes == {"solo", "couple", "remote"}

\* A property is listed if one of its rooms fits the stay.
Listed(stayType) ==
    \E room \in Rooms :
        /\ stayType = "couple" => room \in ForTwo
        /\ stayType = "remote" => room \in ForRemote

(* getPropertyDetail: the cards of its rooms. *)
Cards(rates, stayType) ==
    {[room |-> room, monthly |-> Monthly(First(rates), room),
      units |-> Units(First(rates), room)] :
        room \in {r \in Rooms : stayType = "couple" => r \in ForTwo}}
-----------------------------------------------------------------------------
(* createQuote and createDraftBooking. *)

AddonLine(addon, quantity, days) ==
    UnitPrice[addon] * Min({quantity, MaxQuantity[addon]})
        * (IF addon \in PerMonth THEN Months(days) ELSE 1)

\* `wanted` maps every addon to a quantity.
Chosen(wanted) == {addon \in Addons : wanted[addon] > 0}
AddonTotal(addons, wanted, days) ==
    MapThenSumSet(LAMBDA addon : AddonLine(addon, wanted[addon], days), addons)

RoomTotal(rates, room, days) ==
    Months(days) * MonthPrice[room] + ExtraDays(days) * ChargedRate(First(rates), room)

\* A quote skips what is not on sale.
Priced(rates, room, days, wanted) ==
    LET subtotal == RoomTotal(rates, room, days)
                      + AddonTotal(Chosen(wanted) \cap OnSale, wanted, days)
    IN  [room |-> RoomTotal(rates, room, days), tax |-> Tax(subtotal),
         grand |-> subtotal + Tax(subtotal)]

\* Mutant of DraftTotal: tax is left out.
DraftTotalUntaxed(price, days, wanted) ==
    price.room + AddonTotal(Chosen(wanted), wanted, days)

\* A draft adds its own addons to the room and the tax of the quote.
DraftTotal(price, days, wanted) ==
    price.room + AddonTotal(Chosen(wanted), wanted, days) + price.tax
=============================================================================
