------------------------------ MODULE Lending ------------------------------
(***************************************************************************)
(* Things lent to guests: BORROWABLE products that a guest takes from the  *)
(* store page or staff hand out, RETURNABLE ones that were paid for and    *)
(* are issued at check-in (AdminInventoryService, GuestStoreService).      *)
(*                                                                         *)
(* Several guests and members of staff work at once.  A call reads, then   *)
(* writes in one transaction; between the two another call may run.        *)
(***************************************************************************)
EXTENDS Stock, FiniteSets

CONSTANTS
    Borrowables,    \* products of category BORROWABLE
    Returnables,    \* products of category RETURNABLE
    Stays,          \* a guest together with one of their bookings
    Ordered,        \* units of a returnable in a stay's PAID order item
    Loans,          \* rows of borrowable_checkouts and returnable_checkouts
    Calls,          \* calls that can be running at one time
    InitialStock,   \* units of each product when the model starts
    Quantities,     \* bound: units restocked, written off or issued by a call
    MaxBought,      \* bound: units of a product that ever arrive
    NoProduct, NoStay, NoLoan   \* "not set"

Products == Borrowables \cup Returnables

ASSUME OrderedAssumption == Ordered \in [Stays -> [Returnables -> Nat]]
ASSUME LoansAssumption == IsFiniteSet(Loans)
ASSUME InitialUnitsAssumption == InitialStock \in [Products -> Nat]
ASSUME QuantitiesAssumption == Quantities \subseteq Nat \ {0}

VARIABLES
    stock,    \* inventory: product -> row
    listed,   \* products whose is_active is set
    loan,     \* checkout rows
    call,     \* what each running call has read and is about to write
    bought    \* units of each product that ever arrived (history)

vars == <<stock, listed, loan, call, bought>>
-----------------------------------------------------------------------------
Open == {"CHECKED_OUT", "ISSUED"}

Conditions == {"GOOD", "DAMAGED", "LOST"}

LoanRow == [status : Open \cup {"none", "RETURNED", "LOST"},
            product : Products \cup {NoProduct}, stay : Stays \cup {NoStay},
            qty : Nat]

NoRow == [status |-> "none", product |-> NoProduct, stay |-> NoStay,
          qty |-> 0]

\* The next await of a call: a guest asks, staff lend, issue, take back or
\* write off.
Steps == {"idle", "ask_loans", "ask_tx", "lend_tx", "issue_loans", "issue_tx",
          "return_tx", "damage_tx"}

Call == [at : Steps, product : Products \cup {NoProduct},
         stay : Stays \cup {NoStay}, qty : Nat,
         loan : Loans \cup {NoLoan}, condition : Conditions]

Idle == [at |-> "idle", product |-> NoProduct, stay |-> NoStay, qty |-> 0,
         loan |-> NoLoan, condition |-> "GOOD"]

\* A call about units of a product, and one that takes a loan back.
About(step, product, stay, q) ==
    [Idle EXCEPT !.at = step, !.product = product, !.stay = stay, !.qty = q]

TakingBack(l, condition) ==
    [Idle EXCEPT !.at = "return_tx", !.loan = l, !.condition = condition]

TypeOK ==
    /\ stock \in [Products -> Row]
    /\ listed \subseteq Products
    /\ loan \in [Loans -> LoanRow]
    /\ call \in [Calls -> Call]
    /\ bought \in [Products -> Nat]

Init ==
    /\ stock = [product \in Products |-> NewRow(InitialStock[product])]
    /\ listed = Products
    /\ loan = [l \in Loans |-> NoRow]
    /\ call = [c \in Calls |-> Idle]
    /\ bought = InitialStock

\* An idle call begins as it says; a running one goes on or is answered.
Begin(c, as) == call[c].at = "idle" /\ call' = [call EXCEPT ![c] = as]
GoTo(c, step) == call' = [call EXCEPT ![c].at = step]
Answer(c) == call' = [call EXCEPT ![c] = Idle]

Available(product) == stock[product]["available"]

\* The loans of a product to a stay, and the units they add up to.
LoansOf(stay, product) ==
    {l \in Loans : loan[l].stay = stay /\ loan[l].product = product}

UnitsOf(loans) == UNION {{l} \X (1..loan[l].qty) : l \in loans}
-----------------------------------------------------------------------------
(* Lending: requestBorrowable, borrowableCheckout and returnableIssue.     *)

\* A guest asks for a borrowable: the product is listed and on the shelf.
StartAsk(c, stay, product) ==
    /\ product \in Borrowables \cap listed
    /\ Available(product) > 0
    /\ Begin(c, About("ask_loans", product, stay, 1))
    /\ UNCHANGED <<stock, listed, loan, bought>>

\* A guest who still has one is refused.
ReadLoansToAsk(c) ==
    /\ call[c].at = "ask_loans"
    /\ IF \E l \in LoansOf(call[c].stay, call[c].product) :
              loan[l].status = "CHECKED_OUT"
       THEN Answer(c) ELSE GoTo(c, "ask_tx")
    /\ UNCHANGED <<stock, listed, loan, bought>>

\* Staff lend a borrowable, listed or not, to a guest who may have one.
StartLend(c, stay, product) ==
    /\ product \in Borrowables
    /\ Available(product) >= 1
    /\ Begin(c, About("lend_tx", product, stay, 1))
    /\ UNCHANGED <<stock, listed, loan, bought>>

\* Staff issue what a stay has paid for.
StartIssue(c, stay, product, q) ==
    /\ product \in Returnables \cap listed
    /\ Available(product) >= q
    /\ Ordered[stay][product] > 0
    /\ Begin(c, About("issue_loans", product, stay, q))
    /\ UNCHANGED <<stock, listed, loan, bought>>

\* "Check not over-issuing": all loans of the order item count, returned ones
\* too.
ReadLoansToIssue(c) ==
    LET stay == call[c].stay
        product == call[c].product
    IN  /\ call[c].at = "issue_loans"
        /\ IF Cardinality(UnitsOf(LoansOf(stay, product))) + call[c].qty
                  > Ordered[stay][product]
           THEN Answer(c) ELSE GoTo(c, "issue_tx")
        /\ UNCHANGED <<stock, listed, loan, bought>>

\* Mutant of LentRow: what is lent stays on the shelf.
LentRowOneSided(row, q) == [row EXCEPT !["borrowed"] = @ + q]

\* The three lend alike.
LentRow(row, q) == Move(row, "available", "borrowed", q)

\* The CHECK constraints decide, whatever was read before.
Accepted(row) == Legal(row)

\* Only a guest's own request reads the row again, under a lock.
LendPossible(c) ==
    /\ call[c].at = "ask_tx" => Available(call[c].product) > 0
    /\ Accepted(LentRow(stock[call[c].product], call[c].qty))

NewLoan(c) ==
    [status |-> IF call[c].at = "issue_tx" THEN "ISSUED" ELSE "CHECKED_OUT",
     product |-> call[c].product, stay |-> call[c].stay, qty |-> call[c].qty]

\* The transaction of the three: a new checkout row, units lent.
LendTx(c, l) ==
    /\ call[c].at \in {"ask_tx", "lend_tx", "issue_tx"}
    /\ LendPossible(c)
    /\ loan[l].status = "none"
    /\ loan' = [loan EXCEPT ![l] = NewLoan(c)]
    /\ stock' = [stock EXCEPT ![call[c].product] = LentRow(@, call[c].qty)]
    /\ Answer(c)
    /\ UNCHANGED <<listed, bought>>

LendAbort(c) ==
    /\ call[c].at \in {"ask_tx", "lend_tx", "issue_tx"}
    /\ ~LendPossible(c)
    /\ Answer(c)
    /\ UNCHANGED <<stock, listed, loan, bought>>
-----------------------------------------------------------------------------
(* Taking back: verifyReturn and returnableVerifyReturn. *)

\* A borrowable comes back whole.  The row is read outside the transaction.
StartReturn(c, l) ==
    /\ loan[l].status # "none" /\ loan[l].product \in Borrowables
    /\ loan[l].status # "RETURNED"
    /\ Begin(c, TakingBack(l, "GOOD"))
    /\ UNCHANGED <<stock, listed, loan, bought>>

StartReturnOfReturnable(c, l, condition) ==
    /\ loan[l].status = "ISSUED"
    /\ Begin(c, TakingBack(l, condition))
    /\ UNCHANGED <<stock, listed, loan, bought>>

\* Mutant of ClosedAs: the condition is stored as the status.
ClosedAsGiven(condition) == condition

\* The status of a loan that was taken back.
ClosedAs(condition) == IF condition = "LOST" THEN "LOST" ELSE "RETURNED"

\* Mutants of ReturnedRow: good units are still counted as lent; damaged ones
\* stay in the total.
ReturnedRowStillLent(row, condition, q) ==
    IF condition = "GOOD" THEN Restocked(row, q)
                          ELSE WrittenOff(row, "borrowed", q)

ReturnedRowKeepingTotal(row, condition, q) ==
    IF condition = "GOOD" THEN Move(row, "borrowed", "available", q)
                          ELSE Move(row, "borrowed", "damaged", q)

\* Good units go back on the shelf, the others leave the stock.
ReturnedRow(row, condition, q) ==
    IF condition = "GOOD" THEN Move(row, "borrowed", "available", q)
                          ELSE WrittenOff(row, "borrowed", q)

\* The inventory row that the return writes.
RowAfterReturn(c) ==
    LET l == call[c].loan
    IN  ReturnedRow(stock[loan[l].product], call[c].condition, loan[l].qty)

\* Neither update looks at the loan's status again.
ReturnTx(c) ==
    LET l == call[c].loan
    IN  /\ call[c].at = "return_tx"
        /\ Accepted(RowAfterReturn(c))
        /\ loan' = [loan EXCEPT ![l].status = ClosedAs(call[c].condition)]
        /\ stock' = [stock EXCEPT ![loan[l].product] = RowAfterReturn(c)]
        /\ Answer(c)
        /\ UNCHANGED <<listed, bought>>

ReturnAbort(c) ==
    /\ call[c].at = "return_tx"
    /\ ~Accepted(RowAfterReturn(c))
    /\ Answer(c)
    /\ UNCHANGED <<stock, listed, loan, bought>>
-----------------------------------------------------------------------------
(* Stock keeping: restock, markDamaged and updateProduct. *)

Restock(product, q) ==
    /\ bought[product] + q <= MaxBought
    /\ stock' = [stock EXCEPT ![product] = Restocked(@, q)]
    /\ bought' = [bought EXCEPT ![product] = @ + q]
    /\ UNCHANGED <<listed, loan, call>>

StartDamage(c, product, q) ==
    /\ Available(product) >= q
    /\ Begin(c, About("damage_tx", product, NoStay, q))
    /\ UNCHANGED <<stock, listed, loan, bought>>

DamageTx(c) ==
    LET row == WrittenOff(stock[call[c].product], "available", call[c].qty)
    IN  /\ call[c].at = "damage_tx"
        /\ Accepted(row)
        /\ stock' = [stock EXCEPT ![call[c].product] = row]
        /\ Answer(c)
        /\ UNCHANGED <<listed, loan, bought>>

DamageAbort(c) ==
    /\ call[c].at = "damage_tx"
    /\ ~Accepted(WrittenOff(stock[call[c].product], "available", call[c].qty))
    /\ Answer(c)
    /\ UNCHANGED <<stock, listed, loan, bought>>

\* updateProduct lists a product or takes it off the list.
SetListed(product) ==
    /\ listed' = IF product \in listed THEN listed \ {product}
                                       ELSE listed \cup {product}
    /\ UNCHANGED <<stock, loan, call, bought>>
-----------------------------------------------------------------------------
Guests ==
    \E c \in Calls, stay \in Stays, product \in Products : StartAsk(c, stay, product)

Staff ==
    \/ \E c \in Calls, stay \in Stays, product \in Products :
          \/ StartLend(c, stay, product)
          \/ \E q \in Quantities : StartIssue(c, stay, product, q)
    \/ \E c \in Calls, l \in Loans :
          \/ StartReturn(c, l)
          \/ \E condition \in Conditions : StartReturnOfReturnable(c, l, condition)
    \/ \E c \in Calls, product \in Products, q \in Quantities :
          StartDamage(c, product, q)
    \/ \E product \in Products :
          \/ SetListed(product)
          \/ \E q \in Quantities : Restock(product, q)

GoOn(c) ==
    \/ ReadLoansToAsk(c)
    \/ ReadLoansToIssue(c)
    \/ \E l \in Loans : LendTx(c, l)
    \/ LendAbort(c)
    \/ ReturnTx(c)
    \/ ReturnAbort(c)
    \/ DamageTx(c)
    \/ DamageAbort(c)

Next == Guests \/ Staff \/ \E c \in Calls : GoOn(c)

Spec == Init /\ [][Next]_vars
-----------------------------------------------------------------------------
(* Safety. *)

\* The inventory behaves as StockLedger promises although every check is made
\* before the transaction that relies on it.
Ledger == INSTANCE StockLedger WITH stock <- stock, Products <- Products,
                                    InitialStock <- InitialStock
KeepsLedger == Ledger!Spec

\* Units of a product that open loans say guests have.
UnitsOut(product) ==
    UnitsOf({l \in Loans : loan[l].product = product /\ loan[l].status \in Open})

\* Counted as lent are only units that an open loan accounts for: a return,
\* even one verified twice, never leaves a unit lent to nobody.
LentIsAccounted ==
    \A product \in Products :
        stock[product]["borrowed"] <= Cardinality(UnitsOut(product))

\* No unit disappears from the books: what was bought is in the stock or was
\* written off, whatever staff do at the same time.
BoughtIsAccounted ==
    \A product \in Products :
        stock[product]["total"] + stock[product]["damaged"] = bought[product]
=============================================================================
