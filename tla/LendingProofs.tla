---------------------------- MODULE LendingProofs ----------------------------
(***************************************************************************)
(* Proofs about Lending, for every number of products, stays, checkout     *)
(* rows and overlapping calls.                                             *)
(***************************************************************************)
EXTENDS Lending, FiniteSetTheorems, TLAPS

(* The inductive invariant: types, and what running calls rely on. *)

LoansAreOfProducts ==
    \A l \in Loans : loan[l].status # "none" => loan[l].product \in Products

SoundCall(c) ==
    /\ call[c].at \notin {"idle", "return_tx"} => call[c].product \in Products
    /\ call[c].at = "return_tx" =>
          call[c].loan \in Loans /\ loan[call[c].loan].status # "none"

Inv == TypeOK /\ LoansAreOfProducts /\ \A c \in Calls : SoundCall(c)

LEMMA IdleIsCall == Idle \in Call
BY DEF Idle, Call, Steps, Conditions

\* What a call begins with.
LEMMA AboutIsCall ==
    ASSUME NEW step \in Steps, NEW product \in Products,
           NEW stay \in Stays \cup {NoStay}, NEW q \in Nat
    PROVE  /\ About(step, product, stay, q) \in Call
           /\ About(step, product, stay, q).at = step
           /\ About(step, product, stay, q).product = product
BY DEF About, Idle, Call, Steps, Conditions

LEMMA TakingBackIsCall ==
    ASSUME NEW l \in Loans, NEW condition \in Conditions
    PROVE  /\ TakingBack(l, condition) \in Call
           /\ TakingBack(l, condition).at = "return_tx"
           /\ TakingBack(l, condition).loan = l
BY DEF TakingBack, Idle, Call, Steps, Conditions

LEMMA PlacesAre == "available" \in Places /\ "borrowed" \in Places
BY DEF Places

\* What each transaction does to the counters of the product it is about.
LEMMA LendingChanges ==
    ASSUME NEW row \in Row, NEW q \in Nat
    PROVE  /\ LentRow(row, q) \in Row
           /\ LentRow(row, q)["total"] = row["total"]
           /\ LentRow(row, q)["damaged"] = row["damaged"]
           /\ LentRow(row, q)["borrowed"] = row["borrowed"] + q
BY DEF LentRow, Move, Row, Counters, Places

LEMMA ReturnChanges ==
    ASSUME NEW row \in Row, NEW q \in Nat, NEW condition \in Conditions
    PROVE  /\ ReturnedRow(row, condition, q) \in Row
           /\ ReturnedRow(row, condition, q)["total"]
                 + ReturnedRow(row, condition, q)["damaged"]
                 = row["total"] + row["damaged"]
           /\ ReturnedRow(row, condition, q)["borrowed"] = row["borrowed"] - q
BY DEF ReturnedRow, Move, WrittenOff, Row, Counters, Places

LEMMA DamageChanges ==
    ASSUME NEW row \in Row, NEW q \in Nat
    PROVE  /\ WrittenOff(row, "available", q) \in Row
           /\ WrittenOff(row, "available", q)["total"]
                 + WrittenOff(row, "available", q)["damaged"]
                 = row["total"] + row["damaged"]
           /\ WrittenOff(row, "available", q)["borrowed"] = row["borrowed"]
BY DEF WrittenOff, Row, Counters, Places

LEMMA RestockChanges ==
    ASSUME NEW row \in Row, NEW q \in Nat
    PROVE  /\ Restocked(row, q) \in Row
           /\ Restocked(row, q)["total"] = row["total"] + q
           /\ Restocked(row, q)["damaged"] = row["damaged"]
           /\ Restocked(row, q)["borrowed"] = row["borrowed"]
BY DEF Restocked, Row, Counters, Places

\* A call that is about to write names what it writes.
LEMMA LendsAProduct ==
    ASSUME Inv, NEW c \in Calls, call[c].at \in {"ask_tx", "lend_tx", "issue_tx"}
    PROVE  /\ call[c].product \in Products /\ call[c].qty \in Nat
           /\ NewLoan(c) \in LoanRow
           /\ NewLoan(c).status \in Open
BY DEF Inv, SoundCall, TypeOK, Call, NewLoan, LoanRow, Open

LEMMA ReturnsALoan ==
    ASSUME Inv, NEW c \in Calls, call[c].at = "return_tx"
    PROVE  /\ call[c].loan \in Loans
           /\ loan[call[c].loan].status # "none"
           /\ loan[call[c].loan].product \in Products
           /\ loan[call[c].loan].qty \in Nat
BY DEF Inv, SoundCall, LoansAreOfProducts, TypeOK, LoanRow

\* Damage is reported of a product.
LEMMA DamagesAProduct ==
    ASSUME Inv, NEW c \in Calls, call[c].at = "damage_tx"
    PROVE  call[c].product \in Products /\ call[c].qty \in Nat
BY DEF Inv, SoundCall, TypeOK, Call

LEMMA InitInv == Init => Inv
<1> SUFFICES ASSUME Init PROVE Inv
  OBVIOUS
<1>1. stock \in [Products -> Row]
  BY InitialUnitsAssumption DEF Init, NewRow, Row, Counters, Places
<1>2. TypeOK
  BY <1>1, IdleIsCall, InitialUnitsAssumption
  DEF Init, TypeOK, NoRow, LoanRow, Open
<1>3. LoansAreOfProducts /\ \A c \in Calls : SoundCall(c)
  BY DEF Init, LoansAreOfProducts, SoundCall, NoRow, Idle
<1>4. QED
  BY <1>2, <1>3 DEF Inv
-----------------------------------------------------------------------------
(* Which actions can do what: a step writes the stock and the loans only in *)
(* one of the four transactions.                                            *)

LEMMA Writers ==
    ASSUME [Next]_vars
    PROVE  \/ \E c \in Calls, l \in Loans : LendTx(c, l)
           \/ \E c \in Calls : ReturnTx(c)
           \/ \E c \in Calls : DamageTx(c)
           \/ \E product \in Products, q \in Quantities : Restock(product, q)
           \/ UNCHANGED <<stock, loan, bought>>
BY DEF Next, vars, Guests, Staff, GoOn, StartAsk, StartLend, StartIssue,
       ReadLoansToAsk, ReadLoansToIssue, LendAbort, StartReturn,
       StartReturnOfReturnable, ReturnAbort, StartDamage, DamageAbort, SetListed

\* Types, action by action.
LEMMA TypeStep == Inv /\ [Next]_vars => TypeOK'
<1> SUFFICES ASSUME Inv, [Next]_vars PROVE TypeOK'
  OBVIOUS
<1> USE DEF Inv
<1>1. call' \in [Calls -> Call]
  <2>1. ASSUME NEW c \in Calls, NEW stay \in Stays, NEW product \in Products,
               \/ StartAsk(c, stay, product)
               \/ StartLend(c, stay, product)
               \/ \E q \in Quantities : StartIssue(c, stay, product, q)
        PROVE  call' \in [Calls -> Call]
    <3>1. \E step \in Steps, q \in Nat : Begin(c, About(step, product, stay, q))
      BY <2>1, QuantitiesAssumption DEF StartAsk, StartLend, StartIssue, Steps
    <3>2. QED
      BY <3>1, AboutIsCall DEF Begin, TypeOK
  <2>2. ASSUME NEW c \in Calls, NEW l \in Loans,
               \/ StartReturn(c, l)
               \/ \E condition \in Conditions : StartReturnOfReturnable(c, l, condition)
        PROVE  call' \in [Calls -> Call]
    BY <2>2, TakingBackIsCall
    DEF StartReturn, StartReturnOfReturnable, Begin, TypeOK, Conditions
  <2>3. ASSUME NEW c \in Calls, NEW product \in Products, NEW q \in Quantities,
               StartDamage(c, product, q)
        PROVE  call' \in [Calls -> Call]
    BY <2>3, AboutIsCall, QuantitiesAssumption
    DEF StartDamage, Begin, TypeOK, Steps
  <2>4. ASSUME NEW c \in Calls, GoOn(c)
        PROVE  call' \in [Calls -> Call]
    BY <2>4, IdleIsCall
    DEF GoOn, ReadLoansToAsk, ReadLoansToIssue, LendTx, LendAbort, ReturnTx,
        ReturnAbort, DamageTx, DamageAbort, GoTo, Answer, TypeOK, Call, Steps
  <2>5. CASE call' = call
    BY <2>5 DEF TypeOK
  <2>6. QED
    BY <2>1, <2>2, <2>3, <2>4, <2>5
    DEF Next, vars, Guests, Staff, SetListed, Restock
<1>2. listed' \subseteq Products
  BY DEF TypeOK, Next, vars, Guests, Staff, GoOn, StartAsk, StartLend, StartIssue,
         ReadLoansToAsk, ReadLoansToIssue, LendTx, LendAbort, StartReturn,
         StartReturnOfReturnable, ReturnTx, ReturnAbort, Restock, StartDamage,
         DamageTx, DamageAbort, SetListed
<1>3. /\ stock' \in [Products -> Row] /\ loan' \in [Loans -> LoanRow]
      /\ bought' \in [Products -> Nat]
  <2>1. ASSUME NEW c \in Calls, NEW l \in Loans, LendTx(c, l)
        PROVE  <1>3!:
    BY <2>1, LendsAProduct, LendingChanges DEF LendTx, TypeOK
  <2>2. ASSUME NEW c \in Calls, ReturnTx(c)
        PROVE  <1>3!:
    <3>1. ClosedAs(call[c].condition) \in {"LOST", "RETURNED"}
      BY DEF ClosedAs
    <3>2. loan' \in [Loans -> LoanRow]
      BY <2>2, <3>1 DEF ReturnTx, TypeOK, LoanRow
    <3>3. stock' \in [Products -> Row]
      BY <2>2, ReturnsALoan, ReturnChanges
      DEF ReturnTx, RowAfterReturn, TypeOK, Call
    <3>4. QED
      BY <2>2, <3>2, <3>3 DEF ReturnTx, TypeOK
  <2>3. ASSUME NEW c \in Calls, DamageTx(c)
        PROVE  <1>3!:
    BY <2>3, DamagesAProduct, DamageChanges DEF DamageTx, TypeOK
  <2>4. ASSUME NEW product \in Products, NEW q \in Quantities, Restock(product, q)
        PROVE  <1>3!:
    <3>1. q \in Nat /\ stock[product] \in Row /\ bought[product] + q \in Nat
      BY QuantitiesAssumption DEF TypeOK
    <3>2. stock' \in [Products -> Row]
      BY <2>4, <3>1, RestockChanges DEF Restock, TypeOK
    <3>3. QED
      BY <2>4, <3>1, <3>2 DEF Restock, TypeOK
  <2>5. CASE UNCHANGED <<stock, loan, bought>>
    BY <2>5 DEF TypeOK
  <2>6. QED
    BY <2>1, <2>2, <2>3, <2>4, <2>5, Writers
<1>4. QED
  BY <1>1, <1>2, <1>3 DEF TypeOK

\* A checkout row, once written, keeps its product and never goes back to
\* "none": what a return read stays a loan.
LEMMA LoansStay ==
    ASSUME Inv, [Next]_vars
    PROVE  /\ LoansAreOfProducts'
           /\ \A l \in Loans : loan[l].status # "none" => loan'[l].status # "none"
<1>1. ASSUME NEW c \in Calls, NEW l \in Loans, LendTx(c, l)
      PROVE  /\ LoansAreOfProducts'
             /\ \A k \in Loans : loan[k].status # "none" => loan'[k].status # "none"
  <2>1. NewLoan(c).product \in Products
    BY <1>1, LendsAProduct DEF LendTx, NewLoan
  <2>2. /\ \A k \in Loans \ {l} : loan'[k] = loan[k]
        /\ loan[l].status = "none" /\ loan'[l] = NewLoan(c)
    BY <1>1 DEF LendTx, Inv, TypeOK
  <2>3. QED
    BY <2>1, <2>2 DEF Inv, LoansAreOfProducts
<1>2. ASSUME NEW c \in Calls, ReturnTx(c)
      PROVE  /\ LoansAreOfProducts'
             /\ \A k \in Loans : loan[k].status # "none" => loan'[k].status # "none"
  <2> DEFINE l == call[c].loan
  <2>1. l \in Loans /\ loan[l].status # "none"
    BY <1>2, ReturnsALoan DEF ReturnTx
  <2>2. /\ \A k \in Loans \ {l} : loan'[k] = loan[k]
        /\ loan'[l].product = loan[l].product
        /\ loan'[l].status # "none"
    BY <1>2, <2>1 DEF ReturnTx, Inv, TypeOK, LoanRow, ClosedAs
  <2>3. QED
    BY <2>1, <2>2 DEF Inv, LoansAreOfProducts
<1>3. CASE loan' = loan
  BY <1>3 DEF Inv, LoansAreOfProducts
<1>4. QED
  BY <1>1, <1>2, <1>3, Writers DEF DamageTx, Restock

\* What a call relies on, action by action.
LEMMA SoundStep ==
    ASSUME Inv, [Next]_vars, NEW c \in Calls
    PROVE  SoundCall(c)'
<1>1. CASE call'[c] = call[c]
  BY <1>1, LoansStay DEF Inv, SoundCall
<1>2. CASE call'[c].at = "idle"
  BY <1>2 DEF SoundCall
<1>3. CASE /\ call'[c].at \in {"ask_loans", "lend_tx", "issue_loans", "damage_tx"}
           /\ call'[c].product \in Products
  BY <1>3 DEF SoundCall
<1>4. CASE /\ call'[c].at = "return_tx" /\ call'[c].loan \in Loans
           /\ loan[call'[c].loan].status # "none"
  BY <1>4, LoansStay DEF SoundCall
<1>5. CASE /\ call[c].at \in {"ask_loans", "issue_loans"}
           /\ call'[c].at \in {"ask_tx", "issue_tx"}
           /\ call'[c].product = call[c].product
  BY <1>5 DEF SoundCall, Inv
<1>6. \/ call'[c] = call[c]
      \/ call'[c].at = "idle"
      \/ /\ call'[c].at \in {"ask_loans", "lend_tx", "issue_loans", "damage_tx"}
         /\ call'[c].product \in Products
      \/ /\ call'[c].at = "return_tx" /\ call'[c].loan \in Loans
         /\ loan[call'[c].loan].status # "none"
      \/ /\ call[c].at \in {"ask_loans", "issue_loans"}
         /\ call'[c].at \in {"ask_tx", "issue_tx"}
         /\ call'[c].product = call[c].product
  <2> USE DEF Inv, TypeOK
  <2>1. ASSUME NEW d \in Calls, NEW stay \in Stays, NEW product \in Products,
               \/ StartAsk(d, stay, product)
               \/ StartLend(d, stay, product)
               \/ \E q \in Quantities : StartIssue(d, stay, product, q)
        PROVE  <1>6!:
    BY <2>1, AboutIsCall, QuantitiesAssumption
    DEF StartAsk, StartLend, StartIssue, Begin, Steps, Products
  <2>2. ASSUME NEW d \in Calls, NEW l \in Loans,
               \/ StartReturn(d, l)
               \/ \E condition \in Conditions : StartReturnOfReturnable(d, l, condition)
        PROVE  <1>6!:
    BY <2>2, TakingBackIsCall
    DEF StartReturn, StartReturnOfReturnable, Begin, Conditions
  <2>3. ASSUME NEW d \in Calls, NEW product \in Products, NEW q \in Quantities,
               StartDamage(d, product, q)
        PROVE  <1>6!:
    BY <2>3, AboutIsCall, QuantitiesAssumption DEF StartDamage, Begin, Steps
  <2>4. ASSUME NEW d \in Calls, GoOn(d)
        PROVE  <1>6!:
    BY <2>4
    DEF GoOn, ReadLoansToAsk, ReadLoansToIssue, LendTx, LendAbort, ReturnTx,
        ReturnAbort, DamageTx, DamageAbort, GoTo, Answer, Idle, Call
  <2>5. CASE call' = call
    BY <2>5
  <2>6. QED
    BY <2>1, <2>2, <2>3, <2>4, <2>5
    DEF Next, vars, Guests, Staff, SetListed, Restock
<1>7. QED
  BY <1>1, <1>2, <1>3, <1>4, <1>5, <1>6

LEMMA InvStep == Inv /\ [Next]_vars => Inv'
BY TypeStep, LoansStay, SoundStep DEF Inv

LEMMA InvHolds == Spec => []Inv
BY InitInv, InvStep, PTL DEF Spec

\* Every reachable state is well typed.
THEOREM TypeCorrect == Spec => []TypeOK
<1>1. Inv => TypeOK
  BY DEF Inv
<1>2. QED
  BY <1>1, InvHolds, PTL
-----------------------------------------------------------------------------
(* The stock. *)

\* How a step writes one inventory row.
LEMMA RowStep ==
    ASSUME Inv, [Next]_vars, NEW product \in Products
    PROVE  \E q \in Nat, condition \in Conditions :
              \/ /\ bought'[product] = bought[product]
                 /\ stock'[product] \in
                       {stock[product], LentRow(stock[product], q),
                        ReturnedRow(stock[product], condition, q),
                        WrittenOff(stock[product], "available", q)}
              \/ /\ bought'[product] = bought[product] + q
                 /\ stock'[product] = Restocked(stock[product], q)
<1> USE DEF Inv, TypeOK
<1>1. ASSUME NEW c \in Calls, NEW l \in Loans, LendTx(c, l)
      PROVE  \E q \in Nat : /\ bought' = bought
                            /\ stock'[product] \in {stock[product], LentRow(stock[product], q)}
  BY <1>1, LendsAProduct DEF LendTx
<1>2. ASSUME NEW c \in Calls, ReturnTx(c)
      PROVE  \E q \in Nat, condition \in Conditions :
                 /\ bought' = bought
                 /\ stock'[product] \in {stock[product],
                                         ReturnedRow(stock[product], condition, q)}
  <2>1. call[c].condition \in Conditions
    BY DEF Call
  <2>2. QED
    BY <1>2, <2>1, ReturnsALoan DEF ReturnTx, RowAfterReturn
<1>3. ASSUME NEW c \in Calls, DamageTx(c)
      PROVE  \E q \in Nat :
                 /\ bought' = bought
                 /\ stock'[product] \in {stock[product],
                                         WrittenOff(stock[product], "available", q)}
  BY <1>3, DamagesAProduct DEF DamageTx
<1>4. ASSUME NEW d \in Products, NEW q \in Quantities, Restock(d, q)
      PROVE  \/ bought'[product] = bought[product] /\ stock'[product] = stock[product]
             \/ \E n \in Nat : /\ bought'[product] = bought[product] + n
                               /\ stock'[product] = Restocked(stock[product], n)
  BY <1>4, QuantitiesAssumption DEF Restock
<1>5. CASE UNCHANGED <<stock, loan, bought>>
  BY <1>5 DEF Conditions
<1>6. QED
  <2>1. "GOOD" \in Conditions /\ 0 \in Nat
    BY DEF Conditions
  <2>2. CASE \E c \in Calls, l \in Loans : LendTx(c, l)
    BY <1>1, <2>1, <2>2
  <2>3. CASE \E c \in Calls : ReturnTx(c)
    BY <1>2, <2>1, <2>3
  <2>4. CASE \E c \in Calls : DamageTx(c)
    BY <1>3, <2>1, <2>4
  <2>5. CASE \E d \in Products, q \in Quantities : Restock(d, q)
    BY <1>4, <2>1, <2>5
  <2>6. CASE UNCHANGED <<stock, loan, bought>>
    BY <2>1, <2>6
  <2>7. QED
    BY <2>2, <2>3, <2>4, <2>5, <2>6, Writers

\* No unit disappears from the books.
THEOREM NothingDisappears == Spec => []BoughtIsAccounted
<1>1. Init => BoughtIsAccounted
  BY InitialUnitsAssumption DEF Init, BoughtIsAccounted, NewRow, Counters, Places
<1>2. Inv /\ BoughtIsAccounted /\ [Next]_vars => BoughtIsAccounted'
  <2> SUFFICES ASSUME Inv, BoughtIsAccounted, [Next]_vars, NEW product \in Products
               PROVE  stock'[product]["total"] + stock'[product]["damaged"]
                         = bought'[product]
    BY DEF BoughtIsAccounted
  <2>1. /\ stock[product] \in Row /\ bought[product] \in Nat
        /\ stock[product]["total"] \in Int /\ stock[product]["damaged"] \in Int
        /\ stock[product]["total"] + stock[product]["damaged"] = bought[product]
    BY DEF Inv, TypeOK, Row, Counters, BoughtIsAccounted
  <2>2. PICK q \in Nat, condition \in Conditions :
              \/ /\ bought'[product] = bought[product]
                 /\ stock'[product] \in
                       {stock[product], LentRow(stock[product], q),
                        ReturnedRow(stock[product], condition, q),
                        WrittenOff(stock[product], "available", q)}
              \/ /\ bought'[product] = bought[product] + q
                 /\ stock'[product] = Restocked(stock[product], q)
    BY RowStep
  <2>3. CASE stock'[product] = stock[product] /\ bought'[product] = bought[product]
    BY <2>1, <2>3
  <2>4. CASE /\ stock'[product] = LentRow(stock[product], q)
             /\ bought'[product] = bought[product]
    BY <2>1, <2>4, LendingChanges
  <2>5. CASE /\ stock'[product] = ReturnedRow(stock[product], condition, q)
             /\ bought'[product] = bought[product]
    BY <2>1, <2>5, ReturnChanges
  <2>6. CASE /\ stock'[product] = WrittenOff(stock[product], "available", q)
             /\ bought'[product] = bought[product]
    BY <2>1, <2>6, DamageChanges
  <2>7. CASE /\ stock'[product] = Restocked(stock[product], q)
             /\ bought'[product] = bought[product] + q
    <3>1. /\ stock'[product]["total"] = stock[product]["total"] + q
          /\ stock'[product]["damaged"] = stock[product]["damaged"]
      BY <2>1, <2>7, RestockChanges
    <3>2. QED
      BY <2>1, <2>7, <3>1
  <2>8. QED
    BY <2>2, <2>3, <2>4, <2>5, <2>6, <2>7
<1>3. QED
  BY <1>1, <1>2, InvHolds, PTL DEF Spec
-----------------------------------------------------------------------------
(* Units lent. *)

\* The units of a product that the open ones of some checkout rows say guests
\* have, and those of all of the rows but one.
OutIn(rows, product) ==
    UNION {{l} \X (1..rows[l].qty) :
              l \in {k \in Loans : rows[k].product = product /\ rows[k].status \in Open}}

OthersOut(rows, l, product) ==
    UNION {{k} \X (1..rows[k].qty) :
              k \in {j \in Loans \ {l} : rows[j].product = product
                                         /\ rows[j].status \in Open}}

LEMMA SplitOut ==
    ASSUME NEW rows \in [Loans -> LoanRow], NEW l \in Loans, NEW product
    PROVE  /\ Cardinality(OthersOut(rows, l, product)) \in Nat
           /\ Cardinality(OutIn(rows, product)) =
                 Cardinality(OthersOut(rows, l, product)) +
                 (IF rows[l].product = product /\ rows[l].status \in Open
                  THEN rows[l].qty ELSE 0)
<1> DEFINE Own(k) == {k} \X (1..rows[k].qty)
           Others == OthersOut(rows, l, product)
<1>1. \A k \in Loans : rows[k].qty \in Nat
  BY DEF LoanRow
<1>2. ASSUME NEW k \in Loans
      PROVE  IsFiniteSet(Own(k)) /\ Cardinality(Own(k)) = rows[k].qty
  <2> DEFINE n == rows[k].qty
  <2>1. n \in Nat
    BY <1>1
  <2>2. IsFiniteSet({k}) /\ Cardinality({k}) = 1
    BY FS_Singleton
  <2> HIDE DEF n
  <2>3. IsFiniteSet(1..n) /\ Cardinality(1..n) = n
    BY <2>1, FS_Interval
  <2>4. /\ IsFiniteSet({k} \X (1..n))
        /\ Cardinality({k} \X (1..n)) = Cardinality({k}) * Cardinality(1..n)
    BY <2>2, <2>3, FS_Product
  <2>5. Cardinality({k} \X (1..n)) = n
    BY <2>1, <2>2, <2>3, <2>4
  <2>6. QED
    BY <2>4, <2>5 DEF n
<1>3. IsFiniteSet(Others)
  <2> DEFINE D == {j \in Loans \ {l} : rows[j].product = product
                                       /\ rows[j].status \in Open}
  <2>1. IsFiniteSet(D)
    BY LoansAssumption, FS_Subset
  <2>2. IsFiniteSet({Own(k) : k \in D})
    <3> DEFINE f == [k \in D |-> Own(k)]
    <3>1. f \in Surjection(D, {Own(k) : k \in D})
      BY DEF Surjection
    <3>2. QED
      BY <2>1, <3>1, FS_Surjection
  <2>3. \A T \in {Own(k) : k \in D} : IsFiniteSet(T)
    BY <1>2
  <2>4. QED
    BY <2>2, <2>3, FS_UNION DEF OthersOut
<1>4. Cardinality(Others) \in Nat
  BY <1>3, FS_CardinalityType
<1>5. CASE rows[l].product = product /\ rows[l].status \in Open
  <2>1. OutIn(rows, product) = Others \cup Own(l)
    BY <1>5 DEF OutIn, OthersOut
  <2>2. Others \cap Own(l) = {}
    BY DEF OthersOut
  <2>3. Cardinality(OutIn(rows, product)) =
            Cardinality(Others) + Cardinality(Own(l)) - Cardinality({})
    BY <1>2, <1>3, <2>1, <2>2, FS_Union
  <2>4. Cardinality(OutIn(rows, product)) = Cardinality(Others) + rows[l].qty
    BY <1>1, <1>2, <1>4, <2>3, FS_EmptySet
  <2>5. QED
    BY <1>4, <1>5, <2>4
<1>6. CASE ~(rows[l].product = product /\ rows[l].status \in Open)
  <2>1. OutIn(rows, product) = Others
    BY <1>6 DEF OutIn, OthersOut
  <2>2. QED
    BY <1>4, <1>6, <2>1
<1>7. QED
  BY <1>4, <1>5, <1>6

\* When one checkout row changes, the units out change by its share alone.
LEMMA OneLoanChanges ==
    ASSUME NEW rows \in [Loans -> LoanRow], NEW rows2 \in [Loans -> LoanRow],
           NEW l \in Loans, \A k \in Loans \ {l} : rows2[k] = rows[k],
           NEW product
    PROVE  /\ Cardinality(OutIn(rows, product)) \in Int
           /\ Cardinality(OutIn(rows2, product)) =
                 Cardinality(OutIn(rows, product))
                 - (IF rows[l].product = product /\ rows[l].status \in Open
                    THEN rows[l].qty ELSE 0)
                 + (IF rows2[l].product = product /\ rows2[l].status \in Open
                    THEN rows2[l].qty ELSE 0)
<1> DEFINE others == Cardinality(OthersOut(rows, l, product))
<1>1. OthersOut(rows2, l, product) = OthersOut(rows, l, product)
  BY DEF OthersOut
<1>2. /\ others \in Nat
      /\ Cardinality(OutIn(rows, product)) =
            others + (IF rows[l].product = product /\ rows[l].status \in Open
                      THEN rows[l].qty ELSE 0)
  BY SplitOut
<1>3. Cardinality(OutIn(rows2, product)) =
          Cardinality(OthersOut(rows2, l, product))
          + (IF rows2[l].product = product /\ rows2[l].status \in Open
             THEN rows2[l].qty ELSE 0)
  BY SplitOut
<1>4. rows[l].qty \in Nat /\ rows2[l].qty \in Nat
  BY DEF LoanRow
<1> HIDE DEF others
<1>5. Cardinality(OutIn(rows2, product)) =
          others + (IF rows2[l].product = product /\ rows2[l].status \in Open
                    THEN rows2[l].qty ELSE 0)
  BY <1>1, <1>3 DEF others
<1>6. QED
  BY <1>2, <1>4, <1>5

\* Lending counts a unit as lent exactly when it writes the loan; a return
\* takes off at least what it closes.
LEMMA LentStep ==
    ASSUME Inv, LentIsAccounted, [Next]_vars
    PROVE  LentIsAccounted'
<1> DEFINE Out(rows, product) == Cardinality(OutIn(rows, product))
<1>0. /\ loan \in [Loans -> LoanRow] /\ loan' \in [Loans -> LoanRow]
      /\ \A product \in Products :
            /\ stock[product] \in Row
            /\ stock[product]["borrowed"] \in Int
            /\ stock[product]["borrowed"] <= Out(loan, product)
  BY TypeStep DEF Inv, TypeOK, LentIsAccounted, UnitsOut, UnitsOf, OutIn, Row,
                  Counters, Places
<1>a. SUFFICES ASSUME NEW product \in Products
               PROVE  stock'[product]["borrowed"] <= Out(loan', product)
  BY DEF LentIsAccounted, UnitsOut, UnitsOf, OutIn
<1>b. Loans # {} => Out(loan, product) \in Int
  BY <1>0, OneLoanChanges
<1> HIDE DEF Out
<1>1. ASSUME NEW c \in Calls, NEW l \in Loans, LendTx(c, l)
      PROVE  stock'[product]["borrowed"] <= Out(loan', product)
  <2> DEFINE q == call[c].qty
  <2>1. /\ call[c].product \in Products /\ q \in Nat
        /\ NewLoan(c).status \in Open
        /\ NewLoan(c).product = call[c].product /\ NewLoan(c).qty = q
    BY <1>1, LendsAProduct DEF LendTx, NewLoan
  <2>2. /\ loan[l].status = "none" /\ loan'[l] = NewLoan(c)
        /\ \A k \in Loans \ {l} : loan'[k] = loan[k]
    BY <1>1 DEF LendTx, Inv, TypeOK
  <2>3. Out(loan', product) =
            Out(loan, product) + (IF product = call[c].product THEN q ELSE 0)
    <3>1. loan[l].status \notin Open
      BY <2>2 DEF Open
    <3>2. QED
      BY <1>0, <1>b, <2>1, <2>2, <3>1, OneLoanChanges DEF Out
  <2>4. CASE product = call[c].product
    <3>1. stock'[product] = LentRow(stock[product], q)
      BY <1>1, <2>4 DEF LendTx, Inv, TypeOK
    <3>2. stock'[product]["borrowed"] = stock[product]["borrowed"] + q
      BY <1>0, <2>1, <3>1, LendingChanges
    <3> HIDE DEF q
    <3>3. QED
      BY <1>0, <1>b, <2>1, <2>3, <2>4, <3>2
  <2>5. CASE product # call[c].product
    <3>1. stock'[product] = stock[product]
      BY <1>1, <2>1, <2>5 DEF LendTx, Inv, TypeOK
    <3>2. QED
      BY <1>0, <1>b, <2>3, <2>5, <3>1
  <2>6. QED
    BY <2>4, <2>5
<1>2. ASSUME NEW c \in Calls, ReturnTx(c)
      PROVE  stock'[product]["borrowed"] <= Out(loan', product)
  <2> DEFINE l == call[c].loan
             q == loan[l].qty
  <2>1. l \in Loans /\ q \in Nat /\ loan[l].product \in Products
    BY <1>2, ReturnsALoan DEF ReturnTx
  <2>2. /\ loan'[l].status \notin Open
        /\ \A k \in Loans \ {l} : loan'[k] = loan[k]
    BY <1>0, <1>2, <2>1 DEF ReturnTx, LoanRow, ClosedAs, Open
  <2>3. Out(loan', product) =
            Out(loan, product) - (IF loan[l].product = product /\ loan[l].status \in Open
                                  THEN q ELSE 0)
    <3>1. Out(loan, product) \in Int
      BY <1>b, <2>1
    <3>2. QED
      BY <1>0, <2>1, <2>2, <3>1, OneLoanChanges DEF Out
  <2>4. CASE loan[l].product = product
    <3>1. stock'[product] = ReturnedRow(stock[product], call[c].condition, q)
      BY <1>2, <2>4 DEF ReturnTx, RowAfterReturn, Inv, TypeOK
    <3>2. stock'[product]["borrowed"] = stock[product]["borrowed"] - q
      BY <1>0, <1>2, <2>1, <3>1, ReturnChanges DEF Inv, TypeOK, Call
    <3> HIDE DEF q, l
    <3>3. QED
      BY <1>0, <1>b, <2>1, <2>3, <3>2
  <2>5. CASE loan[l].product # product
    <3>1. stock'[product] = stock[product]
      BY <1>2, <2>1, <2>5 DEF ReturnTx, Inv, TypeOK
    <3>2. QED
      BY <1>0, <1>b, <2>1, <2>3, <2>5, <3>1
  <2>6. QED
    BY <2>4, <2>5
<1>3. ASSUME NEW c \in Calls, DamageTx(c)
      PROVE  stock'[product]["borrowed"] <= Out(loan', product)
  <2>1. /\ loan' = loan
        /\ \/ stock'[product] = stock[product]
           \/ stock'[product] = WrittenOff(stock[product], "available", call[c].qty)
    BY <1>3, DamagesAProduct DEF DamageTx, Inv, TypeOK
  <2>2. stock'[product]["borrowed"] = stock[product]["borrowed"]
    BY <1>0, <1>3, <2>1, DamagesAProduct, DamageChanges DEF DamageTx
  <2>3. QED
    BY <1>0, <2>1, <2>2
<1>4. ASSUME NEW d \in Products, NEW q \in Quantities, Restock(d, q)
      PROVE  stock'[product]["borrowed"] <= Out(loan', product)
  <2>1. /\ loan' = loan
        /\ \/ stock'[product] = stock[product]
           \/ stock'[product] = Restocked(stock[product], q)
    BY <1>4 DEF Restock, Inv, TypeOK
  <2>2. stock'[product]["borrowed"] = stock[product]["borrowed"]
    BY <1>0, <2>1, QuantitiesAssumption, RestockChanges
  <2>3. QED
    BY <1>0, <2>1, <2>2
<1>5. CASE UNCHANGED <<stock, loan, bought>>
  BY <1>0, <1>5
<1>6. QED
  BY <1>1, <1>2, <1>3, <1>4, <1>5, Writers

\* Whatever overlaps, no unit is counted as lent that no open loan accounts
\* for.
THEOREM LentToSomebody == Spec => []LentIsAccounted
<1>1. Init => LentIsAccounted
  <2> SUFFICES ASSUME Init, NEW product \in Products
               PROVE  stock[product]["borrowed"] <= Cardinality(OutIn(loan, product))
    BY DEF LentIsAccounted, UnitsOut, UnitsOf, OutIn
  <2>1. OutIn(loan, product) = {}
    BY DEF Init, NoRow, OutIn, Open
  <2>2. stock[product]["borrowed"] = 0
    BY DEF Init, NewRow, Counters, Places
  <2>3. QED
    BY <2>1, <2>2, FS_EmptySet
<1>2. Inv /\ LentIsAccounted /\ [Next]_vars => LentIsAccounted'
  BY LentStep
<1>3. QED
  BY <1>1, <1>2, InvHolds, PTL DEF Spec
-----------------------------------------------------------------------------
(* Lending implements StockLedger. *)

LEMMA SameStock ==
    /\ Ledger!Row = Row /\ Ledger!Counters = Counters /\ Ledger!Places = Places
    /\ \A row, from, to, q : Ledger!Move(row, from, to, q) = Move(row, from, to, q)
    /\ \A row, q : Ledger!Restocked(row, q) = Restocked(row, q)
    /\ \A row, from, q : Ledger!WrittenOff(row, from, q) = WrittenOff(row, from, q)
    /\ \A n : Ledger!NewRow(n) = NewRow(n)
BY DEF Ledger!Row, Row, Ledger!Counters, Counters, Ledger!Places, Places,
       Ledger!Move, Move, Ledger!Restocked, Restocked, Ledger!WrittenOff,
       WrittenOff, Ledger!NewRow, NewRow

\* Every update was accepted by the CHECK constraints, or adds to the row.
AllLegal == \A product \in Products : Legal(stock[product])

LEMMA LegalStep == Inv /\ AllLegal /\ [Next]_vars => AllLegal'
<1> SUFFICES ASSUME Inv, AllLegal, [Next]_vars, NEW product \in Products
             PROVE  Legal(stock'[product])
  BY DEF AllLegal
<1>0. stock[product] \in Row /\ Legal(stock[product])
  BY DEF AllLegal, Inv, TypeOK
<1>1. ASSUME NEW c \in Calls, NEW l \in Loans, LendTx(c, l)
      PROVE  Legal(stock'[product])
  BY <1>0, <1>1 DEF LendTx, LendPossible, Accepted, Inv, TypeOK
<1>2. ASSUME NEW c \in Calls, ReturnTx(c)
      PROVE  Legal(stock'[product])
  BY <1>0, <1>2 DEF ReturnTx, Accepted, Inv, TypeOK
<1>3. ASSUME NEW c \in Calls, DamageTx(c)
      PROVE  Legal(stock'[product])
  BY <1>0, <1>3 DEF DamageTx, Accepted, Inv, TypeOK
<1>4. ASSUME NEW d \in Products, NEW q \in Quantities, Restock(d, q)
      PROVE  Legal(stock'[product])
  <2>1. q \in Nat
    BY QuantitiesAssumption
  <2>2. Legal(Restocked(stock[product], q))
    BY <1>0, <2>1 DEF Legal, Restocked, Row, Counters, Places
  <2>3. stock'[product] \in {stock[product], Restocked(stock[product], q)}
    BY <1>4 DEF Restock, Inv, TypeOK
  <2>4. QED
    BY <1>0, <2>2, <2>3
<1>5. CASE UNCHANGED <<stock, loan, bought>>
  BY <1>0, <1>5
<1>6. QED
  BY <1>1, <1>2, <1>3, <1>4, <1>5, Writers

\* An accepted move of one row is a transfer of the ledger.
LEMMA MoveIsTransfer ==
    ASSUME TypeOK, AllLegal, NEW product \in Products, NEW q \in Nat,
           NEW from \in Places, NEW to \in Places, from # to,
           Legal(Move(stock[product], from, to, q)),
           stock' = [stock EXCEPT ![product] = Move(stock[product], from, to, q)]
    PROVE  Ledger!Transfer(from, to)
<1>1. /\ stock[product] \in Row
      /\ Move(stock[product], from, to, q) \in Row
      /\ Move(stock[product], from, to, q)[from] = stock[product][from] - q
      /\ Move(stock[product], from, to, q)[from] >= 0
      /\ stock[product][from] \in Int
  BY DEF TypeOK, Move, Row, Counters, Places, Legal
<1>2. q \in 0..stock[product][from]
  BY <1>1
<1>3. ASSUME NEW other \in Products
      PROVE  \E n \in 0..stock[other][from] :
                 stock'[other] = Move(stock[other], from, to, n)
  <2>1. CASE other = product
    BY <1>2, <2>1 DEF TypeOK
  <2>2. CASE other # product
    <3>1. stock'[other] = stock[other] /\ stock[other] \in Row
      BY <2>2 DEF TypeOK
    <3>2. Move(stock[other], from, to, 0) = stock[other]
      BY <3>1 DEF Move, Row, Counters
    <3>3. 0 \in 0..stock[other][from]
      BY <3>1 DEF AllLegal, Legal, Row, Counters
    <3>4. QED
      BY <3>1, <3>2, <3>3
  <2>3. QED
    BY <2>1, <2>2
<1>4. stock' \in [Products -> Row]
  BY <1>1 DEF TypeOK
<1>5. QED
  BY <1>3, <1>4, SameStock DEF Ledger!Transfer

\* What is written off is there to be written off.
LEMMA WrittenOffIsWriteOff ==
    ASSUME TypeOK, NEW product \in Products, NEW q \in Nat, NEW from \in Places,
           Legal(WrittenOff(stock[product], from, q)),
           stock' = [stock EXCEPT ![product] = WrittenOff(stock[product], from, q)]
    PROVE  Ledger!WriteOff(product, from)
<1>1. /\ stock[product] \in Row /\ stock[product][from] \in Int
      /\ stock[product]["total"] \in Int
      /\ WrittenOff(stock[product], from, q)[from] = stock[product][from] - q
      /\ WrittenOff(stock[product], from, q)["total"] = stock[product]["total"] - q
      /\ WrittenOff(stock[product], from, q)[from] >= 0
  BY DEF TypeOK, WrittenOff, Row, Counters, Places, Legal
<1>2. stock'[product] = WrittenOff(stock[product], from, q)
  BY DEF TypeOK
<1>3. -Ledger!Arrived(product) = q
  BY <1>1, <1>2 DEF Ledger!Arrived
<1>4. q \in 0..stock[product][from]
  BY <1>1
<1>5. QED
  BY <1>3, <1>4, SameStock DEF Ledger!WriteOff

LEMMA RestockedIsRestock ==
    ASSUME TypeOK, NEW product \in Products, NEW q \in Nat,
           stock' = [stock EXCEPT ![product] = Restocked(stock[product], q)]
    PROVE  Ledger!Restock(product)
<1>1. /\ stock[product] \in Row /\ stock[product]["total"] \in Int
      /\ Restocked(stock[product], q)["total"] = stock[product]["total"] + q
  BY RestockChanges DEF TypeOK, Row, Counters
<1>2. stock'[product] = Restocked(stock[product], q)
  BY DEF TypeOK
<1>3. Ledger!Arrived(product) = q
  BY <1>1, <1>2 DEF Ledger!Arrived
<1>4. QED
  BY <1>3, SameStock DEF Ledger!Restock

LEMMA LedgerStep ==
    ASSUME Inv, AllLegal, [Next]_vars
    PROVE  [Ledger!Next]_stock
<1> USE DEF Inv
<1>0. /\ Ledger!Places = Places
      /\ "available" \in Places /\ "borrowed" \in Places
  BY SameStock, PlacesAre
<1>1. ASSUME NEW c \in Calls, NEW l \in Loans, LendTx(c, l)
      PROVE  Ledger!Next
  <2>1. Ledger!Transfer("available", "borrowed")
    BY <1>0, <1>1, LendsAProduct, MoveIsTransfer
    DEF LendTx, LendPossible, Accepted, LentRow
  <2>2. QED
    BY <1>0, <2>1 DEF Ledger!Next
<1>2. ASSUME NEW c \in Calls, ReturnTx(c)
      PROVE  Ledger!Next
  <2> DEFINE product == loan[call[c].loan].product
             q == loan[call[c].loan].qty
  <2>1. /\ product \in Products /\ q \in Nat
        /\ Legal(ReturnedRow(stock[product], call[c].condition, q))
        /\ stock' = [stock EXCEPT ![product] =
                        ReturnedRow(stock[product], call[c].condition, q)]
    BY <1>2, ReturnsALoan DEF ReturnTx, RowAfterReturn, Accepted
  <2> HIDE DEF product, q
  <2>2. CASE call[c].condition = "GOOD"
    <3>1. Ledger!Transfer("borrowed", "available")
      BY <1>0, <2>1, <2>2, MoveIsTransfer DEF ReturnedRow
    <3>2. QED
      BY <1>0, <3>1 DEF Ledger!Next
  <2>3. CASE call[c].condition # "GOOD"
    <3>1. Ledger!WriteOff(product, "borrowed")
      BY <1>0, <2>1, <2>3, WrittenOffIsWriteOff DEF ReturnedRow
    <3>2. QED
      BY <1>0, <2>1, <3>1 DEF Ledger!Next
  <2>4. QED
    BY <2>2, <2>3
<1>3. ASSUME NEW c \in Calls, DamageTx(c)
      PROVE  Ledger!Next
  <2>1. Ledger!WriteOff(call[c].product, "available")
    BY <1>0, <1>3, DamagesAProduct, WrittenOffIsWriteOff DEF DamageTx, Accepted
  <2>2. QED
    BY <1>0, <1>3, <2>1, DamagesAProduct DEF Ledger!Next, DamageTx
<1>4. ASSUME NEW product \in Products, NEW q \in Quantities, Restock(product, q)
      PROVE  Ledger!Next
  <2>1. Ledger!Restock(product)
    BY <1>4, QuantitiesAssumption, RestockedIsRestock DEF Restock
  <2>2. QED
    BY <2>1 DEF Ledger!Next
<1>5. CASE stock' = stock
  BY <1>5
<1>6. QED
  BY <1>1, <1>2, <1>3, <1>4, <1>5, Writers

\* However lending, returns and stock keeping overlap, the inventory takes only
\* steps that StockLedger allows.
THEOREM ImplementsLedger == Spec => KeepsLedger
<1>1. Init => Ledger!Init
  BY SameStock DEF Init, Ledger!Init
<1>2. Init => AllLegal
  BY InitialUnitsAssumption DEF Init, AllLegal, Legal, NewRow, Counters, Places
<1>3. Inv /\ AllLegal /\ [Next]_vars => [Ledger!Next]_stock
  BY LedgerStep
<1>4. QED
  BY <1>1, <1>2, <1>3, LegalStep, InvHolds, PTL DEF Spec, KeepsLedger, Ledger!Spec
=============================================================================
