---------------------------- MODULE RoomsProofs ----------------------------
(***************************************************************************)
(* Proofs about Rooms, for any number of bookings, dates, requests and     *)
(* beds, and orders of any size; and, at the end, about Caches.            *)
(***************************************************************************)
EXTENDS Rooms, Caches, FiniteSetTheorems, WellFoundedInduction, TLAPS

Sources == {"live", "estimate"}

\* The beds that the bookings of K take on night n.
Taken(K, n) == UnitsOf(Overlapping(K, {n}))

\* An answer of eZee still shows, on no night, more than the bookings it
\* knows leave free, and these are in eZee.
Answers(v, r) ==
    v.source = "live" =>
        /\ v.knows \subseteq InEzee
        /\ \A n \in r : v.free + Taken(v.knows, n) <= Beds

\* What is cached was answered or estimated, and knows what is owed.
SoundCache(r) ==
    /\ owed[r] \subseteq InEzee
    /\ cache[r] = Nothing \/ cache[r].source \in Sources
    /\ Answers(cache[r], r)
    /\ cache[r].source = "live" => owed[r] \subseteq cache[r].knows

\* A request runs for dates it was asked for; what it was promised when it
\* began is owed until it looks, and known to what it is then checked against.
SoundCall(c) ==
    /\ call[c].step # "none" => call[c].range \in Ranges
    /\ call[c].step \in {"look", "load", "put"} =>
          call[c].owed \subseteq owed[call[c].range]
    /\ call[c].step \in {"put", "check"} =>
          /\ call[c].value.source \in Sources
          /\ Answers(call[c].value, call[c].range)
    /\ call[c].step = "put" /\ call[c].value.source = "live" =>
          owed[call[c].range] \subseteq call[c].value.knows
    /\ call[c].step = "check" /\ call[c].value.source = "live" =>
          call[c].owed \subseteq call[c].value.knows

\* An order of one selection had its beds beside the bookings it knew of.
SoundOrder(b) ==
    booking[b].stage = "ordered" =>
        /\ booking[b].range \in Ranges /\ booking[b].rooms \in Selections
        /\ booking[b].checked.source \in Sources
        /\ booking[b].checked.source = "live" =>
              /\ booking[b].checked.knows \subseteq InEzee
              /\ Len(booking[b].rooms) = 1 =>
                    \A n \in booking[b].range :
                       Units(booking[b].rooms) + Taken(booking[b].checked.knows, n)
                          <= Beds

\* eZee sells no bed twice.
NeverOversold == \A n \in Nat : Taken(InEzee, n) <= Beds

\* The inductive invariant.
Inv ==
    /\ TypeOK
    /\ IsFiniteSet(InEzee)
    /\ NeverOversold
    /\ \A r \in Ranges : SoundCache(r)
    /\ \A c \in Calls : SoundCall(c)
    /\ \A b \in Bookings : SoundOrder(b)
-----------------------------------------------------------------------------
(* Minimum and sum over finite sets.                                       *)

\* A set of numbers has a lowest one: induction, told as least counterexample.
LEMMA HasLowest ==
    ASSUME NEW S \in SUBSET Nat, S # {}
    PROVE  \E low \in S : \A m \in S : low <= m
<1>1. PICK low \in S : \A m \in S : <<m, low>> \notin OpToRel(<, Nat)
  BY NatLessThanWellFounded, WFMin
<1>2. ASSUME NEW m \in S
      PROVE  low <= m
  <2>1. m \in Nat /\ low \in Nat
    OBVIOUS
  <2>2. ~(m < low)
    BY <1>1, <2>1 DEF OpToRel
  <2>3. QED
    BY <2>1, <2>2
<1>3. QED
  BY <1>2

\* In a family of finite sets some set is no larger than any other of it.
LEMMA HasSmallest ==
    ASSUME NEW S, IsFiniteSet(S), NEW F \in SUBSET (SUBSET S), F # {}
    PROVE  \E small \in F : \A s \in F : Cardinality(small) <= Cardinality(s)
<1> DEFINE sizes == {Cardinality(s) : s \in F}
<1>1. \A s \in F : Cardinality(s) \in Nat
  BY FS_Subset, FS_CardinalityType
<1>2. sizes \in SUBSET Nat /\ sizes # {}
  BY <1>1
<1>3. PICK low \in sizes : \A m \in sizes : low <= m
  BY <1>2, HasLowest
<1>4. QED
  BY <1>3

\* A finite set of integers has a minimum.
LEMMA FiniteHasMin ==
    ASSUME NEW S \in SUBSET Int, S # {}, IsFiniteSet(S)
    PROVE  Min(S) \in S /\ \A x \in S : Min(S) <= x
<1> DEFINE HasMin(T) == \E x \in T : \A y \in T : x <= y
           F == {T \in SUBSET S : T # {} /\ ~HasMin(T)}
<1>1. SUFFICES ASSUME S \in F PROVE FALSE
  BY DEF Min
<1> HIDE DEF HasMin
<1>2. PICK T \in F : \A U \in F : Cardinality(T) <= Cardinality(U)
  BY <1>1, HasSmallest
<1>3. PICK x \in T : TRUE
  BY <1>2
<1>4. /\ T \ {x} \in SUBSET S
      /\ Cardinality(T \ {x}) = Cardinality(T) - 1 /\ Cardinality(T) \in Nat
  BY <1>3, FS_Subset, FS_RemoveElement, FS_CardinalityType
<1>5. T \ {x} = {} \/ HasMin(T \ {x})
  BY <1>2, <1>4
<1>6. HasMin(T)
  <2>1. CASE T \ {x} = {}
    BY <1>3, <2>1 DEF HasMin
  <2>2. CASE HasMin(T \ {x})
    <3>1. PICK m \in T \ {x} : \A y \in T \ {x} : m <= y
      BY <2>2 DEF HasMin
    <3>2. x \in Int /\ m \in Int /\ \A y \in T : y \in Int
      OBVIOUS
    <3>3. QED
      BY <3>1, <3>2 DEF HasMin
  <2>3. QED
    BY <1>5, <2>1, <2>2
<1>7. QED
  BY <1>2, <1>6

\* The sums of u over the subsets of S, as the fold adds them up.
pick(s) == CHOOSE x \in s : TRUE
Sums(u, S, g) ==
    g = [s \in SUBSET S |-> IF s = {} THEN 0 ELSE u[pick(s)] + g[s \ {pick(s)}]]

\* The element that the fold takes out of a set is one of it.
LEMMA PickTakesOne ==
    ASSUME NEW S, IsFiniteSet(S), NEW s \in SUBSET S, s # {}
    PROVE  /\ pick(s) \in s /\ s \ {pick(s)} \in SUBSET S
           /\ Cardinality(s) \in Nat
           /\ Cardinality(s \ {pick(s)}) = Cardinality(s) - 1
<1>1. pick(s) \in s
  BY DEF pick
<1>2. IsFiniteSet(s) /\ Cardinality(s) \in Nat
  BY FS_Subset, FS_CardinalityType
<1>3. QED
  BY <1>1, <1>2, FS_RemoveElement

\* There are sums over every finite set.
LEMMA SumsExist ==
    ASSUME NEW S, IsFiniteSet(S), NEW u
    PROVE  \E g : Sums(u, S, g)
<1> DEFINE upTo(n) == {s \in SUBSET S : Cardinality(s) <= n}
           next(g, s) == IF s = {} THEN 0 ELSE u[pick(s)] + g[s \ {pick(s)}]
           SumsTo(n, g) == g = [s \in upTo(n) |-> next(g, s)]
           bad == {n \in Nat : ~\E g : SumsTo(n, g)}
<1>1. \A s \in SUBSET S : Cardinality(s) \in Nat /\ (Cardinality(s) = 0 => s = {})
  BY FS_Subset, FS_CardinalityType, FS_EmptySet
<1>2. bad = {}
  <2>1. SUFFICES ASSUME bad # {} PROVE FALSE
    OBVIOUS
  <2> HIDE DEF SumsTo
  <2>2. PICK n \in bad : \A m \in bad : n <= m
    BY <2>1, HasLowest
  <2>3. CASE n = 0
    <3>1. \A s \in upTo(0) : s = {}
      BY <1>1
    <3>2. SumsTo(0, [s \in upTo(0) |-> 0])
      BY <3>1 DEF SumsTo
    <3>3. QED
      BY <2>2, <2>3, <3>2
  <2>4. CASE n # 0
    <3>1. n - 1 \in Nat /\ n - 1 \notin bad
      BY <2>2, <2>4
    <3>2. PICK g : SumsTo(n - 1, g)
      BY <3>1
    <3> DEFINE h == [s \in upTo(n) |-> next(g, s)]
    <3>3. \A s \in upTo(n - 1) : s \in upTo(n) /\ h[s] = g[s]
      <4>1. \A s \in upTo(n - 1) : g[s] = next(g, s)
        BY <3>2 DEF SumsTo
      <4>2. upTo(n - 1) \subseteq upTo(n)
        BY <1>1, <3>1
      <4>3. QED
        BY <4>1, <4>2
    <3>4. ASSUME NEW s \in upTo(n)
          PROVE  h[s] = next(h, s)
      <4>1. CASE s = {}
        BY <4>1
      <4>2. CASE s # {}
        <5>1. s \ {pick(s)} \in upTo(n - 1)
          BY <1>1, <3>1, <4>2, PickTakesOne
        <5>2. h[s \ {pick(s)}] = g[s \ {pick(s)}]
          BY <3>3, <5>1
        <5>3. QED
          BY <4>2, <5>2
      <4>3. QED
        BY <4>1, <4>2
    <3>5. h = [s \in upTo(n) |-> h[s]]
      OBVIOUS
    <3> HIDE DEF h
    <3>6. SumsTo(n, h)
      BY <3>4, <3>5 DEF SumsTo
    <3>7. QED
      BY <2>2, <3>6
  <2>5. QED
    BY <2>3, <2>4
<1>3. PICK g : SumsTo(Cardinality(S), g)
  BY <1>1, <1>2
<1>4. upTo(Cardinality(S)) = SUBSET S
  BY FS_Subset
<1>5. QED
  BY <1>3, <1>4 DEF Sums

\* Sums are determined by what is summed, also over a larger set.
LEMMA SumsAgree ==
    ASSUME NEW S, IsFiniteSet(S), NEW T \in SUBSET S, NEW u, NEW v,
           \A x \in T : u[x] = v[x],
           NEW g, Sums(u, S, g), NEW h, Sums(v, T, h)
    PROVE  \A s \in SUBSET T : g[s] = h[s]
<1> DEFINE F == {s \in SUBSET T : g[s] # h[s]}
<1>1. SUFFICES ASSUME F # {} PROVE FALSE
  OBVIOUS
<1>2. IsFiniteSet(T)
  BY FS_Subset
<1>3. PICK s \in F : \A t \in F : Cardinality(s) <= Cardinality(t)
  BY <1>1, <1>2, HasSmallest
<1>4. /\ g[s] = IF s = {} THEN 0 ELSE u[pick(s)] + g[s \ {pick(s)}]
      /\ h[s] = IF s = {} THEN 0 ELSE v[pick(s)] + h[s \ {pick(s)}]
  BY DEF Sums
<1>5. CASE s = {}
  BY <1>3, <1>4, <1>5
<1>6. CASE s # {}
  <2>1. /\ pick(s) \in s /\ s \ {pick(s)} \in SUBSET T
        /\ Cardinality(s) \in Nat
        /\ Cardinality(s \ {pick(s)}) = Cardinality(s) - 1
    BY <1>2, <1>6, PickTakesOne
  <2>2. g[s \ {pick(s)}] = h[s \ {pick(s)}]
    BY <1>3, <2>1
  <2>3. QED
    BY <1>3, <1>4, <1>6, <2>1, <2>2
<1>7. QED
  BY <1>5, <1>6

\* Sums of natural numbers are natural numbers, and an element may be taken
\* out of a sum, whichever the fold takes first.
LEMMA SumsAreNat ==
    ASSUME NEW S, IsFiniteSet(S), NEW u, \A x \in S : u[x] \in Nat,
           NEW g, Sums(u, S, g)
    PROVE  \A s \in SUBSET S : g[s] \in Nat
<1> DEFINE F == {s \in SUBSET S : g[s] \notin Nat}
<1>1. SUFFICES ASSUME F # {} PROVE FALSE
  OBVIOUS
<1>2. PICK s \in F : \A t \in F : Cardinality(s) <= Cardinality(t)
  BY <1>1, HasSmallest
<1>3. g[s] = IF s = {} THEN 0 ELSE u[pick(s)] + g[s \ {pick(s)}]
  BY DEF Sums
<1>4. s # {}
  BY <1>2, <1>3
<1>5. /\ pick(s) \in s /\ s \ {pick(s)} \in SUBSET S
      /\ Cardinality(s) \in Nat
      /\ Cardinality(s \ {pick(s)}) = Cardinality(s) - 1
  BY <1>4, PickTakesOne
<1>6. g[s \ {pick(s)}] \in Nat /\ u[pick(s)] \in Nat
  BY <1>2, <1>5
<1>7. QED
  BY <1>2, <1>3, <1>4, <1>6

LEMMA SumsAdd ==
    ASSUME NEW S, IsFiniteSet(S), NEW u, \A x \in S : u[x] \in Nat,
           NEW g, Sums(u, S, g)
    PROVE  \A s \in SUBSET S : \A x \in s : g[s] = u[x] + g[s \ {x}]
<1> DEFINE F == {s \in SUBSET S : \E x \in s : g[s] # u[x] + g[s \ {x}]}
<1>1. SUFFICES ASSUME F # {} PROVE FALSE
  OBVIOUS
<1>2. PICK s \in F : \A t \in F : Cardinality(s) <= Cardinality(t)
  BY <1>1, HasSmallest
<1>3. PICK x \in s : g[s] # u[x] + g[s \ {x}]
  BY <1>2
<1> DEFINE p == pick(s)
<1>4. /\ p \in s /\ s \ {p} \in SUBSET S
      /\ Cardinality(s) \in Nat
      /\ Cardinality(s \ {p}) = Cardinality(s) - 1
  BY <1>3, PickTakesOne
<1>5. g[s] = u[p] + g[s \ {p}]
  BY <1>3 DEF Sums
<1> HIDE DEF p
<1>6. x # p
  BY <1>3, <1>5
<1>7. Cardinality(s \ {x}) = Cardinality(s) - 1
  BY <1>3, FS_Subset, FS_RemoveElement
<1>8. s \ {p} \notin F /\ s \ {x} \notin F
  BY <1>2, <1>4, <1>7
<1>9. g[s \ {p}] = u[x] + g[(s \ {p}) \ {x}]
  BY <1>4, <1>6, <1>8
<1>10. g[s \ {x}] = u[p] + g[(s \ {x}) \ {p}]
  BY <1>4, <1>6, <1>8
<1>11. (s \ {p}) \ {x} = (s \ {x}) \ {p}
  OBVIOUS
<1>12. /\ g[(s \ {p}) \ {x}] \in Nat /\ u[x] \in Nat /\ u[p] \in Nat
  BY <1>4, SumsAreNat
<1>13. PICK rest \in Nat : rest = g[(s \ {p}) \ {x}]
  BY <1>12
<1>14. g[s] = u[p] + (u[x] + rest) /\ g[s \ {x}] = u[p] + rest
  BY <1>5, <1>9, <1>10, <1>11, <1>13
<1>15. u[p] + (u[x] + rest) = u[x] + (u[p] + rest)
  BY <1>12
<1>16. QED
  BY <1>3, <1>14, <1>15

Total(u, S) == (CHOOSE g : Sums(u, S, g))[S]

LEMMA TotalIsNat ==
    ASSUME NEW S, IsFiniteSet(S), NEW u, \A x \in S : u[x] \in Nat
    PROVE  Total(u, S) \in Nat
<1>1. PICK g : Sums(u, S, g) /\ Total(u, S) = g[S]
  BY SumsExist DEF Total
<1>2. QED
  BY <1>1, SumsAreNat

LEMMA TotalSame ==
    ASSUME NEW S, IsFiniteSet(S), NEW u, NEW v, \A x \in S : u[x] = v[x]
    PROVE  Total(u, S) = Total(v, S)
<1>1. PICK g : Sums(u, S, g) /\ Total(u, S) = g[S]
  BY SumsExist DEF Total
<1>2. PICK h : Sums(v, S, h) /\ Total(v, S) = h[S]
  BY SumsExist DEF Total
<1>3. \A s \in SUBSET S : g[s] = h[s]
  <2>1. S \in SUBSET S
    OBVIOUS
  <2>2. QED
    BY <1>1, <1>2, <2>1, SumsAgree
<1>4. QED
  BY <1>1, <1>2, <1>3

LEMMA TotalAdds ==
    ASSUME NEW S, IsFiniteSet(S), NEW u, NEW x, x \notin S,
           \A y \in S \cup {x} : u[y] \in Nat
    PROVE  Total(u, S \cup {x}) = Total(u, S) + u[x]
<1> DEFINE T == S \cup {x}
<1>1. IsFiniteSet(T) /\ T \ {x} = S /\ S \in SUBSET T
  BY FS_AddElement
<1>2. PICK g : Sums(u, T, g) /\ Total(u, T) = g[T]
  BY <1>1, SumsExist DEF Total
<1>3. PICK h : Sums(u, S, h) /\ Total(u, S) = h[S]
  BY SumsExist DEF Total
<1>4. g[T] = u[x] + g[S]
  BY <1>1, <1>2, SumsAdd
<1>5. g[S] = h[S]
  BY <1>1, <1>2, <1>3, SumsAgree
<1>6. h[S] \in Nat
  BY <1>3, SumsAreNat
<1>7. u[x] + h[S] = h[S] + u[x]
  BY <1>6
<1>8. QED
  BY <1>2, <1>3, <1>4, <1>5, <1>7
-----------------------------------------------------------------------------
(* Beds and nights.                                                        *)

\* An order asks for a number of rooms...
LEMMA UnitsAreNat ==
    ASSUME NEW s \in Selections \cup {<<>>}
    PROVE  Units(s) \in Nat
<1>1. s \in Seq(Nat)
  <2>1. CASE s = <<>>
    BY <2>1
  <2>2. CASE s \in Selections
    BY <2>2, SelectionsAssumption
  <2>3. QED
    BY <2>1, <2>2
<1> DEFINE f == [i \in DOMAIN s |-> {i} \X (1..s[i])]
           blocks == {{i} \X (1..s[i]) : i \in DOMAIN s}
<1>2. DOMAIN s = 1..Len(s) /\ Len(s) \in Nat /\ \A i \in DOMAIN s : s[i] \in Nat
  BY <1>1
<1>3. IsFiniteSet(DOMAIN s)
  BY <1>2, FS_Interval
<1>4. f \in Surjection(DOMAIN s, blocks)
  BY DEF Surjection
<1>5. IsFiniteSet(blocks)
  BY <1>3, <1>4, FS_Surjection
<1>6. ASSUME NEW i \in DOMAIN s
      PROVE  IsFiniteSet({i} \X (1..s[i]))
  <2>1. IsFiniteSet({i})
    BY FS_Singleton
  <2>2. s[i] \in Int /\ 1 \in Int
    BY <1>2
  <2>3. IsFiniteSet(1..s[i])
    BY <2>2, FS_Interval
  <2>4. QED
    BY <2>1, <2>3, FS_Product
<1>7. IsFiniteSet(UNION blocks)
  BY <1>5, <1>6, FS_UNION
<1>8. QED
  BY <1>7, FS_CardinalityType DEF Units, buildEzeeRooms

LEMMA RoomsAreNat ==
    ASSUME NEW s \in Seq(Nat)
    PROVE  DOMAIN s = 1..Len(s) /\ \A i \in DOMAIN s : s[i] \in Nat
OBVIOUS

\* ...and one that names the type once asks for that selection's quantity.
LEMMA UnitsOfOne ==
    ASSUME NEW s \in Seq(Nat), Len(s) = 1
    PROVE  Units(s) = s[1]
<1>1. DOMAIN s = {1} /\ s[1] \in Nat
  <2>1. DOMAIN s = 1..Len(s) /\ \A i \in DOMAIN s : s[i] \in Nat
    BY RoomsAreNat
  <2>2. 1..Len(s) = {1}
    OBVIOUS
  <2>3. QED
    BY <2>1, <2>2
<1>2. buildEzeeRooms(s) = {1} \X (1..s[1])
  BY <1>1 DEF buildEzeeRooms
<1>3. Cardinality(1..s[1]) = s[1] /\ IsFiniteSet(1..s[1])
  BY <1>1, FS_Interval
<1>4. Cardinality({1} \X (1..s[1])) = 1 * s[1]
  <2>1. IsFiniteSet({1}) /\ Cardinality({1}) = 1
    BY FS_Singleton
  <2>2. QED
    BY <1>3, <2>1, FS_Product
<1>5. QED
  BY <1>1, <1>2, <1>4 DEF Units

\* What each booking asks for, and hence what several do.
Need == [b \in Bookings |-> Units(booking[b].rooms)]

LEMMA UnitsOfIsTotal ==
    \A S \in SUBSET Bookings : IsFiniteSet(S) => UnitsOf(S) = Total(Need, S)
<1> SUFFICES ASSUME NEW S \in SUBSET Bookings, IsFiniteSet(S)
             PROVE  UnitsOf(S) = Total(Need, S)
  OBVIOUS
<1> DEFINE Adds(g) == g = [s \in SUBSET S |->
              IF s = {} THEN 0 ELSE Units(booking[pick(s)].rooms) + g[s \ {pick(s)}]]
<1>1. UnitsOf(S) = (CHOOSE g : Adds(g))[S]
  BY DEF UnitsOf, MapThenSumSet, MapThenFoldSet, parseBookingRooms, pick
<1>2. ASSUME NEW s \in SUBSET S, s # {}
      PROVE  Need[pick(s)] = Units(booking[pick(s)].rooms)
  BY <1>2, PickTakesOne DEF Need
<1>3. \A g : Adds(g) <=> Sums(Need, S, g)
  BY <1>2 DEF Sums
<1>4. PICK g : Adds(g) /\ UnitsOf(S) = g[S]
  BY <1>1, <1>3, SumsExist
<1>5. PICK h : Sums(Need, S, h) /\ Total(Need, S) = h[S]
  BY SumsExist DEF Total
<1>6. Sums(Need, S, g)
  BY <1>3, <1>4
<1>7. S \in SUBSET S /\ \A x \in S : Need[x] = Need[x]
  OBVIOUS
<1>8. \A s \in SUBSET S : g[s] = h[s]
  BY <1>5, <1>6, <1>7, SumsAgree
<1>9. QED
  BY <1>4, <1>5, <1>8

LEMMA NextUnitsOfIsTotal ==
    \A S \in SUBSET Bookings : IsFiniteSet(S) => UnitsOf(S)' = Total(Need', S)
<1>1. (\A S \in SUBSET Bookings : IsFiniteSet(S) => UnitsOf(S) = Total(Need, S))'
  BY UnitsOfIsTotal, PTL
<1>2. QED
  BY <1>1

LEMMA NeedIsNat ==
    ASSUME TypeOK, NEW b \in Bookings
    PROVE  Need[b] \in Nat
<1>1. booking[b].rooms \in Selections \cup {<<>>}
  BY DEF TypeOK
<1>2. QED
  BY <1>1, UnitsAreNat DEF Need

\* Finitely many bookings take a number of beds.
LEMMA UnitsOfIsNat ==
    ASSUME TypeOK, NEW K \in SUBSET Bookings, IsFiniteSet(K)
    PROVE  UnitsOf(K) \in Nat
<1>1. \A b \in K : Need[b] \in Nat
  BY NeedIsNat
<1>2. QED
  BY <1>1, UnitsOfIsTotal, TotalIsNat

LEMMA TakenIsNat ==
    ASSUME TypeOK, NEW K \in SUBSET Bookings, IsFiniteSet(K), NEW n
    PROVE  Taken(K, n) \in Nat
<1>1. Overlapping(K, {n}) \in SUBSET K
  BY DEF Overlapping
<1>2. IsFiniteSet(Overlapping(K, {n})) /\ Overlapping(K, {n}) \in SUBSET Bookings
  BY <1>1, FS_Subset
<1>3. QED
  BY <1>2, UnitsOfIsNat DEF Taken

\* What bookings take changes only with their rows.
RowStays(b) ==
    booking'[b].range = booking[b].range /\ booking'[b].rooms = booking[b].rooms

LEMMA TakenStays ==
    ASSUME TypeOK, NEW K \in SUBSET Bookings, IsFiniteSet(K), NEW n,
           \A b \in K : RowStays(b)
    PROVE  Taken(K, n)' = Taken(K, n)
<1>1. PICK S \in SUBSET K : S = Overlapping(K, {n})
  BY DEF Overlapping
<1>2. Overlapping(K, {n})' = S
  BY <1>1 DEF Overlapping, RowStays
<1>3. IsFiniteSet(S) /\ S \in SUBSET Bookings
  BY FS_Subset
<1>4. UnitsOf(S) = Total(Need, S) /\ UnitsOf(S)' = Total(Need', S)
  BY <1>3, UnitsOfIsTotal, NextUnitsOfIsTotal
<1>5. \A b \in S : Need'[b] = Need[b]
  BY DEF Need, RowStays
<1>6. Total(Need', S) = Total(Need, S)
  BY <1>3, <1>5, TotalSame
<1>7. Taken(K, n)' = UnitsOf(S)'
  BY <1>2 DEF Taken
<1>8. QED
  BY <1>1, <1>4, <1>6, <1>7 DEF Taken

\* A booking that comes to those of K takes its own units, on its nights.
LEMMA TakenAdds ==
    ASSUME TypeOK, TypeOK', NEW K \in SUBSET Bookings, IsFiniteSet(K), NEW n,
           NEW b \in Bookings, b \notin K,
           \A k \in K : RowStays(k)
    PROVE  Taken(K \cup {b}, n)' =
              Taken(K, n) + IF n \in booking'[b].range
                            THEN Units(booking'[b].rooms) ELSE 0
<1>1. PICK S \in SUBSET K : S = Overlapping(K, {n})
  BY DEF Overlapping
<1>2. Overlapping(K \cup {b}, {n})' =
        IF n \in booking'[b].range THEN S \cup {b} ELSE S
  BY <1>1 DEF Overlapping, RowStays
<1>3. /\ IsFiniteSet(S) /\ S \in SUBSET Bookings /\ b \notin S
      /\ IsFiniteSet(S \cup {b}) /\ S \cup {b} \in SUBSET Bookings
  BY FS_Subset, FS_AddElement
<1>4. /\ UnitsOf(S) = Total(Need, S) /\ UnitsOf(S)' = Total(Need', S)
      /\ UnitsOf(S \cup {b})' = Total(Need', S \cup {b})
  BY <1>3, UnitsOfIsTotal, NextUnitsOfIsTotal
<1>5. \A k \in S : Need'[k] = Need[k]
  BY DEF Need, RowStays
<1>6. Total(Need', S) = Total(Need, S)
  BY <1>3, <1>5, TotalSame
<1>7. \A k \in Bookings : Need'[k] \in Nat
  <2>1. (\A k \in Bookings : booking[k].rooms \in Selections \cup {<<>>})'
    BY DEF TypeOK
  <2>2. QED
    BY <2>1, UnitsAreNat DEF Need
<1>8. Total(Need', S \cup {b}) = Total(Need', S) + Need'[b]
  <2>1. PICK u : u = Need'
    OBVIOUS
  <2>2. \A y \in S \cup {b} : u[y] \in Nat
    BY <1>3, <1>7, <2>1
  <2>3. IsFiniteSet(S) /\ b \notin S
    BY <1>3
  <2>4. Total(u, S \cup {b}) = Total(u, S) + u[b]
    BY <2>2, <2>3, TotalAdds
  <2>5. QED
    BY <2>1, <2>4
<1>9. Taken(K, n) = Total(Need, S) /\ Total(Need, S) \in Nat
  BY <1>1, <1>4, TakenIsNat DEF Taken
<1>10. CASE n \in booking'[b].range
  <2>1. Taken(K \cup {b}, n)' = UnitsOf(S \cup {b})'
    BY <1>2, <1>10 DEF Taken
  <2>2. Need'[b] = Units(booking'[b].rooms)
    BY DEF Need
  <2>3. QED
    BY <1>4, <1>6, <1>8, <1>9, <1>10, <2>1, <2>2
<1>11. CASE n \notin booking'[b].range
  <2>1. Taken(K \cup {b}, n)' = UnitsOf(S)'
    BY <1>2, <1>11 DEF Taken
  <2>2. QED
    BY <1>4, <1>6, <1>9, <1>11, <2>1
<1>12. QED
  BY <1>10, <1>11

\* eZee has the beds that the bookings leave on the fullest of the nights.
LEMMA MinAvailableIs ==
    ASSUME TypeOK, IsFiniteSet(InEzee), NEW r \in Stays
    PROVE  /\ \E n \in r : MinAvailable(r) = Beds - Taken(InEzee, n)
           /\ \A n \in r : MinAvailable(r) <= Beds - Taken(InEzee, n)
           /\ MinAvailable(r) \in Int
<1> DEFINE left(n) == Beds - Taken(InEzee, n)
           S == {left(n) : n \in r}
           f == [n \in r |-> left(n)]
<1>1. InEzee \in SUBSET Bookings
  BY DEF InEzee
<1>2. \A n : left(n) \in Int
  BY <1>1, TakenIsNat, BedsAssumption
<1>3. MinAvailable(r) = Min(S)
  BY DEF MinAvailable, Taken
<1> HIDE DEF left
<1>4. r # {} /\ IsFiniteSet(r)
  BY RangesAssumption
<1>5. f \in Surjection(r, S)
  BY DEF Surjection
<1>6. IsFiniteSet(S)
  BY <1>4, <1>5, FS_Surjection
<1>7. S \in SUBSET Int /\ S # {}
  BY <1>2, <1>4
<1>8. Min(S) \in S /\ \A x \in S : Min(S) <= x
  BY <1>6, <1>7, FiniteHasMin
<1>9. /\ \E n \in r : Min(S) = left(n)
      /\ \A n \in r : Min(S) <= left(n)
  BY <1>8
<1>10. QED
  BY <1>3, <1>7, <1>8, <1>9 DEF left
-----------------------------------------------------------------------------
(* Types.                                                                  *)

LEMMA KindsOfNothing == Nothing \in Values
BY BedsAssumption DEF Nothing, Values

\* What eZee answers, and what the rows are counted to, are values.
LEMMA LiveIsValue ==
    ASSUME Inv, NEW r \in Ranges
    PROVE  Live(r) \in Values /\ Answers(Live(r), r)
<1>1. /\ TypeOK /\ IsFiniteSet(InEzee) /\ r \in Stays
      /\ InEzee \in SUBSET Bookings /\ r \subseteq Nat
  BY RangesAssumption DEF Inv, InEzee
<1>2. \A n \in r : Taken(InEzee, n) \in Nat /\ Taken(InEzee, n) <= Beds
  BY <1>1, TakenIsNat DEF Inv, NeverOversold
<1>3. /\ \E n \in r : MinAvailable(r) = Beds - Taken(InEzee, n)
      /\ \A n \in r : MinAvailable(r) <= Beds - Taken(InEzee, n)
      /\ MinAvailable(r) \in Int
  BY <1>1, MinAvailableIs
<1>4. MinAvailable(r) \in 0..Beds
  BY <1>2, <1>3, BedsAssumption
<1>5. \A n \in r : MinAvailable(r) + Taken(InEzee, n) <= Beds
  BY <1>2, <1>3, BedsAssumption
<1>6. QED
  BY <1>1, <1>4, <1>5 DEF Live, Values, Answers

LEMMA EstimateIsValue ==
    ASSUME Inv, NEW r \in Ranges,
           NEW rows \in SUBSET {b \in Bookings : booking[b].stage = "elsewhere"}
    PROVE  Estimate(r, rows) \in Values /\ Estimate(r, rows).source = "estimate"
<1>1. Overlapping(rows, r) \in SUBSET InEzee /\ InEzee \in SUBSET Bookings
  BY DEF Overlapping, InEzee
<1>2. IsFiniteSet(Overlapping(rows, r))
  BY <1>1, FS_Subset DEF Inv
<1>3. UnitsOf(Overlapping(rows, r)) \in Nat
  BY <1>1, <1>2, UnitsOfIsNat DEF Inv
<1>4. QED
  BY <1>3, BedsAssumption DEF Estimate, Values

LEMMA OwedFromIs ==
    ASSUME NEW r
    PROVE  OwedFrom(r) \in SUBSET InEzee /\ InEzee \in SUBSET Bookings
BY DEF OwedFrom, InEzee

Requests ==
    [op : {"none", "search", "order"},
     step : {"none", "look", "load", "put", "check", "delete"},
     range : Ranges \cup {{}}, value : Values, owed : SUBSET Bookings]
Rows ==
    [stage : {"none", "elsewhere", "ordered", "sold", "shown", "refused"},
     range : Stays \cup {{}}, rooms : Selections \cup {<<>>}, checked : Values]

LEMMA TypeIs ==
    TypeOK <=> /\ booking \in [Bookings -> Rows]
               /\ cache \in [Ranges -> Values]
               /\ call \in [Calls -> Requests]
               /\ owed \in [Ranges -> SUBSET Bookings]
BY DEF TypeOK, Requests, Rows

LEMMA NextTypeIs ==
    TypeOK' <=> /\ booking' \in [Bookings -> Rows]
                /\ cache' \in [Ranges -> Values]
                /\ call' \in [Calls -> Requests]
                /\ owed' \in [Ranges -> SUBSET Bookings]
BY DEF TypeOK, Requests, Rows

\* A request that has found or been given a value goes on.
LEMMA GoesOn ==
    ASSUME TypeOK, NEW c \in Calls, NEW v \in Values,
           NEW step \in {"load", "put", "check"},
           call' = [call EXCEPT ![c].step = step, ![c].value = v]
    PROVE  call' \in [Calls -> Requests]
<1>1. call[c] \in Requests
  BY TypeIs
<1>2. [call[c] EXCEPT !.step = step, !.value = v] \in Requests
  BY <1>1 DEF Requests
<1>3. call' = [call EXCEPT ![c] = [call[c] EXCEPT !.step = step, !.value = v]]
  OBVIOUS
<1>4. QED
  BY <1>2, <1>3, TypeIs

\* A request that runs is a request, whatever its next step holds.
LEMMA TypeIsKept ==
    ASSUME Inv, [Next]_vars
    PROVE  TypeOK'
<1> USE DEF Inv
<1>0. Nothing \in Values /\ Idle \in
         [op : {"none", "search", "order"},
          step : {"none", "look", "load", "put", "check", "delete"},
          range : Ranges \cup {{}}, value : Values, owed : SUBSET Bookings]
  BY KindsOfNothing DEF Idle
<1>1. CASE UNCHANGED vars
  BY <1>1 DEF vars, TypeOK
<1>2. ASSUME NEW c \in Calls, Look(c) PROVE TypeOK'
  <2>1. call[c].range \in Ranges
    BY <1>2 DEF Look, SoundCall
  <2>2. cache[call[c].range] \in Values
    BY <2>1 DEF TypeOK
  <2>3. PICK v \in Values, step \in {"load", "check"} :
            call' = [call EXCEPT ![c].step = step, ![c].value = v]
    BY <1>0, <1>2, <2>2 DEF Look
  <2>4. QED
    BY <1>2, <2>3, GoesOn, TypeIs, NextTypeIs DEF Look
<1>3. ASSUME NEW c \in Calls, LoadLive(c) PROVE TypeOK'
  <2>1. call[c].range \in Ranges
    BY <1>3 DEF LoadLive, SoundCall
  <2>2. Live(call[c].range) \in Values
    BY <2>1, LiveIsValue
  <2>3. QED
    BY <1>3, <2>2, GoesOn, TypeIs, NextTypeIs DEF LoadLive
<1>4. ASSUME NEW c \in Calls, LoadEstimate(c) PROVE TypeOK'
  <2>1. call[c].range \in Ranges
    BY <1>4 DEF LoadEstimate, SoundCall
  <2>2. PICK v \in Values : call' = [call EXCEPT ![c].step = "put", ![c].value = v]
    BY <1>4, <2>1, EstimateIsValue DEF LoadEstimate
  <2>3. QED
    BY <1>4, <2>2, GoesOn, TypeIs, NextTypeIs DEF LoadEstimate
<1>5. ASSUME NEW c \in Calls, Put(c) PROVE TypeOK'
  BY <1>0, <1>5 DEF Put, TypeOK
<1>6. ASSUME NEW r \in Ranges, Delete(r)
      PROVE  cache' \in [Ranges -> Values] /\ owed' \in [Ranges -> SUBSET Bookings]
  <2>1. OwedFrom(r) \in SUBSET Bookings
    BY OwedFromIs
  <2>2. QED
    BY <1>0, <1>6, <2>1 DEF Delete, TypeOK
<1>7. ASSUME NEW c \in Calls, DeleteAgain(c) PROVE TypeOK'
  <2>1. call[c].range \in Ranges
    BY <1>7 DEF DeleteAgain, SoundCall
  <2>2. cache' \in [Ranges -> Values] /\ owed' \in [Ranges -> SUBSET Bookings]
    BY <1>6, <1>7, <2>1 DEF DeleteAgain, DeleteFails, TypeOK
  <2>3. QED
    BY <1>0, <1>7, <2>2 DEF DeleteAgain, TypeOK
<1>8. ASSUME NEW c \in Calls, Cut(c) PROVE TypeOK'
  BY <1>0, <1>8 DEF Cut, TypeOK
<1>9. ASSUME NEW c \in Calls, NEW r \in Ranges, Search(c, r) PROVE TypeOK'
  BY <1>0, <1>9 DEF Search, Idle, TypeOK
<1>10. ASSUME NEW c \in Calls, NEW r \in Ranges, Order(c, r) PROVE TypeOK'
  <2>1. cache' \in [Ranges -> Values] /\ owed' \in [Ranges -> SUBSET Bookings]
    BY <1>6, <1>10 DEF Order, DeleteFails, TypeOK
  <2>2. PICK bs \in SUBSET Bookings : LooksNext(c, r, bs)
    BY <1>10, OwedFromIs DEF Order
  <2>3. QED
    BY <1>0, <1>10, <2>1, <2>2 DEF Order, LooksNext, Idle, TypeOK
<1>11. ASSUME NEW c \in Calls, NEW b \in Bookings, NEW s \in Selections,
              Create(c, b, s)
       PROVE  TypeOK'
  <2>1. call[c].range \in Stays
    BY <1>11, RangesAssumption DEF Create, SoundCall
  <2>2. [call[c].value EXCEPT !.free = 0] \in Values
    <3>1. call[c].value \in Values
      BY DEF TypeOK
    <3>2. QED
      BY <3>1, BedsAssumption DEF Values
  <2>3. QED
    BY <1>11, <2>1, <2>2 DEF Create, TypeOK
<1>12. ASSUME NEW r \in Ranges, Expire(r) PROVE TypeOK'
  BY <1>0, <1>12 DEF Expire, TypeOK
<1>13. ASSUME NEW b \in Bookings, Insert(b) PROVE TypeOK'
  <2>1. booking[b] \in Rows
    BY TypeIs
  <2>2. [booking[b] EXCEPT !.stage = "sold", !.checked = Nothing] \in Rows
    BY <1>0, <2>1 DEF Rows
  <2>3. booking' = [booking EXCEPT ![b] =
                      [booking[b] EXCEPT !.stage = "sold", !.checked = Nothing]]
    BY <1>13 DEF Insert
  <2>4. QED
    BY <1>13, <2>2, <2>3, TypeIs, NextTypeIs DEF Insert
<1>14. ASSUME NEW b \in Bookings, Refuse(b) PROVE TypeOK'
  BY <1>0, <1>14 DEF Refuse, Absent, TypeOK
<1>15. ASSUME NEW b \in Bookings, Forget(b) PROVE TypeOK'
  <2>1. OwedFrom(booking[b].range) \in SUBSET Bookings
    BY OwedFromIs
  <2>2. cache' \in [Ranges -> Values] /\ owed' \in [Ranges -> SUBSET Bookings]
    <3>1. PICK r, bs : r = booking[b].range /\ bs = OwedFrom(r)
      OBVIOUS
    <3>2. CASE DeleteFails
      BY <3>2 DEF DeleteFails, TypeOK
    <3>3. CASE Delete(booking[b].range)
      <4>1. /\ cache' = [cache EXCEPT ![r] = Nothing]
            /\ owed' = [owed EXCEPT ![r] = bs]
            /\ bs \in SUBSET Bookings
        BY <2>1, <3>1, <3>3 DEF Delete
      <4>2. QED
        BY <1>0, <4>1 DEF TypeOK
    <3>4. QED
      BY <1>15, <3>2, <3>3 DEF Forget
  <2>3. [booking[b] EXCEPT !.stage = "shown"] \in Rows
    BY TypeIs DEF Rows
  <2>4. QED
    BY <1>15, <2>2, <2>3, TypeIs, NextTypeIs DEF Forget
<1>16. ASSUME NEW b \in Bookings, NEW r \in Stays, NEW s \in Selections,
              SellElsewhere(b, r, s)
       PROVE  TypeOK'
  BY <1>0, <1>16 DEF SellElsewhere, Absent, TypeOK
<1>17. QED
  BY <1>1, <1>2, <1>3, <1>4, <1>5, <1>7, <1>8, <1>9, <1>10, <1>11, <1>12,
     <1>13, <1>14, <1>15, <1>16 DEF Next
-----------------------------------------------------------------------------
(* Bookings.                                                               *)

\* What a step does to the bookings in eZee: none leaves or changes its
\* dates and rooms, and at most one comes, for which there are beds.
LEMMA EzeeGrows ==
    ASSUME Inv, [Next]_vars
    PROVE  /\ \A k \in InEzee : RowStays(k)
           /\ \/ InEzee' = InEzee
              \/ \E b \in Bookings :
                    /\ b \notin InEzee /\ InEzee' = InEzee \cup {b}
                    /\ \A n \in booking'[b].range :
                          Taken(InEzee, n) + Units(booking'[b].rooms) <= Beds
<1> DEFINE Fitted(b) == \A n \in booking'[b].range :
                          Taken(InEzee, n) + Units(booking'[b].rooms) <= Beds
<1>0. TypeOK /\ TypeOK' /\ IsFiniteSet(InEzee) /\ InEzee \in SUBSET Bookings
  BY TypeIsKept DEF Inv, InEzee
<1>1. CASE booking' = booking
  BY <1>1 DEF InEzee, RowStays
<1>2. ASSUME NEW c \in Calls, NEW b \in Bookings, NEW s \in Selections,
             Create(c, b, s)
      PROVE  InEzee' = InEzee /\ \A k \in InEzee : RowStays(k)
  BY <1>0, <1>2 DEF Create, Absent, InEzee, RowStays, TypeOK
<1>3. ASSUME NEW b \in Bookings, Refuse(b)
      PROVE  InEzee' = InEzee /\ \A k \in InEzee : RowStays(k)
  BY <1>0, <1>3 DEF Refuse, Absent, InEzee, RowStays, TypeOK
<1>4. ASSUME NEW b \in Bookings, Forget(b)
      PROVE  InEzee' = InEzee /\ \A k \in InEzee : RowStays(k)
  BY <1>0, <1>4 DEF Forget, InEzee, RowStays, TypeOK
\* Beds for a selection on all of its nights.
<1>5. ASSUME NEW r \in Stays, NEW s \in Selections, MinAvailable(r) >= Units(s),
             NEW n \in r
      PROVE  Taken(InEzee, n) + Units(s) <= Beds
  <2>1. MinAvailable(r) <= Beds - Taken(InEzee, n) /\ MinAvailable(r) \in Int
    BY <1>0, MinAvailableIs
  <2>2. Taken(InEzee, n) \in Nat /\ Units(s) \in Nat
    BY <1>0, TakenIsNat, UnitsAreNat
  <2>3. QED
    BY <1>5, <2>1, <2>2, BedsAssumption
<1>6. ASSUME NEW b \in Bookings, Insert(b)
      PROVE  /\ b \notin InEzee /\ InEzee' = InEzee \cup {b} /\ Fitted(b)
             /\ \A k \in InEzee : RowStays(k)
  <2>1. b \notin InEzee /\ booking[b].stage = "ordered"
    BY <1>6 DEF Insert, InEzee
  <2>2. /\ InEzee' = InEzee \cup {b} /\ \A k \in InEzee : RowStays(k)
        /\ booking'[b].range = booking[b].range
        /\ booking'[b].rooms = booking[b].rooms
    BY <1>0, <1>6 DEF Insert, InEzee, RowStays, TypeOK
  <2>3. booking[b].range \in Stays /\ booking[b].rooms \in Selections
    BY <2>1, RangesAssumption DEF Inv, SoundOrder
  <2>4. MinAvailable(booking[b].range) >= Units(booking[b].rooms)
    BY <1>6 DEF Insert, Fits, parseBookingRooms
  <2>5. QED
    BY <1>5, <2>1, <2>2, <2>3, <2>4
<1>7. ASSUME NEW b \in Bookings, NEW r \in Stays, NEW s \in Selections,
             SellElsewhere(b, r, s)
      PROVE  /\ b \notin InEzee /\ InEzee' = InEzee \cup {b} /\ Fitted(b)
             /\ \A k \in InEzee : RowStays(k)
  <2>1. b \notin InEzee
    BY <1>7 DEF SellElsewhere, InEzee, Absent
  <2>2. /\ InEzee' = InEzee \cup {b} /\ \A k \in InEzee : RowStays(k)
        /\ booking'[b].range = r /\ booking'[b].rooms = s
    BY <1>0, <1>7, <2>1 DEF SellElsewhere, InEzee, Absent, RowStays, TypeOK
  <2>3. MinAvailable(r) >= Units(s)
    BY <1>7 DEF SellElsewhere
  <2>4. QED
    BY <1>5, <2>1, <2>2, <2>3
<1>8. CASE booking' # booking
  <2>1. \/ \E c \in Calls, b \in Bookings, s \in Selections : Create(c, b, s)
        \/ \E b \in Bookings : Insert(b) \/ Refuse(b) \/ Forget(b)
        \/ \E b \in Bookings, r \in Stays, s \in Selections : SellElsewhere(b, r, s)
    BY <1>8 DEF Next, vars, Look, LoadLive, LoadEstimate, Put, DeleteAgain, Cut,
                Search, Order, Expire
  <2>2. QED
    BY <1>2, <1>3, <1>4, <1>6, <1>7, <2>1
<1>9. QED
  BY <1>1, <1>8

\* Hence eZee goes on having sold no bed twice.
LEMMA NoBedIsSoldTwice ==
    ASSUME Inv, [Next]_vars
    PROVE  IsFiniteSet(InEzee') /\ NeverOversold'
<1>0. /\ TypeOK /\ TypeOK' /\ IsFiniteSet(InEzee) /\ InEzee \in SUBSET Bookings
      /\ \A k \in InEzee : RowStays(k)
  BY TypeIsKept, EzeeGrows DEF Inv, InEzee
<1>1. \A n \in Nat : Taken(InEzee, n) \in Nat /\ Taken(InEzee, n) <= Beds
  BY <1>0, TakenIsNat DEF Inv, NeverOversold
<1>2. PICK K : K = InEzee
  OBVIOUS
<1>3. CASE InEzee' = InEzee
  <2>1. ASSUME NEW n \in Nat
        PROVE  Taken(InEzee, n)' <= Beds
    <3>1. Taken(K, n)' = Taken(K, n)
      BY <1>0, <1>2, TakenStays
    <3>2. Taken(InEzee, n)' = Taken(K, n)'
      BY <1>2, <1>3 DEF Taken, Overlapping
    <3>3. QED
      BY <1>1, <1>2, <3>1, <3>2
  <2>2. QED
    BY <1>0, <1>3, <2>1 DEF NeverOversold
<1>4. ASSUME NEW b \in Bookings, b \notin InEzee, InEzee' = InEzee \cup {b},
             \A n \in booking'[b].range :
                Taken(InEzee, n) + Units(booking'[b].rooms) <= Beds
      PROVE  IsFiniteSet(InEzee') /\ NeverOversold'
  <2>1. ASSUME NEW n \in Nat
        PROVE  Taken(InEzee, n)' <= Beds
    <3>1. Taken(K \cup {b}, n)' =
            Taken(K, n) + IF n \in booking'[b].range
                          THEN Units(booking'[b].rooms) ELSE 0
      BY <1>0, <1>2, <1>4, TakenAdds
    <3>2. Taken(InEzee, n)' = Taken(K \cup {b}, n)'
      BY <1>2, <1>4 DEF Taken, Overlapping
    <3>3. CASE n \in booking'[b].range
      <4>1. Taken(K, n) + Units(booking'[b].rooms) <= Beds
        BY <1>2, <1>4, <3>3
      <4>2. QED
        BY <3>1, <3>2, <3>3, <4>1
    <3>4. CASE n \notin booking'[b].range
      <4>1. Taken(K, n) \in Nat /\ Taken(K, n) <= Beds
        BY <1>1, <1>2
      <4>2. QED
        BY <3>1, <3>2, <3>4, <4>1
    <3>5. QED
      BY <3>3, <3>4
  <2>2. IsFiniteSet(InEzee')
    BY <1>0, <1>4, FS_AddElement
  <2>3. QED
    BY <2>1, <2>2 DEF NeverOversold
<1>5. QED
  BY <1>3, <1>4, EzeeGrows
-----------------------------------------------------------------------------
(* Answers, cached and held.                                               *)

\* An answer of eZee stays below what the bookings it knows leave free.
LEMMA AnswersStay ==
    ASSUME Inv, [Next]_vars, NEW v \in Values, NEW r, Answers(v, r)
    PROVE  Answers(v, r)'
<1> SUFFICES ASSUME v.source = "live" PROVE Answers(v, r)'
  BY DEF Answers
<1>1. /\ v.knows \in SUBSET InEzee /\ InEzee \in SUBSET Bookings
      /\ \A n \in r : v.free + Taken(v.knows, n) <= Beds
  BY DEF Answers, InEzee
<1>2. TypeOK /\ IsFiniteSet(v.knows) /\ \A k \in v.knows : RowStays(k)
  BY <1>1, EzeeGrows, FS_Subset DEF Inv
<1>3. InEzee \subseteq InEzee'
  BY EzeeGrows
<1>4. ASSUME NEW n \in r
      PROVE  Taken(v.knows, n)' = Taken(v.knows, n)
  BY <1>1, <1>2, TakenStays
<1>5. QED
  BY <1>1, <1>3, <1>4 DEF Answers

\* What is owed only grows, and what requests hold knows it.
LEMMA OwedGrows ==
    ASSUME Inv, NEW r \in Ranges
    PROVE  /\ owed[r] \subseteq OwedFrom(r) /\ OwedFrom(r) \subseteq InEzee
           /\ \A c \in Calls :
                 /\ call[c].range = r /\ call[c].step = "put"
                 /\ call[c].value.source = "live"
                 => OwedFrom(r) \subseteq call[c].value.knows
BY DEF Inv, SoundCache, SoundCall, OwedFrom, InFlight

\* What a step does to a key: nothing, a deletion, or a request puts there
\* what it holds.
LEMMA KeySteps ==
    ASSUME Inv, [Next]_vars, NEW r \in Ranges
    PROVE  \/ cache'[r] = cache[r] /\ owed'[r] = owed[r]
           \/ cache'[r] = Nothing /\ owed'[r] \in {owed[r], OwedFrom(r)}
           \/ /\ owed'[r] = owed[r]
              /\ \E c \in Calls : /\ call[c].step = "put" /\ call[c].range = r
                                  /\ cache'[r] = call[c].value
<1> DEFINE Kept == cache'[r] = cache[r] /\ owed'[r] = owed[r]
           Deleted == cache'[r] = Nothing /\ owed'[r] \in {owed[r], OwedFrom(r)}
<1>0. cache \in [Ranges -> Values] /\ owed \in [Ranges -> SUBSET Bookings]
  BY DEF Inv, TypeOK
<1>1. CASE UNCHANGED <<cache, owed>>
  BY <1>1
<1>2. ASSUME NEW s, Delete(s) PROVE Kept \/ Deleted
  <2>1. CASE s = r
    BY <1>0, <1>2, <2>1 DEF Delete
  <2>2. CASE s # r
    <3>1. PICK bs : owed' = [owed EXCEPT ![s] = bs]
      BY <1>2 DEF Delete
    <3>2. QED
      BY <1>0, <1>2, <2>2, <3>1 DEF Delete
  <2>3. QED
    BY <2>1, <2>2
<1>3. ASSUME NEW c \in Calls, Put(c)
      PROVE  Kept \/ /\ owed'[r] = owed[r]
                     /\ call[c].step = "put" /\ call[c].range = r
                     /\ cache'[r] = call[c].value
  BY <1>0, <1>3 DEF Put
<1>4. ASSUME NEW s \in Ranges, Expire(s) PROVE Kept \/ Deleted
  BY <1>0, <1>4 DEF Expire
<1>5. CASE ~UNCHANGED <<cache, owed>>
  <2>1. \/ \E s : Delete(s)
        \/ \E c \in Calls : Put(c)
        \/ \E s \in Ranges : Expire(s)
    BY <1>5 DEF Next, vars, Look, LoadLive, LoadEstimate, DeleteAgain, Cut, Search,
                Order, Create, Insert, Refuse, Forget, SellElsewhere, DeleteFails
  <2>2. QED
    BY <1>2, <1>3, <1>4, <2>1
<1>6. QED
  BY <1>1, <1>5

LEMMA CachesStaySound ==
    ASSUME Inv, [Next]_vars, NEW r \in Ranges
    PROVE  SoundCache(r)'
<1>0. /\ SoundCache(r) /\ InEzee \subseteq InEzee'
      /\ owed[r] \subseteq OwedFrom(r) /\ OwedFrom(r) \subseteq InEzee
      /\ cache[r] \in Values
  BY EzeeGrows, OwedGrows DEF Inv, TypeOK
<1>1. owed[r] \subseteq InEzee
  BY <1>0 DEF SoundCache
<1>2. CASE cache'[r] = cache[r] /\ owed'[r] = owed[r]
  <2>1. PICK v \in Values : v = cache[r]
    BY <1>0
  <2>2. Answers(v, r)'
    BY <1>0, <2>1, AnswersStay DEF SoundCache
  <2>3. QED
    BY <1>0, <1>1, <1>2, <2>1, <2>2 DEF SoundCache
<1>3. CASE cache'[r] = Nothing /\ owed'[r] \in {owed[r], OwedFrom(r)}
  BY <1>0, <1>1, <1>3 DEF SoundCache, Answers, Nothing
<1>4. ASSUME NEW c \in Calls, owed'[r] = owed[r],
             call[c].step = "put", call[c].range = r, cache'[r] = call[c].value
      PROVE  SoundCache(r)'
  <2>1. SoundCall(c) /\ call[c].value \in Values
    BY DEF Inv, TypeOK
  <2>2. PICK v \in Values : v = call[c].value
    BY <2>1
  <2>3. /\ Answers(v, r) /\ v.source \in Sources
        /\ v.source = "live" => owed[r] \subseteq v.knows
    BY <1>4, <2>1, <2>2 DEF SoundCall
  <2>4. Answers(v, r)'
    BY <2>3, AnswersStay
  <2>5. QED
    BY <1>0, <1>1, <1>4, <2>2, <2>3, <2>4 DEF SoundCache
<1>5. QED
  BY <1>2, <1>3, <1>4, KeySteps

\* A request that a step leaves alone stays sound, though more may be owed:
\* but while a key is deleted only what an unfinished answer knows is owed.
LEMMA OthersStaySound ==
    ASSUME Inv, [Next]_vars, NEW c \in Calls, call'[c] = call[c]
    PROVE  SoundCall(c)'
<1> DEFINE r == call[c].range
<1>0. SoundCall(c) /\ call[c].value \in Values
  BY DEF Inv, TypeOK
<1>1. CASE call[c].step = "none" \/ call[c].step = "delete"
  BY <1>0, <1>1 DEF SoundCall
<1>2. CASE call[c].step # "none"
  <2>1. r \in Ranges
    BY <1>0, <1>2 DEF SoundCall
  <2>2. owed[r] \subseteq owed'[r] /\ owed'[r] \in {owed[r], OwedFrom(r)}
    BY <2>1, KeySteps, OwedGrows
  <2>3. call[c].step = "put" /\ call[c].value.source = "live" =>
           owed'[r] \subseteq call[c].value.knows
    BY <1>0, <2>1, <2>2, OwedGrows DEF SoundCall
  <2>4. call[c].step \in {"look", "load", "put"} => call[c].owed \subseteq owed'[r]
    BY <1>0, <2>2 DEF SoundCall
  <2>5. PICK v \in Values : v = call[c].value
    BY <1>0
  <2>6. PICK s : s = r
    OBVIOUS
  <2>7. call[c].step \in {"put", "check"} => Answers(v, s)'
    BY <1>0, <2>5, <2>6, AnswersStay DEF SoundCall
  <2> HIDE DEF r
  <2>8. QED
    BY <1>0, <2>1, <2>3, <2>4, <2>5, <2>6, <2>7 DEF SoundCall, r
<1>3. QED
  BY <1>1, <1>2

\* A request that has been given a value, old or new, may rely on it.
LEMMA GivenIsSound ==
    ASSUME Inv, [Next]_vars, NEW c \in Calls, call[c].range \in Ranges,
           NEW v \in Values, NEW step \in {"put", "check"},
           call[c].step \in {"look", "load", "put"},
           call'[c] = [call[c] EXCEPT !.step = step, !.value = v],
           owed' = owed, v.source \in Sources, Answers(v, call[c].range),
           v.source = "live" => owed[call[c].range] \subseteq v.knows
    PROVE  SoundCall(c)'
<1>0. SoundCall(c) /\ call[c] \in Requests
  BY TypeIs DEF Inv
<1>1. PICK r \in Ranges : r = call[c].range
  OBVIOUS
<1>2. Answers(v, r)'
  BY <1>1, AnswersStay
<1>3. /\ call'[c].step = step /\ call'[c].value = v /\ call'[c].range = r
      /\ call'[c].owed = call[c].owed
  BY <1>0, <1>1 DEF Requests
<1>4. call[c].owed \subseteq owed[r]
  BY <1>0, <1>1 DEF SoundCall
<1>5. QED
  BY <1>1, <1>2, <1>3, <1>4 DEF SoundCall

LEMMA CallsStaySound ==
    ASSUME Inv, [Next]_vars, NEW c \in Calls
    PROVE  SoundCall(c)'
<1>0. /\ TypeOK /\ call \in [Calls -> Requests] /\ cache \in [Ranges -> Values]
      /\ SoundCall(c)
  BY TypeIs DEF Inv
<1>1. ASSUME call'[c] = Idle PROVE SoundCall(c)'
  BY <1>1 DEF SoundCall, Idle
<1>2. ASSUME Look(c) PROVE SoundCall(c)'
  <2>1. PICK r \in Ranges : r = call[c].range /\ call[c].step = "look"
    BY <1>0, <1>2 DEF Look, SoundCall
  <2>2. PICK found \in {cache[r], Nothing} :
           call'[c] = [call[c] EXCEPT
                          !.step = IF found = Nothing THEN "load" ELSE "check",
                          !.value = found]
    BY <1>0, <1>2, <2>1 DEF Look
  <2>3. SoundCache(r) /\ cache[r] \in Values /\ owed' = owed
    BY <1>0, <1>2 DEF Look, Inv
  <2>4. CASE found = Nothing
    <3>1. call'[c] = [call[c] EXCEPT !.step = "load", !.value = found]
      BY <2>2, <2>4
    <3>2. /\ call'[c].step = "load" /\ call'[c].range = r
          /\ call'[c].owed = call[c].owed
      BY <1>0, <2>1, <3>1 DEF Requests
    <3>3. call[c].owed \subseteq owed[r]
      BY <1>0, <2>1 DEF SoundCall
    <3>4. QED
      BY <2>3, <3>2, <3>3 DEF SoundCall
  <2>5. CASE found # Nothing
    <3>1. /\ found \in Values /\ found.source \in Sources /\ Answers(found, r)
          /\ found.source = "live" => owed[r] \subseteq found.knows
      BY <2>2, <2>3, <2>5 DEF SoundCache
    <3>2. call'[c] = [call[c] EXCEPT !.step = "check", !.value = found]
      BY <2>2, <2>5
    <3>3. QED
      BY <2>1, <2>3, <3>1, <3>2, GivenIsSound
  <2>6. QED
    BY <2>4, <2>5
<1>3. ASSUME LoadLive(c) PROVE SoundCall(c)'
  <2>1. PICK r \in Ranges : r = call[c].range /\ call[c].step = "load"
    BY <1>0, <1>3 DEF LoadLive, SoundCall
  <2>2. PICK v : v = Live(r)
    OBVIOUS
  <2>3. call'[c] = [call[c] EXCEPT !.step = "put", !.value = v] /\ owed' = owed
    BY <1>0, <1>3, <2>1, <2>2 DEF LoadLive
  <2>4. v \in Values /\ Answers(v, r)
    BY <2>2, LiveIsValue
  <2>5. v.source = "live" /\ v.knows = InEzee
    BY <2>2 DEF Live
  <2>6. v.source \in Sources /\ owed[r] \subseteq v.knows
    BY <2>5 DEF Inv, SoundCache, Sources
  <2>7. QED
    BY <2>1, <2>3, <2>4, <2>6, GivenIsSound
<1>4. ASSUME LoadEstimate(c) PROVE SoundCall(c)'
  <2>1. PICK r \in Ranges : r = call[c].range /\ call[c].step = "load"
    BY <1>0, <1>4 DEF LoadEstimate, SoundCall
  <2>2. PICK v \in Values :
            /\ v.source = "estimate"
            /\ call'[c] = [call[c] EXCEPT !.step = "put", !.value = v]
    BY <1>0, <1>4, <2>1, EstimateIsValue DEF LoadEstimate
  <2>3. v.source \in Sources /\ v.source # "live" /\ Answers(v, r)
    BY <2>2 DEF Sources, Answers
  <2>4. owed' = owed
    BY <1>4 DEF LoadEstimate
  <2>5. QED
    BY <2>1, <2>2, <2>3, <2>4, GivenIsSound
<1>5. ASSUME Put(c), call'[c] # Idle PROVE SoundCall(c)'
  <2>1. PICK r \in Ranges : r = call[c].range /\ call[c].step = "put"
    BY <1>0, <1>5 DEF Put, SoundCall
  <2>2. PICK v \in Values : v = call[c].value
    BY <1>0 DEF Requests
  <2>3. call'[c] = [call[c] EXCEPT !.step = "check", !.value = v] /\ owed' = owed
    <3>1. call'[c] = [call[c] EXCEPT !.step = "check"]
      BY <1>0, <1>5 DEF Put
    <3>2. [call[c] EXCEPT !.step = "check"] =
          [call[c] EXCEPT !.step = "check", !.value = v]
      BY <1>0, <2>2 DEF Requests
    <3>3. QED
      BY <1>5, <3>1, <3>2 DEF Put
  <2>4. /\ v.source \in Sources /\ Answers(v, r)
        /\ v.source = "live" => owed[r] \subseteq v.knows
    BY <1>0, <2>1, <2>2 DEF SoundCall
  <2>5. QED
    BY <2>1, <2>3, <2>4, GivenIsSound
<1>6. ASSUME NEW r \in Ranges, Search(c, r) PROVE SoundCall(c)'
  BY <1>0, <1>6 DEF Search, Idle, SoundCall
<1>7. ASSUME NEW r \in Ranges, Order(c, r) PROVE SoundCall(c)'
  <2>1. PICK bs : LooksNext(c, r, bs) /\ bs \subseteq owed'[r]
    BY <1>7, TypeIs DEF Order, Delete, Inv
  <2>2. /\ call'[c].step = "look" /\ call'[c].range = r /\ call'[c].owed = bs
    BY <1>0, <2>1 DEF LooksNext, Idle
  <2>3. QED
    BY <2>1, <2>2 DEF SoundCall
<1>8. ASSUME NEW b \in Bookings, NEW s \in Selections, Create(c, b, s)
      PROVE  SoundCall(c)'
  <2>1. call'[c].step = "delete" /\ call'[c].range = call[c].range
    BY <1>0, <1>8 DEF Create, Requests
  <2>2. call[c].range \in Ranges
    BY <1>0, <1>8 DEF Create, SoundCall
  <2>3. QED
    BY <2>1, <2>2 DEF SoundCall
<1>9. CASE call'[c] # call[c] /\ call'[c] # Idle
  <2>1. \/ Look(c) \/ LoadLive(c) \/ LoadEstimate(c) \/ Put(c)
        \/ \E r \in Ranges : Search(c, r) \/ Order(c, r)
        \/ \E b \in Bookings, s \in Selections : Create(c, b, s)
    BY <1>0, <1>9 DEF Next, vars, Look, LoadLive, LoadEstimate, Put, DeleteAgain,
       Cut, Search, Order, LooksNext, Create, Expire, Insert, Refuse, Forget,
       SellElsewhere
  <2>2. QED
    BY <1>2, <1>3, <1>4, <1>5, <1>6, <1>7, <1>8, <1>9, <2>1
<1>10. QED
  BY <1>1, <1>9, OthersStaySound
-----------------------------------------------------------------------------
(* Orders.                                                                 *)

\* A selection that passed the check fits beside what was known of.
LEMMA ValidatedFits ==
    ASSUME Inv, NEW s \in Selections, Len(s) = 1, NEW r \in Ranges,
           NEW v \in Values, v.source = "live", Answers(v, r),
           validateRoomSelections(s, v), NEW n \in r
    PROVE  Units(s) + Taken(v.knows, n) <= Beds
<1>1. s \in Seq(Nat)
  BY SelectionsAssumption
<1>2. Units(s) = s[1] /\ 1 \in DOMAIN s
  BY <1>1, UnitsOfOne
<1>3. s[1] <= v.free /\ s[1] \in Nat
  BY <1>1, <1>2, RoomsAreNat DEF validateRoomSelections
<1>4. v.knows \in SUBSET InEzee /\ InEzee \in SUBSET Bookings /\ v.free \in Nat
  BY DEF Answers, InEzee, Values
<1>5. Taken(v.knows, n) \in Nat
  BY <1>4, FS_Subset, TakenIsNat DEF Inv
<1>6. v.free + Taken(v.knows, n) <= Beds
  BY DEF Answers
<1>7. QED
  BY <1>2, <1>3, <1>4, <1>5, <1>6, BedsAssumption

LEMMA OrdersStaySound ==
    ASSUME Inv, [Next]_vars, NEW b \in Bookings
    PROVE  SoundOrder(b)'
<1>0. /\ TypeOK /\ booking \in [Bookings -> Rows] /\ booking' \in [Bookings -> Rows]
      /\ SoundOrder(b) /\ InEzee \subseteq InEzee'
      /\ InEzee \in SUBSET Bookings /\ IsFiniteSet(InEzee)
  BY TypeIsKept, TypeIs, NextTypeIs, EzeeGrows DEF Inv, InEzee
<1>1. ASSUME NEW K \in SUBSET InEzee, NEW n
      PROVE  Taken(K, n)' = Taken(K, n)
  <2>1. K \in SUBSET Bookings /\ IsFiniteSet(K) /\ \A k \in K : RowStays(k)
    BY <1>0, EzeeGrows, FS_Subset
  <2>2. QED
    BY <1>0, <2>1, TakenStays
<1>2. CASE booking'[b] = booking[b]
  <2>1. SUFFICES ASSUME booking[b].stage = "ordered", booking[b].checked.source = "live"
                 PROVE  SoundOrder(b)'
    BY <1>0, <1>2 DEF SoundOrder
  <2>2. PICK K : K = booking[b].checked.knows
    OBVIOUS
  <2>3. K \in SUBSET InEzee
    BY <1>0, <2>1, <2>2 DEF SoundOrder
  <2>4. \A n : Taken(K, n)' = Taken(K, n)
    BY <1>1, <2>3
  <2>5. Len(booking[b].rooms) = 1 =>
          \A n \in booking[b].range : Units(booking[b].rooms) + Taken(K, n)' <= Beds
    BY <1>0, <2>1, <2>2, <2>4 DEF SoundOrder
  <2>6. K \subseteq InEzee' /\ K = booking'[b].checked.knows
    BY <1>0, <1>2, <2>2, <2>3
  <2>7. QED
    BY <1>0, <1>2, <2>1, <2>5, <2>6 DEF SoundOrder
<1>3. ASSUME NEW c \in Calls, NEW s \in Selections, Create(c, b, s)
      PROVE  SoundOrder(b)'
  <2>1. /\ call[c].step = "check" /\ SoundCall(c) /\ call[c].value \in Values
        /\ validateRoomSelections(s, call[c].value)
    BY <1>3 DEF Create, Inv, TypeOK
  <2>2. PICK r \in Ranges : r = call[c].range
    BY <2>1 DEF SoundCall
  <2>3. PICK v \in Values : v = call[c].value
    BY <2>1
  <2>4. v.source \in Sources /\ Answers(v, r) /\ validateRoomSelections(s, v)
    BY <2>1, <2>2, <2>3 DEF SoundCall
  <2>5. /\ booking'[b].range = r /\ booking'[b].rooms = s
        /\ booking'[b].checked.source = v.source
        /\ booking'[b].checked.knows = v.knows
    BY <1>0, <1>3, <2>2, <2>3 DEF Create, Values
  <2>6. CASE v.source # "live"
    BY <2>2, <2>4, <2>5, <2>6 DEF SoundOrder
  <2>7. CASE v.source = "live"
    <3>1. v.knows \in SUBSET InEzee
      BY <2>4, <2>7 DEF Answers
    <3>2. Len(s) = 1 => \A n \in r : Units(s) + Taken(v.knows, n) <= Beds
      BY <2>4, <2>7, ValidatedFits
    <3>3. \A n : Taken(v.knows, n)' = Taken(v.knows, n)
      BY <1>1, <3>1
    <3>4. QED
      BY <1>0, <2>4, <2>5, <3>1, <3>2, <3>3 DEF SoundOrder
  <2>8. QED
    BY <2>6, <2>7
<1>4. CASE booking'[b] # booking[b] /\ booking'[b].stage = "ordered"
  <2>1. \/ \E c \in Calls, k \in Bookings, s \in Selections : Create(c, k, s)
        \/ \E k \in Bookings : Insert(k) \/ Refuse(k) \/ Forget(k)
        \/ \E k \in Bookings, r \in Stays, s \in Selections : SellElsewhere(k, r, s)
    BY <1>4 DEF Next, vars, Look, LoadLive, LoadEstimate, Put, DeleteAgain, Cut,
                Search, Order, Expire
  <2>2. \E c \in Calls, s \in Selections : Create(c, b, s)
    <3>1. ASSUME NEW k \in Bookings, Insert(k) \/ Refuse(k) \/ Forget(k)
          PROVE  FALSE
      <4>1. CASE k = b
        BY <1>0, <1>4, <3>1, <4>1 DEF Insert, Refuse, Forget, Absent, Rows
      <4>2. CASE k # b
        BY <1>0, <1>4, <3>1, <4>2 DEF Insert, Refuse, Forget
      <4>3. QED
        BY <4>1, <4>2
    <3>2. ASSUME NEW k \in Bookings, NEW r \in Stays, NEW s \in Selections,
                 SellElsewhere(k, r, s)
          PROVE  FALSE
      BY <1>0, <1>4, <3>2 DEF SellElsewhere, Absent
    <3>3. ASSUME NEW c \in Calls, NEW k \in Bookings, NEW s \in Selections,
                 Create(c, k, s)
          PROVE  k = b
      BY <1>0, <1>4, <3>3 DEF Create
    <3>4. QED
      BY <2>1, <3>1, <3>2, <3>3
  <2>3. QED
    BY <1>3, <2>2
<1>5. QED
  BY <1>2, <1>4 DEF SoundOrder
-----------------------------------------------------------------------------
(* Theorems.                                                               *)

LEMMA InitIsSound == Init => Inv
<1> SUFFICES ASSUME Init PROVE Inv
  OBVIOUS
<1>1. TypeOK
  BY KindsOfNothing DEF Init, TypeOK, Idle, Absent
<1>2. InEzee = {}
  BY DEF Init, InEzee, Absent
<1>3. NeverOversold
  <2>1. ASSUME NEW n \in Nat PROVE Taken(InEzee, n) <= Beds
    <3>1. Taken(InEzee, n) = Total(Need, {})
      BY <1>2, FS_EmptySet, UnitsOfIsTotal DEF Taken, Overlapping
    <3>2. PICK g : Sums(Need, {}, g) /\ Total(Need, {}) = g[{}]
      BY FS_EmptySet, SumsExist DEF Total
    <3>3. g[{}] = 0
      BY <3>2 DEF Sums
    <3>4. QED
      BY <3>1, <3>2, <3>3, BedsAssumption
  <2>2. QED
    BY <2>1 DEF NeverOversold
<1>4. ASSUME NEW r \in Ranges PROVE SoundCache(r)
  BY DEF Init, SoundCache, Answers, Nothing
<1>5. ASSUME NEW c \in Calls PROVE SoundCall(c)
  BY DEF Init, SoundCall, Idle
<1>6. ASSUME NEW b \in Bookings PROVE SoundOrder(b)
  BY DEF Init, SoundOrder, Absent
<1>7. QED
  BY <1>1, <1>2, <1>3, <1>4, <1>5, <1>6, FS_EmptySet DEF Inv

THEOREM InvHolds == Spec => []Inv
<1>1. Inv /\ [Next]_vars => Inv'
  BY TypeIsKept, NoBedIsSoldTwice, CachesStaySound, CallsStaySound,
     OrdersStaySound DEF Inv
<1>2. QED
  BY <1>1, InitIsSound, PTL DEF Spec

\* Rows, cached values and requests are always of their kinds: no value ever
\* shows fewer than no beds, or more than the type has.
THEOREM TypeCorrect == Spec => []TypeOK
<1>1. Inv => TypeOK
  BY DEF Inv
<1>2. QED
  BY <1>1, InvHolds, PTL

\* No answer that is cached, or that an order is checked against, is older
\* than the oldest one held when the order or the worker deleted the key.
THEOREM NothingIsOlder == Spec => []NothingOlder
<1>1. Inv => NothingOlder
  BY DEF Inv, SoundCache, SoundCall, NothingOlder
<1>2. QED
  BY <1>1, InvHolds, PTL

\* eZee has the beds of an order of one selection that was checked against an
\* answer which knew all the bookings that share a night with it.
THEOREM ShortOnlyForAReason == Spec => []ShortForAReason
<1>1. ASSUME Inv PROVE ShortForAReason
  <2>1. SUFFICES ASSUME NEW b \in Bookings, booking[b].stage = "ordered",
                        booking[b].checked.source # "estimate",
                        ~(Len(booking[b].rooms) > 1),
                        Overlapping(InEzee, booking[b].range)
                           \subseteq booking[b].checked.knows
                 PROVE  Fits(b)
    BY DEF ShortForAReason
  <2>2. PICK K, r, s : /\ K = booking[b].checked.knows
                       /\ r = booking[b].range /\ s = booking[b].rooms
    OBVIOUS
  <2>3. r \in Ranges /\ s \in Selections /\ booking[b].checked.source = "live"
    BY <1>1, <2>1, <2>2 DEF Inv, SoundOrder, Sources
  <2>4. r \in Stays /\ s \in Seq(Nat) /\ s # <<>>
    BY <2>3, RangesAssumption, SelectionsAssumption
  <2>5. Len(s) = 1
    <3>1. Len(s) \in Nat /\ Len(s) # 0
      BY <2>4
    <3>2. ~(Len(s) > 1)
      BY <2>1, <2>2
    <3>3. \A n \in Nat : n # 0 /\ ~(n > 1) => n = 1
      OBVIOUS
    <3>4. QED
      BY <3>1, <3>2, <3>3
  <2>6. /\ K \in SUBSET InEzee
        /\ \A n \in r : Units(s) + Taken(K, n) <= Beds
    BY <1>1, <2>1, <2>2, <2>3, <2>5 DEF Inv, SoundOrder
  <2>7. ASSUME NEW n \in r PROVE Taken(InEzee, n) = Taken(K, n)
    <3>1. Overlapping(InEzee, {n}) = Overlapping(K, {n})
      BY <2>1, <2>2, <2>6 DEF Overlapping
    <3>2. QED
      BY <3>1 DEF Taken
  <2>8. TypeOK /\ IsFiniteSet(InEzee) /\ InEzee \in SUBSET Bookings
    BY <1>1 DEF Inv, InEzee
  <2>9. PICK n \in r : MinAvailable(r) = Beds - Taken(InEzee, n)
    BY <2>4, <2>8, MinAvailableIs
  <2>10. /\ Taken(InEzee, n) \in Nat /\ Units(s) \in Nat
         /\ Units(s) + Taken(InEzee, n) <= Beds
    BY <2>3, <2>6, <2>7, <2>8, TakenIsNat, UnitsAreNat
  <2>11. MinAvailable(r) >= Units(s)
    BY <2>9, <2>10, BedsAssumption
  <2>12. QED
    BY <2>2, <2>11 DEF Fits, parseBookingRooms
<1>2. QED
  BY <1>1, InvHolds, PTL
-----------------------------------------------------------------------------
(***************************************************************************)
(* The other caches: Caches.                                               *)
(***************************************************************************)
\* The rows and the keys of EditsAreForgotten.
Edited == {"product_catalog", "admin_users"}
Promises == PropertyKeys \cup {"jwt:admin"}

\* A value that is promised to go: an edit has come since it was cached.
Outdated(k) == k \in Promises /\ values[k].behind \cap Edited # {}

\* A change has on its list every promised key under which there can be a value
\* loaded from such a row that it has still to write.
Covered(tables, forget) ==
    \A v \in Views : \A t \in RangeOf(tables) \cap RangeOf(Reads(v)) :
        t \in Edited /\ KeyOf(v) \in Promises => KeyOf(v) \in UNION RangeOf(forget)

ValueKind == [view : Views, behind : SUBSET Tables, missed : BOOLEAN]
RequestKind == [op : Views \cup {"none", "change"}, todo : Seq(Tables),
                forget : Seq(SUBSET Keys), stale : BOOLEAN]

\* Only a change deletes keys, and it does not finish before it has.
SoundRequest(r) ==
    /\ r.op = "change" => Covered(r.todo, r.forget)
    /\ r.op # "change" => r.forget = <<>>

\* A value is under the key of the function that loaded it.
SoundValue(k) == values[k] # Empty => KeyOf(values[k].view) = k

\* The inductive invariant.
CacheInv ==
    /\ values \in [Keys -> {Empty} \cup ValueKind]
    /\ \A k \in Keys : SoundValue(k)
    /\ request \in [Callers -> RequestKind]
    /\ \A c \in Callers : SoundRequest(request[c])
    /\ EditsAreForgotten
-----------------------------------------------------------------------------
(* The keys and the tables of each function. *)

Goods == {"product_catalog", "inventory", "ezee_rooms", "room_types"}

LEMMA ViewsAre ==
    /\ Views = {"getCatalog", "getRoomCatalog", "getFreeServices", "getBorrowables",
                  "listProducts", "listAllProducts", "listStock", "listAllStock",
                  "validate"}
    /\ "none" \notin Views /\ "change" \notin Views
BY DEF Views, View

LEMMA RangesAre ==
    /\ \A a : RangeOf(<<a>>) = {a}
    /\ \A a, b : RangeOf(<<a, b>>) = {a, b}
    /\ RangeOf(<<>>) = {}
BY DEF RangeOf

LEMMA KeysAre ==
    ASSUME NEW v \in Views
    PROVE  /\ KeyOf(v) \in Keys
           /\ v = "validate" => /\ KeyOf(v) = "jwt:admin"
                                /\ RangeOf(Reads(v)) = {"admin_users"}
           /\ v # "validate" => /\ KeyOf(v) \in PropertyKeys \cup OwnerKeys
                                /\ RangeOf(Reads(v)) \subseteq Goods
<1>1. CASE v = "getCatalog"
  BY <1>1, RangesAre DEF KeyOf, Reads, View, getCatalog, Keys,
     PropertyKeys, OwnerKeys, Goods
<1>2. CASE v = "getRoomCatalog"
  BY <1>2, RangesAre DEF KeyOf, Reads, View, getRoomCatalog, Keys,
     PropertyKeys, OwnerKeys, Goods
<1>3. CASE v = "getFreeServices"
  BY <1>3, RangesAre DEF KeyOf, Reads, View, getFreeServices, Keys,
     PropertyKeys, OwnerKeys, Goods
<1>4. CASE v = "getBorrowables"
  BY <1>4, RangesAre DEF KeyOf, Reads, View, getBorrowables, Keys,
     PropertyKeys, OwnerKeys, Goods
<1>5. CASE v \in {"listProducts", "listAllProducts"}
  BY <1>5, RangesAre DEF KeyOf, Reads, View, listProducts, Keys,
     PropertyKeys, OwnerKeys, Goods
<1>6. CASE v \in {"listStock", "listAllStock"}
  BY <1>6, RangesAre DEF KeyOf, Reads, View, listStock, Keys,
     PropertyKeys, OwnerKeys, Goods
<1>7. CASE v = "validate"
  BY <1>7, RangesAre DEF KeyOf, Reads, View, validate, Keys
<1>8. QED
  BY <1>1, <1>2, <1>3, <1>4, <1>5, <1>6, <1>7, ViewsAre

LEMMA KeysOfGoods == PropertyKeys \cup OwnerKeys \subseteq Keys
BY DEF Keys

LEMMA TablesAre == Goods \cup {"admin_users"} \subseteq Tables
<1>1. /\ RangeOf(Reads("getCatalog")) = {"product_catalog", "inventory"}
      /\ RangeOf(Reads("getRoomCatalog")) = {"ezee_rooms", "room_types"}
      /\ RangeOf(Reads("validate")) = {"admin_users"}
  BY RangesAre DEF Reads, View, getCatalog, getRoomCatalog, validate
<1>2. QED
  BY <1>1, ViewsAre DEF Tables, Goods

\* What a sequence ranges over, and its tail.
LEMMA TailOf ==
    ASSUME NEW S, NEW s \in Seq(S)
    PROVE  /\ RangeOf(s) \subseteq S
           /\ s # <<>> => /\ Tail(s) \in Seq(S) /\ Head(s) \in S
                          /\ RangeOf(s) = {Head(s)} \cup RangeOf(Tail(s))
<1>1. RangeOf(s) \subseteq S
  BY DEF RangeOf
<1>2. ASSUME s # <<>>
      PROVE  /\ Tail(s) \in Seq(S) /\ Head(s) \in S
             /\ RangeOf(s) = {Head(s)} \cup RangeOf(Tail(s))
  <2>1. /\ Tail(s) \in Seq(S) /\ Head(s) \in S /\ Head(s) = s[1]
        /\ Len(s) \in Nat \ {0} /\ Len(Tail(s)) = Len(s) - 1
        /\ DOMAIN s = 1..Len(s) /\ DOMAIN Tail(s) = 1..(Len(s) - 1)
        /\ \A i \in 1..(Len(s) - 1) : Tail(s)[i] = s[i + 1]
    BY <1>2
  <2>2. RangeOf(s) \subseteq {Head(s)} \cup RangeOf(Tail(s))
    <3>1. ASSUME NEW i \in 1..Len(s), i # 1
          PROVE  i - 1 \in DOMAIN Tail(s) /\ Tail(s)[i - 1] = s[i]
      BY <2>1, <3>1
    <3>2. ASSUME NEW i \in DOMAIN s
          PROVE  s[i] = Head(s) \/ \E j \in DOMAIN Tail(s) : s[i] = Tail(s)[j]
      BY <2>1, <3>1
    <3>3. QED
      BY <3>2 DEF RangeOf
  <2>3. {Head(s)} \cup RangeOf(Tail(s)) \subseteq RangeOf(s)
    <3>1. ASSUME NEW i \in DOMAIN Tail(s)
          PROVE  i + 1 \in DOMAIN s /\ s[i + 1] = Tail(s)[i]
      BY <2>1, <3>1
    <3>2. 1 \in DOMAIN s
      BY <2>1
    <3>3. QED
      BY <2>1, <3>1, <3>2 DEF RangeOf
  <2>4. QED
    BY <2>1, <2>2, <2>3
<1>3. QED
  BY <1>1, <1>2

\* Lists of changes that cover what they write.
LEMMA GoodsAreCovered ==
    ASSUME NEW tables, RangeOf(tables) \subseteq Goods, NEW forget,
           PropertyKeys \subseteq UNION RangeOf(forget)
    PROVE  Covered(tables, forget)
<1>1. "admin_users" \notin Goods
  BY DEF Goods
<1>2. ASSUME NEW v \in Views, NEW t \in RangeOf(tables) \cap RangeOf(Reads(v)),
             KeyOf(v) \in Promises
      PROVE  KeyOf(v) \in UNION RangeOf(forget)
  <2>1. KeyOf(v) \in PropertyKeys \cup OwnerKeys
    BY <1>1, <1>2, KeysAre
  <2>2. KeyOf(v) \in PropertyKeys
    BY <1>2, <2>1 DEF Promises, PropertyKeys, OwnerKeys
  <2>3. QED
    BY <2>2
<1>3. QED
  BY <1>2 DEF Covered

\* Stock and rooms are no edits.
LEMMA NothingToCover ==
    ASSUME NEW tables, RangeOf(tables) \cap Edited = {}, NEW forget
    PROVE  Covered(tables, forget)
BY DEF Covered

LEMMA StaffAreCovered == Covered(<<"admin_users">>, <<{"jwt:admin"}>>)
<1>1. "admin_users" \notin Goods
  BY DEF Goods
<1>2. QED
  BY <1>1, KeysAre, RangesAre DEF Covered
-----------------------------------------------------------------------------
LEMMA IdleIs == /\ NoRequest \in RequestKind /\ SoundRequest(NoRequest)
                /\ NoRequest.op = "none" /\ NoRequest.forget = <<>>
                /\ RangeOf(NoRequest.forget) = {}
BY RangesAre DEF NoRequest, RequestKind, SoundRequest

\* A step of one request: what it no longer is to delete is not outdated.
LEMMA OneRequest ==
    ASSUME CacheInv, NEW c \in Callers, NEW r \in RequestKind, SoundRequest(r),
           request' = [request EXCEPT ![c] = r],
           values' \in [Keys -> {Empty} \cup ValueKind],
           \A k \in Keys :
              /\ SoundValue(k)'
              /\ Outdated(k)' =>
                    /\ Outdated(k)
                    /\ k \in UNION RangeOf(request[c].forget) =>
                          k \in UNION RangeOf(r.forget)
    PROVE  CacheInv'
<1>1. /\ request' \in [Callers -> RequestKind] /\ request'[c] = r
      /\ \A d \in Callers : d # c => request'[d] = request[d]
  BY DEF CacheInv
<1>2. \A d \in Callers : SoundRequest(request'[d])
  BY <1>1 DEF CacheInv
<1>3. ASSUME NEW k \in Keys, Outdated(k)'
      PROVE  \E d \in Callers : k \in UNION RangeOf(request'[d].forget)
  <2>1. PICK d \in Callers : k \in UNION RangeOf(request[d].forget)
    BY <1>3 DEF CacheInv, EditsAreForgotten, Outdated, Promises, Edited
  <2>2. QED
    BY <1>1, <1>3, <2>1
<1>4. EditsAreForgotten'
  BY <1>3, KeysOfGoods DEF EditsAreForgotten, Outdated, Promises, Edited, Keys
<1>5. QED
  BY <1>1, <1>2, <1>4 DEF CacheInv

\* One that leaves the values alone.
LEMMA OnlyRequest ==
    ASSUME CacheInv, NEW c \in Callers, NEW r \in RequestKind, SoundRequest(r),
           request' = [request EXCEPT ![c] = r], UNCHANGED values,
           RangeOf(request[c].forget) \subseteq RangeOf(r.forget)
    PROVE  CacheInv'
<1>1. \A k \in Keys : SoundValue(k)' /\ (Outdated(k)' => Outdated(k))
  BY DEF CacheInv, SoundValue, Outdated
<1>2. QED
  BY <1>1, OneRequest DEF CacheInv

\* An operation begins.
LEMMA BeginKeeps ==
    ASSUME CacheInv, NEW c \in Callers, NEW tables \in Seq(Tables),
           NEW forget \in Seq(SUBSET Keys),
           Covered(tables, forget), Begin(c, tables, forget)
    PROVE  CacheInv'
<1>1. PICK r : r = [NoRequest EXCEPT !.op = "change", !.todo = tables,
                                  !.forget = forget]
  OBVIOUS
<1>2. /\ r \in RequestKind /\ r.op = "change" /\ r.todo = tables
      /\ r.forget = forget
  BY <1>1, IdleIs DEF RequestKind
<1>3. SoundRequest(r)
  BY <1>2 DEF SoundRequest
<1>4. /\ request' = [request EXCEPT ![c] = r] /\ UNCHANGED values
      /\ RangeOf(request[c].forget) \subseteq RangeOf(r.forget)
  BY <1>1, IdleIs DEF Begin
<1>5. QED
  BY <1>2, <1>3, <1>4, OnlyRequest

\* The lists that the operations begin with.
Changes(c) ==
    \/ CreateProduct(c) \/ UpdateProduct(c) \/ DeleteProduct(c)
    \/ Restock(c) \/ MarkDamaged(c) \/ UpdateStock(c)
    \/ IssueBorrowable(c) \/ ReturnBorrowable(c)
    \/ IssueReturnable(c) \/ ReturnReturnable(c)
    \/ Borrow(c) \/ FulfilOrder(c) \/ FulfilBooking(c)
    \/ CreateBookingOrder(c) \/ RollbackBooking(c)
    \/ RoomsChange(c) \/ FlushRoomCache(c)
    \/ Deactivate(c) \/ RemoveAdmin(c)

LEMMA ChangesKeep ==
    ASSUME CacheInv, NEW c \in Callers, Changes(c)
    PROVE  CacheInv'
<1>0. /\ \A a \in Tables : <<a>> \in Seq(Tables)
      /\ \A a, b \in Tables : <<a, b>> \in Seq(Tables)
      /\ <<>> \in Seq(Tables) /\ <<>> \in Seq(SUBSET Keys)
      /\ OwnerKeys \in SUBSET Keys /\ Keys \in SUBSET Keys /\ {} \in SUBSET Keys
  BY KeysOfGoods
<1>1. /\ <<PropertyKeys>> \in Seq(SUBSET Keys)
      /\ <<PropertyKeys, OwnerKeys>> \in Seq(SUBSET Keys)
      /\ <<{"jwt:admin"}>> \in Seq(SUBSET Keys)
      /\ <<{"catalog"}>> \in Seq(SUBSET Keys)
  <2>1. /\ PropertyKeys \in SUBSET Keys /\ OwnerKeys \in SUBSET Keys
        /\ {"jwt:admin"} \in SUBSET Keys /\ {"catalog"} \in SUBSET Keys
    BY DEF Keys, PropertyKeys
  <2>2. QED
    BY <2>1
<1>2. ASSUME NEW tables \in Seq(Tables), RangeOf(tables) \subseteq Goods,
             Begin(c, tables, Everywhere) \/ Begin(c, tables, PropertyOnly)
      PROVE  CacheInv'
  <2>1. Covered(tables, Everywhere)
    <3>1. UNION RangeOf(Everywhere) = PropertyKeys \cup OwnerKeys
      BY RangesAre DEF Everywhere
    <3>2. QED
      BY <1>2, <3>1, GoodsAreCovered
  <2>2. Covered(tables, PropertyOnly)
    <3>1. UNION RangeOf(PropertyOnly) = PropertyKeys
      BY RangesAre DEF PropertyOnly
    <3>2. QED
      BY <1>2, <3>1, GoodsAreCovered
  <2>3. Everywhere \in Seq(SUBSET Keys) /\ PropertyOnly \in Seq(SUBSET Keys)
    BY <1>1 DEF Everywhere, PropertyOnly
  <2>4. QED
    BY <1>2, <2>1, <2>2, <2>3, BeginKeeps
<1>3. ASSUME NEW t \in {"inventory", "ezee_rooms", "room_types"}, Begin(c, <<t>>, <<>>)
      PROVE  CacheInv'
  <2>1. t \in Tables /\ RangeOf(<<t>>) \cap Edited = {}
    BY TablesAre, RangesAre DEF Goods, Edited
  <2>2. <<t>> \in Seq(Tables) /\ Covered(<<t>>, <<>>)
    BY <1>0, <2>1, NothingToCover
  <2>3. QED
    BY <1>0, <1>3, <2>2, BeginKeeps
<1>4. /\ \A a \in Goods : <<a>> \in Seq(Tables) /\ RangeOf(<<a>>) \subseteq Goods
      /\ \A a, b \in Goods : /\ <<a, b>> \in Seq(Tables)
                             /\ RangeOf(<<a, b>>) \subseteq Goods
      /\ <<"admin_users">> \in Seq(Tables)
  BY <1>0, TablesAre, RangesAre
<1>5. CASE CreateProduct(c) \/ UpdateProduct(c) \/ DeleteProduct(c)
  BY <1>2, <1>4, <1>5 DEF CreateProduct, UpdateProduct, DeleteProduct, Goods
<1>6. CASE \/ Restock(c) \/ MarkDamaged(c) \/ UpdateStock(c)
           \/ IssueBorrowable(c) \/ ReturnBorrowable(c)
  BY <1>2, <1>4, <1>6 DEF Restock, MarkDamaged, UpdateStock,
     IssueBorrowable, ReturnBorrowable, Goods
<1>7. CASE \/ IssueReturnable(c) \/ ReturnReturnable(c)
           \/ Borrow(c) \/ FulfilOrder(c) \/ FulfilBooking(c)
  BY <1>2, <1>4, <1>7 DEF IssueReturnable, ReturnReturnable, Borrow,
     FulfilOrder, FulfilBooking, Goods
<1>8. CASE CreateBookingOrder(c) \/ RollbackBooking(c) \/ RoomsChange(c)
  BY <1>3, <1>8 DEF CreateBookingOrder, RollbackBooking, RoomsChange
<1>9. CASE FlushRoomCache(c)
  <2>1. Covered(<<>>, <<{"catalog"}>>)
    BY RangesAre DEF Covered
  <2>2. QED
    BY <1>0, <1>1, <1>9, <2>1, BeginKeeps DEF FlushRoomCache
<1>10. CASE Deactivate(c) \/ RemoveAdmin(c)
  BY <1>0, <1>1, <1>4, <1>10, StaffAreCovered, BeginKeeps DEF Deactivate, RemoveAdmin
<1>11. QED
  BY <1>5, <1>6, <1>7, <1>9, <1>10, <1>8 DEF Changes
-----------------------------------------------------------------------------
(* Loads. *)

LEMMA ReadsAre ==
    \A v \in Views : Reads(v) \in Seq(Tables)
<1>1. ASSUME NEW v \in Views PROVE \E a, b : Reads(v) = <<a>> \/ Reads(v) = <<a, b>>
  BY <1>1, ViewsAre DEF Reads, View, getCatalog, getRoomCatalog,
     getFreeServices, getBorrowables, listProducts, listStock, validate
<1>2. \A v \in Views : RangeOf(Reads(v)) \subseteq Tables
  BY KeysAre, TablesAre
<1>3. ASSUME NEW v \in Views PROVE Reads(v) \in Seq(Tables)
  <2>1. PICK a, b : Reads(v) = <<a>> \/ Reads(v) = <<a, b>>
    BY <1>1
  <2>2. CASE Reads(v) = <<a>>
    <3>1. a \in Tables
      BY <1>2, <2>2, RangesAre
    <3>2. QED
      BY <2>2, <3>1
  <2>3. CASE Reads(v) = <<a, b>>
    <3>1. a \in Tables /\ b \in Tables
      BY <1>2, <2>3, RangesAre
    <3>2. QED
      BY <2>3, <3>1
  <2>4. QED
    BY <2>1, <2>2, <2>3
<1>4. QED
  BY <1>3

LEMMA LoadsKeep ==
    ASSUME CacheInv, NEW c \in Callers,
           \/ \E v \in Views : Miss(c, v)
           \/ Load(c)
           \/ Store(c)
    PROVE  CacheInv'
<1>0. /\ request[c] \in RequestKind /\ SoundRequest(request[c])
      /\ values \in [Keys -> {Empty} \cup ValueKind]
      /\ \A k \in Keys : SoundValue(k)
  BY DEF CacheInv
<1>1. ASSUME NEW v \in Views, Miss(c, v) PROVE CacheInv'
  <2>1. PICK r : r = [NoRequest EXCEPT !.op = v, !.todo = Reads(v)]
    OBVIOUS
  <2>2. r \in RequestKind /\ r.op = v /\ r.forget = <<>>
    BY <2>1, IdleIs, ReadsAre DEF RequestKind
  <2>3. SoundRequest(r)
    BY <2>2, ViewsAre DEF SoundRequest
  <2>4. /\ request' = [request EXCEPT ![c] = r] /\ UNCHANGED values
        /\ RangeOf(request[c].forget) \subseteq RangeOf(r.forget)
    BY <1>1, <2>1, IdleIs DEF Miss
  <2>5. QED
    BY <2>2, <2>3, <2>4, OnlyRequest
<1>2. CASE Load(c)
  <2>1. PICK r : r = [request[c] EXCEPT !.todo = Tail(@)]
    OBVIOUS
  <2>2. Tail(request[c].todo) \in Seq(Tables)
    BY <1>0, <1>2, TailOf DEF Load, RequestKind
  <2>3. r \in RequestKind /\ r.op = request[c].op /\ r.forget = request[c].forget
    BY <1>0, <2>1, <2>2 DEF RequestKind
  <2>4. SoundRequest(r)
    BY <1>0, <1>2, <2>3, ViewsAre DEF SoundRequest, Load
  <2>5. request' = [request EXCEPT ![c] = r] /\ UNCHANGED values
    BY <1>2, <2>1 DEF Load
  <2>6. QED
    BY <2>3, <2>4, <2>5, OnlyRequest
<1>3. CASE Store(c)
  <2>1. PICK v, value : /\ v = request[c].op
                        /\ value = [view |-> v,
                                    behind |-> {}, missed |-> request[c].stale]
    OBVIOUS
  <2>2. /\ v \in Views /\ values' = [values EXCEPT ![KeyOf(v)] = value]
        /\ request' = [request EXCEPT ![c] = NoRequest]
    BY <1>3, <2>1 DEF Store
  <2>3. value \in ValueKind /\ value.behind = {} /\ value.view = v
    BY <1>0, <2>1, <2>2 DEF ValueKind, RequestKind
  <2>4. values' \in [Keys -> {Empty} \cup ValueKind]
    BY <1>0, <2>2, <2>3, KeysAre
  <2>5. RangeOf(request[c].forget) = {}
    BY <1>0, <2>1, <2>2, ViewsAre, RangesAre DEF SoundRequest
  <2>6. \A k \in Keys : values'[k] = IF k = KeyOf(v) THEN value ELSE values[k]
    BY <1>0, <2>2
  <2>7. \A k \in Keys :
           /\ SoundValue(k)'
           /\ Outdated(k)' =>
                 /\ Outdated(k)
                 /\ k \in UNION RangeOf(request[c].forget) =>
                       k \in UNION RangeOf(NoRequest.forget)
    BY <1>0, <2>3, <2>5, <2>6 DEF SoundValue, Outdated
  <2>8. QED
    BY <2>2, <2>4, <2>7, IdleIs, OneRequest
<1>4. QED
  BY <1>1, <1>2, <1>3

LEMMA ExpiryKeeps ==
    ASSUME CacheInv, NEW e \in Keys, Lapse(e)
    PROVE  CacheInv'
<1>1. /\ values \in [Keys -> {Empty} \cup ValueKind]
      /\ values' = [values EXCEPT ![e] = Empty] /\ request' = request
  BY DEF CacheInv, Lapse
<1>2. values' \in [Keys -> {Empty} \cup ValueKind]
  BY <1>1
<1>3. \A k \in Keys : SoundValue(k)'
  BY <1>1 DEF CacheInv, SoundValue
<1>4. Empty.behind = {}
  BY DEF Empty
<1>5. EditsAreForgotten'
  BY <1>1, <1>4 DEF CacheInv, EditsAreForgotten
<1>6. QED
  BY <1>1, <1>2, <1>3, <1>5 DEF CacheInv
-----------------------------------------------------------------------------
(* Changes and deletions. *)

\* What is left to do when the next deletion of c is over.
LEMMA NextDeletion ==
    ASSUME CacheInv, NEW c \in Callers, request[c].todo = <<>>,
           request[c].forget # <<>>
    PROVE  \E r \in RequestKind :
              /\ r = OrDone([request[c] EXCEPT !.forget = Tail(@)])
              /\ SoundRequest(r)
              /\ RangeOf(request[c].forget)
                    = {Head(request[c].forget)} \cup RangeOf(r.forget)
<1>0. request[c] \in RequestKind /\ SoundRequest(request[c])
  BY DEF CacheInv
<1>1. PICK q : q = [request[c] EXCEPT !.forget = Tail(@)]
  OBVIOUS
<1>2. /\ Tail(request[c].forget) \in Seq(SUBSET Keys)
      /\ RangeOf(request[c].forget)
            = {Head(request[c].forget)} \cup RangeOf(Tail(request[c].forget))
  BY <1>0, TailOf DEF RequestKind
<1>3. /\ q \in RequestKind /\ q.op = request[c].op /\ q.todo = <<>>
      /\ q.forget = Tail(request[c].forget)
  BY <1>0, <1>1, <1>2 DEF RequestKind
<1>4. request[c].op = "change"
  BY <1>0 DEF SoundRequest
<1>5. SoundRequest(q)
  BY <1>3, <1>4, RangesAre DEF SoundRequest, Covered
<1>6. PICK r : r = OrDone(q)
  OBVIOUS
<1>7. r = q \/ (r = NoRequest /\ q.forget = <<>>)
  BY <1>6 DEF OrDone
<1>8. r \in RequestKind /\ SoundRequest(r) /\ RangeOf(r.forget) = RangeOf(q.forget)
  BY <1>3, <1>5, <1>7, IdleIs
<1>9. QED
  BY <1>1, <1>2, <1>3, <1>6, <1>8

\* Some keys are deleted, or stay although they should have been.
KeysGo(gone) ==
    \/ values' = [k \in Keys |-> IF k \in gone THEN Empty ELSE values[k]]
    \/ Missed(gone)

LEMMA DeletionsKeep ==
    ASSUME CacheInv, NEW c \in Callers,
           Invalidate(c) \/ InvalidateFails(c) \/ CutOff(c)
    PROVE  CacheInv'
<1>0. /\ values \in [Keys -> {Empty} \cup ValueKind]
      /\ \A k \in Keys : SoundValue(k)
  BY DEF CacheInv
<1>1. ASSUME NEW r \in RequestKind, SoundRequest(r),
             request' = [request EXCEPT ![c] = r], NEW gone,
             \A k \in Keys :
                k \in UNION RangeOf(request[c].forget) =>
                   k \in gone \/ k \in UNION RangeOf(r.forget),
             KeysGo(gone)
      PROVE  CacheInv'
  <2>1. ASSUME NEW k \in Keys
        PROVE  /\ values'[k] \in {Empty} \cup ValueKind
               /\ SoundValue(k)'
               /\ Outdated(k)' => Outdated(k) /\ k \notin gone
    <3>1. CASE values'[k] = values[k] /\ (k \in gone => values[k].behind = {})
      BY <1>0, <3>1 DEF SoundValue, Outdated
    <3>2. CASE values'[k] = Empty
      BY <3>2 DEF SoundValue, Empty, Outdated
    <3>3. CASE /\ values'[k] = [values[k] EXCEPT !.behind = {}, !.missed = TRUE]
               /\ values[k].behind # {}
      <4>1. values[k] \in ValueKind /\ values[k] # Empty
        BY <1>0, <3>3 DEF Empty
      <4>2. /\ values'[k] \in ValueKind /\ values'[k].view = values[k].view
            /\ values'[k].behind = {}
        BY <3>3, <4>1 DEF ValueKind
      <4>3. QED
        BY <1>0, <4>1, <4>2 DEF SoundValue, Outdated
    <3>4. QED
      BY <1>1, <3>1, <3>2, <3>3 DEF KeysGo, Missed
  <2>2. values' \in [Keys -> {Empty} \cup ValueKind]
    BY <1>1, <2>1 DEF KeysGo, Missed
  <2>3. QED
    BY <1>1, <2>1, <2>2, OneRequest
<1>2. CASE Invalidate(c) \/ InvalidateFails(c)
  <2>1. PICK r \in RequestKind :
           /\ r = OrDone([request[c] EXCEPT !.forget = Tail(@)])
           /\ SoundRequest(r)
           /\ RangeOf(request[c].forget)
                 = {Head(request[c].forget)} \cup RangeOf(r.forget)
    BY <1>2, NextDeletion DEF Invalidate, InvalidateFails
  <2>2. PICK gone : gone = Head(request[c].forget)
    OBVIOUS
  <2>3. request' = [request EXCEPT ![c] = r]
    <3>1. request' = [request EXCEPT ![c] =
                        OrDone([request[c] EXCEPT !.forget = Tail(@)])]
      BY <1>2 DEF Invalidate, InvalidateFails
    <3>2. QED
      BY <2>1, <3>1
  <2>4. KeysGo(gone)
    BY <1>2, <2>2 DEF Invalidate, InvalidateFails, KeysGo
  <2>5. \A k \in Keys :
           k \in UNION RangeOf(request[c].forget) =>
              k \in gone \/ k \in UNION RangeOf(r.forget)
    BY <2>1, <2>2
  <2>6. QED
    BY <1>1, <2>1, <2>3, <2>4, <2>5
<1>3. CASE CutOff(c)
  <2>1. PICK gone : gone = UNION RangeOf(request[c].forget)
    OBVIOUS
  <2>2. request' = [request EXCEPT ![c] = NoRequest] /\ KeysGo(gone)
    BY <1>3, <2>1 DEF CutOff, KeysGo
  <2>3. QED
    BY <1>1, <2>1, <2>2, IdleIs
<1>4. QED
  BY <1>2, <1>3

\* A change writes its next table.
LEMMA WriteKeeps ==
    ASSUME CacheInv, NEW c \in Callers, Write(c)
    PROVE  CacheInv'
<1>0. /\ request \in [Callers -> RequestKind] /\ request[c] \in RequestKind
      /\ values \in [Keys -> {Empty} \cup ValueKind]
      /\ \A k \in Keys : SoundValue(k)
      /\ \A d \in Callers : SoundRequest(request[d])
      /\ request[c].op = "change" /\ request[c].todo # <<>>
  BY DEF CacheInv, Write
<1>1. PICK t, q : /\ t = Head(request[c].todo)
                  /\ q = [request[c] EXCEPT !.todo = Tail(@)]
  OBVIOUS
<1>2. /\ Tail(request[c].todo) \in Seq(Tables)
      /\ RangeOf(request[c].todo) = {t} \cup RangeOf(Tail(request[c].todo))
  BY <1>0, <1>1, TailOf DEF RequestKind
<1>3. /\ q \in RequestKind /\ q.op = "change" /\ q.todo = Tail(request[c].todo)
      /\ q.forget = request[c].forget
  BY <1>0, <1>1, <1>2 DEF RequestKind
<1>4. SoundRequest(q)
  BY <1>0, <1>2, <1>3 DEF SoundRequest, Covered
<1>5. /\ OrDone(q) \in RequestKind /\ SoundRequest(OrDone(q))
      /\ RangeOf(OrDone(q).forget) = RangeOf(request[c].forget)
  BY <1>3, <1>4, IdleIs, RangesAre DEF OrDone
<1>6. request' = [d \in Callers |->
                    IF d = c THEN OrDone(q)
                    ELSE IF HasRead(d, t) THEN [request[d] EXCEPT !.stale = TRUE]
                    ELSE request[d]]
  BY <1>1 DEF Write
<1>7. ASSUME NEW d \in Callers
      PROVE  /\ request'[d] \in RequestKind /\ SoundRequest(request'[d])
             /\ RangeOf(request'[d].forget) = RangeOf(request[d].forget)
  <2>1. PICK s : s = [request[d] EXCEPT !.stale = TRUE]
    OBVIOUS
  <2>2. /\ s \in RequestKind /\ s.op = request[d].op /\ s.todo = request[d].todo
        /\ s.forget = request[d].forget
    BY <1>0, <2>1 DEF RequestKind
  <2>3. SoundRequest(s)
    BY <1>0, <2>2 DEF SoundRequest
  <2>4. QED
    BY <1>0, <1>5, <1>6, <2>1, <2>2, <2>3
<1>8. request' \in [Callers -> RequestKind]
  BY <1>6, <1>7
<1>9. ASSUME NEW k \in Keys
      PROVE  /\ values'[k] \in {Empty} \cup ValueKind
             /\ SoundValue(k)'
             /\ Outdated(k)' =>
                   \/ Outdated(k)
                   \/ k \in UNION RangeOf(request[c].forget)
  <2>1. values'[k] = IF LoadedFrom(k, t)
                     THEN [values[k] EXCEPT !.behind = values[k].behind \cup {t}]
                     ELSE values[k]
    BY <1>1 DEF Write
  <2>2. CASE values'[k] = values[k]
    BY <1>0, <2>2 DEF SoundValue, Outdated
  <2>3. CASE values'[k] # values[k]
    <3>1. /\ values[k] \in ValueKind /\ values[k] # Empty
          /\ t \in RangeOf(Reads(values[k].view)) /\ KeyOf(values[k].view) = k
      BY <1>0, <2>1, <2>3 DEF LoadedFrom, SoundValue
    <3>2. t \in Tables /\ values[k].view \in Views
      BY <1>0, <1>1, <3>1, TailOf DEF RequestKind, ValueKind
    <3>3. /\ values'[k] \in ValueKind /\ values'[k].view = values[k].view
          /\ values'[k].behind = values[k].behind \cup {t}
      BY <2>1, <2>3, <3>1, <3>2 DEF ValueKind
    <3>4. t \in Edited /\ k \in Promises => k \in UNION RangeOf(request[c].forget)
      BY <1>0, <1>2, <3>1, <3>2 DEF SoundRequest, Covered
    <3>5. SoundValue(k)'
      BY <1>0, <3>1, <3>3 DEF SoundValue
    <3>6. Outdated(k)' => Outdated(k) \/ (t \in Edited /\ k \in Promises)
      BY <3>3 DEF Outdated
    <3>7. QED
      BY <3>3, <3>4, <3>5, <3>6
  <2>4. QED
    BY <2>2, <2>3
<1>10. values' \in [Keys -> {Empty} \cup ValueKind]
  <2>1. \E f : values' = [k \in Keys |-> f[k]]
    <3>1. PICK f : f = values'
      OBVIOUS
    <3>2. f = [k \in Keys |-> f[k]]
      BY <3>1 DEF Write
    <3>3. QED
      BY <3>1, <3>2
  <2>2. QED
    BY <1>9, <2>1
<1>11. EditsAreForgotten'
  <2>1. ASSUME NEW k \in Keys, Outdated(k)'
        PROVE  \E d \in Callers : k \in UNION RangeOf(request'[d].forget)
    <3>0. Outdated(k) => \E d \in Callers : k \in UNION RangeOf(request[d].forget)
      BY DEF CacheInv, EditsAreForgotten, Outdated, Promises, Edited
    <3>1. \E d \in Callers : k \in UNION RangeOf(request[d].forget)
      BY <1>9, <2>1, <3>0
    <3>2. QED
      BY <1>7, <3>1
  <2>2. QED
    BY <2>1, KeysOfGoods DEF EditsAreForgotten, Outdated, Promises, Edited, Keys
<1>12. QED
  BY <1>7, <1>8, <1>9, <1>10, <1>11 DEF CacheInv
-----------------------------------------------------------------------------
LEMMA CacheInvAtStart == CachesInit => CacheInv
<1>1. SUFFICES ASSUME CachesInit PROVE CacheInv
  OBVIOUS
<1>2. /\ values \in [Keys -> {Empty} \cup ValueKind]
      /\ \A k \in Keys : values[k] = Empty
      /\ request \in [Callers -> RequestKind]
      /\ \A c \in Callers : request[c] = NoRequest
  BY <1>1, IdleIs DEF CachesInit
<1>3. EditsAreForgotten
  BY <1>2, KeysOfGoods DEF EditsAreForgotten, Empty, Keys
<1>4. QED
  BY <1>2, <1>3, IdleIs DEF CacheInv, SoundValue

LEMMA CacheInvStays == CacheInv /\ [CachesNext]_cacheVars => CacheInv'
<1>1. SUFFICES ASSUME CacheInv, [CachesNext]_cacheVars PROVE CacheInv'
  OBVIOUS
<1>2. CASE UNCHANGED cacheVars
  <2>1. values' = values /\ request' = request
    BY <1>2 DEF cacheVars
  <2>2. QED
    BY <1>1, <2>1 DEF CacheInv, SoundValue, EditsAreForgotten
<1>3. CASE CachesNext
  <2>1. \/ \E k \in Keys : Lapse(k)
        \/ \E c \in Callers :
              \/ Changes(c)
              \/ \E v \in Views : Miss(c, v)
              \/ Load(c) \/ Store(c) \/ Write(c)
              \/ Invalidate(c) \/ InvalidateFails(c) \/ CutOff(c)
    BY <1>3 DEF CachesNext, Changes
  <2>2. QED
    BY <1>1, <2>1, ExpiryKeeps, ChangesKeep, LoadsKeep, WriteKeeps, DeletionsKeep
<1>4. QED
  BY <1>1, <1>2, <1>3

\* What the property was told before a product was edited, or a verdict on an
\* account from before it was deactivated, stays no longer than the operation.
THEOREM EditsForgotten == CachesSpec => []EditsAreForgotten
<1>1. CacheInv => EditsAreForgotten
  BY DEF CacheInv
<1>2. QED
  BY <1>1, CacheInvAtStart, CacheInvStays, PTL DEF CachesSpec

\* Keys and requests keep the shape that CacheService and its callers give them.
THEOREM CachesTypeCorrect == CachesSpec => []CachesTypeOK
<1> DEFINE Counted == changes \in 0..MaxChanges
<1>1. CachesInit => Counted
  BY BoundsAssumption DEF CachesInit
<1>2. Counted /\ [CachesNext]_cacheVars => Counted'
  <2> SUFFICES ASSUME Counted, [CachesNext]_cacheVars PROVE Counted'
    OBVIOUS
  <2>1. CASE UNCHANGED changes
    BY <2>1
  <2>2. CASE \E c, tables, forget : Begin(c, tables, forget)
    BY <2>2, BoundsAssumption DEF Begin
  <2>3. UNCHANGED changes \/ \E c \in Callers : Changes(c)
    BY DEF CachesNext, cacheVars, Changes, Miss, Load, Store, Write, Invalidate,
       InvalidateFails, CutOff, Lapse
  <2>4. ASSUME NEW c \in Callers, Changes(c)
        PROVE  \E tables, forget : Begin(c, tables, forget)
    BY <2>4 DEF Changes, CreateProduct, UpdateProduct, DeleteProduct,
       Restock, MarkDamaged, UpdateStock, IssueBorrowable,
       ReturnBorrowable, IssueReturnable, ReturnReturnable, Borrow,
       FulfilOrder, FulfilBooking, CreateBookingOrder, RollbackBooking,
       RoomsChange, FlushRoomCache, Deactivate, RemoveAdmin
  <2>5. QED
    BY <2>1, <2>2, <2>3, <2>4
<1>3. Counted /\ CacheInv => CachesTypeOK
  <2> SUFFICES ASSUME Counted, CacheInv PROVE CachesTypeOK
    OBVIOUS
  <2>1. values \in [Keys -> {Empty} \cup ValueKind]
    BY DEF CacheInv
  <2>2. ASSUME NEW c \in Callers
        PROVE  /\ request[c].op \in Views \cup {"none", "change"}
               /\ RangeOf(request[c].todo) \subseteq Tables
               /\ RangeOf(request[c].forget) \subseteq SUBSET Keys
               /\ request[c].stale \in BOOLEAN
    <3>1. request[c] \in RequestKind
      BY DEF CacheInv
    <3>2. /\ RangeOf(request[c].todo) \subseteq Tables
          /\ RangeOf(request[c].forget) \subseteq SUBSET Keys
      BY <3>1, TailOf DEF RequestKind
    <3>3. QED
      BY <3>1, <3>2 DEF RequestKind
  <2>3. QED
    BY <2>1, <2>2 DEF CachesTypeOK, ValueKind
<1> HIDE DEF Counted
<1>4. QED
  BY <1>1, <1>2, <1>3, CacheInvAtStart, CacheInvStays, PTL DEF CachesSpec
=============================================================================
