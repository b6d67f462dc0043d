------------------------------- MODULE Caches -------------------------------
(***************************************************************************)
(* The read-through caches over the property's rows: who loads which key   *)
(* from which tables, and which keys every operation that changes a table  *)
(* deletes (CacheService and its callers).  One property and its owner,    *)
(* who sees all properties under keys of their own; one staff account.     *)
(*                                                                         *)
(* Of a cached value only this is kept: which function put it there, which *)
(* of the tables it was loaded from have changed since it was put there    *)
(* (`behind`), and whether it was missed: put there by a load that had     *)
(* read rows from before a change, or behind a change whose own deletion   *)
(* of it was cut off or did not reach Redis.                               *)
(*                                                                         *)
(* Availability of rooms, cached per pair of dates, is in Rooms.           *)
(***************************************************************************)
EXTENDS Naturals, Sequences, FiniteSets

CONSTANTS
    Callers,      \* requests that can be running at one time
    MaxCached,    \* bound: keys that have a value at one time
    MaxChanges    \* bound: operations that change a table

ASSUME BoundsAssumption == MaxCached \in Nat /\ MaxChanges \in Nat

VARIABLES
    values,    \* key -> what Redis has under it
    request,   \* what each running request has still to do
    changes    \* how many operations have changed a table

cacheVars == <<values, request, changes>>
-----------------------------------------------------------------------------
(* CacheService: the keys. *)

PropertyKeys == {"catalog", "services", "borrowables", "admin:products",
                 "admin:stock"}
OwnerKeys == {"admin:products:all", "admin:stock:all"}
Keys == PropertyKeys \cup OwnerKeys \cup {"jwt:admin"}

(* The functions that read through the cache: the key each one uses and    *)
(* the tables it reads when nothing is there, in order.                    *)

getCatalog ==
    [key |-> "catalog", reads |-> <<"product_catalog", "inventory">>]
getRoomCatalog ==
    [key |-> "catalog", reads |-> <<"ezee_rooms", "room_types">>]
getFreeServices ==
    [key |-> "services", reads |-> <<"product_catalog">>]
getBorrowables ==
    [key |-> "borrowables", reads |-> <<"product_catalog", "inventory">>]

\* listProducts and listStock, of the property and of all properties.
listProducts(key) ==
    [key |-> key, reads |-> <<"product_catalog", "inventory">>]
listStock(key) ==
    [key |-> key, reads |-> <<"inventory", "product_catalog">>]

\* The guard of every staff request.
validate == [key |-> "jwt:admin", reads |-> <<"admin_users">>]

View == [getCatalog |-> getCatalog, getRoomCatalog |-> getRoomCatalog,
         getFreeServices |-> getFreeServices,
         getBorrowables |-> getBorrowables,
         listProducts |-> listProducts("admin:products"),
         listAllProducts |-> listProducts("admin:products:all"),
         listStock |-> listStock("admin:stock"),
         listAllStock |-> listStock("admin:stock:all"),
         validate |-> validate]

Views == DOMAIN View
KeyOf(v) == View[v].key
Reads(v) == View[v].reads

RangeOf(seq) == {seq[i] : i \in DOMAIN seq}
Tables == UNION {RangeOf(Reads(v)) : v \in Views}

Empty == [view |-> "none", behind |-> {}, missed |-> FALSE]
NoRequest == [op |-> "none", todo |-> <<>>, forget |-> <<>>, stale |-> FALSE]

Cached == {k \in Keys : values[k] # Empty}
-----------------------------------------------------------------------------
CachesInit ==
    /\ values = [k \in Keys |-> Empty]
    /\ request = [c \in Callers |-> NoRequest]
    /\ changes = 0

\* A request finds nothing under its key and begins to load.  One that finds
\* a value answers with it and changes nothing.
Miss(c, v) ==
    /\ request[c] = NoRequest
    /\ values[KeyOf(v)] = Empty
    /\ Cardinality(Cached) < MaxCached
    /\ request' = [request EXCEPT ![c] =
                     [NoRequest EXCEPT !.op = v, !.todo = Reads(v)]]
    /\ UNCHANGED <<values, changes>>

\* It reads the next table...
Load(c) ==
    /\ request[c].op \in Views /\ request[c].todo # <<>>
    /\ request' = [request EXCEPT ![c].todo = Tail(@)]
    /\ UNCHANGED <<values, changes>>

\* ...and puts the value under the key, whatever is there by now.
Store(c) ==
    LET v == request[c].op
    IN  /\ v \in Views /\ request[c].todo = <<>>
        /\ values' = [values EXCEPT ![KeyOf(v)] =
                       [view |-> v, behind |-> {}, missed |-> request[c].stale]]
        /\ request' = [request EXCEPT ![c] = NoRequest]
        /\ UNCHANGED changes

\* Mutant of Lapse: a session verdict is stored without a time to live.
LapseCatalogsOnly(k) ==
    /\ k # "jwt:admin"
    /\ values[k] # Empty
    /\ values' = [values EXCEPT ![k] = Empty]
    /\ UNCHANGED <<request, changes>>

\* The time to live of a value is over.
Lapse(k) ==
    /\ values[k] # Empty
    /\ values' = [values EXCEPT ![k] = Empty]
    /\ UNCHANGED <<request, changes>>
-----------------------------------------------------------------------------
(* Operations that change tables: what they write, in order, and the sets  *)
(* of keys they delete after it.                                           *)

Begin(c, tables, forget) ==
    /\ request[c] = NoRequest
    /\ changes < MaxChanges
    /\ changes' = changes + 1
    /\ request' = [request EXCEPT ![c] =
                     [NoRequest EXCEPT !.op = "change", !.todo = tables,
                                       !.forget = forget]]
    /\ UNCHANGED values

PropertyOnly == <<PropertyKeys>>
Everywhere == <<PropertyKeys, OwnerKeys>>

CreateProduct(c) == Begin(c, <<"product_catalog", "inventory">>, PropertyOnly)
UpdateProduct(c) == Begin(c, <<"product_catalog">>, Everywhere)
DeleteProduct(c) == Begin(c, <<"inventory", "product_catalog">>, Everywhere)

\* Stock: more of it, damage, thresholds, lending and taking back.
Restock(c) == Begin(c, <<"inventory">>, Everywhere)
MarkDamaged(c) == Begin(c, <<"inventory">>, Everywhere)
UpdateStock(c) == Begin(c, <<"inventory">>, Everywhere)
IssueBorrowable(c) == Begin(c, <<"inventory">>, Everywhere)
ReturnBorrowable(c) == Begin(c, <<"inventory">>, Everywhere)

\* Returnables, a guest's own borrowing and a captured payment do not think
\* of the owner's lists.
IssueReturnable(c) == Begin(c, <<"inventory">>, PropertyOnly)
ReturnReturnable(c) == Begin(c, <<"inventory">>, PropertyOnly)
Borrow(c) == Begin(c, <<"inventory">>, PropertyOnly)
FulfilOrder(c) == Begin(c, <<"inventory">>, PropertyOnly)
FulfilBooking(c) == Begin(c, <<"inventory">>, PropertyOnly)

\* createBookingOrder reserves stock and rollbackPendingBooking releases it;
\* neither deletes a key, although invalidatePropertyCache says of itself that
\* it is called after any product or inventory mutation.
CreateBookingOrder(c) == Begin(c, <<"inventory">>, <<>>)
RollbackBooking(c) == Begin(c, <<"inventory">>, <<>>)

\* Rooms change in eZee or by a migration; staff may flush the room catalog.
RoomsChange(c) == \E t \in {"ezee_rooms", "room_types"} : Begin(c, <<t>>, <<>>)
FlushRoomCache(c) == Begin(c, <<>>, <<{"catalog"}>>)

Deactivate(c) == Begin(c, <<"admin_users">>, <<{"jwt:admin"}>>)
RemoveAdmin(c) == Begin(c, <<"admin_users">>, <<{"jwt:admin"}>>)

\* The request, over when it has nothing left to do.
OrDone(r) == IF r.todo = <<>> /\ r.forget = <<>> THEN NoRequest ELSE r

\* A request that has read table t, and a value loaded from it.
HasRead(d, t) ==
    /\ request[d].op \in Views
    /\ t \in RangeOf(Reads(request[d].op)) \ RangeOf(request[d].todo)
LoadedFrom(k, t) == values[k] # Empty /\ t \in RangeOf(Reads(values[k].view))

\* The change itself.
Write(c) ==
    LET t == Head(request[c].todo)
    IN  /\ request[c].op = "change" /\ request[c].todo # <<>>
        /\ request' = [d \in Callers |->
              IF d = c THEN OrDone([request[c] EXCEPT !.todo = Tail(@)])
              ELSE IF HasRead(d, t) THEN [request[d] EXCEPT !.stale = TRUE]
              ELSE request[d]]
        /\ values' = [k \in Keys |->
                       IF LoadedFrom(k, t) THEN [values[k] EXCEPT !.behind = @ \cup {t}]
                       ELSE values[k]]
        /\ UNCHANGED changes

\* Mutant of Invalidate: it does not wait for the changes themselves.
InvalidateEarly(c) ==
    /\ request[c].forget # <<>>
    /\ request' = [request EXCEPT ![c] =
                     OrDone([request[c] EXCEPT !.forget = Tail(@)])]
    /\ values' = [k \in Keys |-> IF k \in Head(request[c].forget) THEN Empty
                                 ELSE values[k]]
    /\ UNCHANGED changes

\* invalidatePropertyCache of the property, then of 'all'; the deletions of
\* one call go out together and are one step.
Invalidate(c) ==
    /\ request[c].todo = <<>> /\ request[c].forget # <<>>
    /\ request' = [request EXCEPT ![c] =
                     OrDone([request[c] EXCEPT !.forget = Tail(@)])]
    /\ values' = [k \in Keys |-> IF k \in Head(request[c].forget) THEN Empty
                                 ELSE values[k]]
    /\ UNCHANGED changes

\* What becomes of the values whose deletion is lost.
Missed(lost) ==
    values' = [k \in Keys |->
                 IF k \in lost /\ values[k].behind # {}
                 THEN [values[k] EXCEPT !.behind = {}, !.missed = TRUE] ELSE values[k]]

\* Redis does not answer: del() logs it and the operation goes on.
InvalidateFails(c) ==
    /\ request[c].todo = <<>> /\ request[c].forget # <<>>
    /\ request' = [request EXCEPT ![c] =
                     OrDone([request[c] EXCEPT !.forget = Tail(@)])]
    /\ Missed(Head(request[c].forget))
    /\ UNCHANGED changes

\* A request is cut: the process dies, a query fails, or it was a load whose
\* value Redis did not take.
CutOff(c) ==
    /\ request[c].op # "none"
    /\ request' = [request EXCEPT ![c] = NoRequest]
    /\ Missed(UNION RangeOf(request[c].forget))
    /\ UNCHANGED changes

CachesNext ==
    \/ \E c \in Callers :
          \/ \E v \in Views : Miss(c, v)
          \/ Load(c) \/ Store(c)
          \/ CreateProduct(c) \/ UpdateProduct(c) \/ DeleteProduct(c)
          \/ Restock(c) \/ MarkDamaged(c) \/ UpdateStock(c)
          \/ IssueBorrowable(c) \/ ReturnBorrowable(c)
          \/ IssueReturnable(c) \/ ReturnReturnable(c)
          \/ Borrow(c) \/ FulfilOrder(c) \/ FulfilBooking(c)
          \/ CreateBookingOrder(c) \/ RollbackBooking(c)
          \/ RoomsChange(c) \/ FlushRoomCache(c)
          \/ Deactivate(c) \/ RemoveAdmin(c)
          \/ Write(c) \/ Invalidate(c) \/ InvalidateFails(c) \/ CutOff(c)
    \/ \E k \in Keys : Lapse(k)

CachesSpec == CachesInit /\ [][CachesNext]_cacheVars

\* Every value is stored with a time to live and Redis drops it when it is
\* over; nothing else is assumed to happen.
CachesFairSpec == CachesSpec /\ \A k \in Keys : WF_cacheVars(Lapse(k))
-----------------------------------------------------------------------------
(* Properties. *)

\* Every key and every request has the shape above.
CachesTypeOK ==
    /\ values \in [Keys -> {Empty} \cup
                     [view : Views, behind : SUBSET Tables, missed : BOOLEAN]]
    /\ \A c \in Callers :
          /\ request[c].op \in Views \cup {"none", "change"}
          /\ RangeOf(request[c].todo) \subseteq Tables
          /\ RangeOf(request[c].forget) \subseteq SUBSET Keys
          /\ request[c].stale \in BOOLEAN
    /\ changes \in 0..MaxChanges

\* A product that was edited or deleted, an account that was deactivated: as long
\* as something the property was told before, or a session verdict, is cached, the
\* operation that changed the row is still running and will delete it, however
\* many requests load, store and change at the same time; the exceptions are a
\* load that had read the old row already and a deletion that is lost.  It does
\* not hold of the stock, which bookings change without deleting a key, nor of
\* the owner's lists, which nobody deletes when a product is created.
EditsAreForgotten ==
    \A k \in PropertyKeys \cup {"jwt:admin"} :
        values[k].behind \cap {"product_catalog", "admin_users"} # {} =>
            \E c \in Callers : k \in UNION RangeOf(request[c].forget)

\* Whatever went wrong, once changes have stopped no key is stale for good: a
\* deactivated account is rejected and a sold-out product shown as such.
FreshInTheEnd ==
    \A k \in Keys : <>[](values[k].behind = {} /\ ~values[k].missed)

\* The comments of getCatalog, "List all purchasable products", and of
\* getRoomCatalog, "Returns all active room types for a property": whoever
\* finds a value under its key finds a value of its own kind.
ServesItsOwn ==
    \A v \in Views : values[KeyOf(v)] # Empty => values[KeyOf(v)].view = v
=============================================================================
