------------------------------- MODULE Stock -------------------------------
(***************************************************************************)
(* The counters of one row of the `inventory` table (one product at one    *)
(* property) and the only ways the services change them.  A row is changed *)
(* by relative updates (increment / decrement), so an update is a function *)
(* of the row it finds, whatever the caller read before.                   *)
(***************************************************************************)
EXTENDS Integers

\* Where a unit of a product can be: free, held by an unpaid booking, sold,
\* or lent to a guest.
Places == {"available", "reserved", "sold", "borrowed"}

\* One inventory row: a counter for each place, the total, and the units
\* written off.  Postgres integers: nothing but the CHECK constraints keeps a
\* counter from going below zero.
Counters == Places \cup {"total", "damaged"}
Row == [Counters -> Int]

\* A row as createProduct inserts it: n units, all of them free.
NewRow(n) ==
    [c \in Counters |-> IF c \in {"total", "available"} THEN n ELSE 0]

\* q units go from one place to another: reserve, release, finalize, sell,
\* lend and take back are all this one update.
Move(row, from, to, q) ==
    [row EXCEPT ![from] = @ - q, ![to] = @ + q]

\* q new units arrive on the shelf.
Restocked(row, q) == [row EXCEPT !["total"] = @ + q, !["available"] = @ + q]

\* q units leave the stock for good, from the shelf or from a guest's hands.
WrittenOff(row, from, q) ==
    [row EXCEPT !["total"] = @ - q, ![from] = @ - q, !["damaged"] = @ + q]

\* The CHECK constraints of the table: an update whose result breaks one is
\* refused and aborts its transaction.
Legal(row) == \A c \in Places \cup {"damaged"} : row[c] >= 0

\* Every unit of the stock is in exactly one place.
Conserved(row) ==
    row["total"] =
        row["available"] + row["reserved"] + row["sold"] + row["borrowed"]
=============================================================================
