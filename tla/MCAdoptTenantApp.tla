--------------------------- MODULE MCAdoptTenantApp ---------------------------
(***************************************************************************)
(* Small apps to adopt: most tables have a unique key; that of seat is one *)
(* a foreign key targets, and the router keeps remote off this alias.      *)
(***************************************************************************)
EXTENDS AdoptTenantApp

CONSTANTS t1, t2, email, address, label, seat, remote, key

SeatIsTarget ==
    [t \in Tables |-> {[on |-> key, form |-> IF t = seat THEN "fk target" ELSE "plain"]}]

AllDeclared == [t \in Tables |-> {key}]
\* The keys were made by raw SQL: the model state does not know of them.
NoneDeclared == [t \in Tables |-> {}]

\* A package upgrade brings a table: the second migration adopts the app
\* again, now with a backfill. The third, without a transaction, derives a
\* table that is refused after one that is not; one of its tables is kept on
\* another alias.
Upgrade == <<[tables |-> <<email>>, backfill |-> None, atomic |-> TRUE],
             [tables |-> <<email, address>>, backfill |-> t1, atomic |-> TRUE],
             [tables |-> <<remote, email, label, seat>>, backfill |-> t1, atomic |-> FALSE]>>

===============================================================================
