----------------------------- MODULE MCRegionalOrm -----------------------------
(***************************************************************************)
(* A small regional deployment for RegionalOrm.                            *)
(***************************************************************************)
EXTENDS RegionalOrm

CONSTANTS t1, t2, default, eu, nowhere

\* t1 lives in the region eu, everyone else in none.
OneRegion == [t \in Tenants |-> IF t = t1 THEN eu ELSE default]
================================================================================
