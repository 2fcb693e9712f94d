--------------------------- MODULE MCTenantContext ---------------------------
(***************************************************************************)
(* Small deployments for TenantContext.                                    *)
(***************************************************************************)
EXTENDS TenantContext

CONSTANTS t1, t2, default, eu

\* t1 lives in the region eu, t2 in none.
OneRegion == [t \in Tenants |-> IF t = t1 THEN eu ELSE default]
=============================================================================
