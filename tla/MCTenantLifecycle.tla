-------------------------- MODULE MCTenantLifecycle --------------------------
(***************************************************************************)
(* Small deployments for TenantLifecycle.                                  *)
(***************************************************************************)
EXTENDS TenantLifecycle

CONSTANTS t1, t2, default, eu, booking, invoice, email

NoRegion == [t \in Tenants |-> default]
InRegion == [t \in Tenants |-> eu]
NeighbourInRegion == [t \in Tenants |-> IF t = Target THEN default ELSE eu]

OneScoped == <<booking>>
TwoScoped == <<booking, invoice>>
OneAdopted == <<email>>
=============================================================================
