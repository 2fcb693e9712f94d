----------------------------- MODULE MCTenantJobs -----------------------------
(***************************************************************************)
(* Small instances of TenantJobs.                                          *)
(***************************************************************************)
EXTENDS TenantJobs

CONSTANTS t1, t2, w1, w2, r1, r2
===============================================================================
