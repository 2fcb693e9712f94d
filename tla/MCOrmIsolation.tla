--------------------------- MODULE MCOrmIsolation ---------------------------
(***************************************************************************)
(* Small instances of OrmIsolation. Tenants, keys and workers are only     *)
(* compared, so they may be permuted.                                      *)
(***************************************************************************)
EXTENDS OrmIsolation, TLC

CONSTANTS t1, t2, x, y, w1, w2

OnKey == <<"key">>

Symmetric == Permutations(Tenants) \cup Permutations(Keys) \cup Permutations(Workers)
=============================================================================
