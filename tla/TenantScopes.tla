----------------------------- MODULE TenantScopes -----------------------------
(***************************************************************************)
(* What boundary/context.py promises a worker, without transactions,       *)
(* tokens, savepoints or failures: a stack of scopes, the tenant of the    *)
(* innermost one, and what row-level security evaluates on each alias,     *)
(* which is at any time the active tenant's id or nothing on the aliases   *)
(* that tenant uses, and never the id of a tenant whose scopes are gone.   *)
(*                                                                         *)
(* TenantContext implements it.                                            *)
(***************************************************************************)
EXTENDS Integers, Sequences

CONSTANTS
    Tenants, NoTenant,
    Aliases,   \* the aliases the promise is about
    Reaches    \* per tenant, the aliases it uses

VARIABLES
    scopes,    \* the tenant inside each open scope, innermost last
    active,    \* TenantContext.get()
    sees       \* per alias, the tenant row-level security evaluates

vars == <<scopes, active, sees>>

Scope == Tenants \cup {NoTenant}

Open(t) == \E i \in DOMAIN scopes : scopes[i] = t

\* No alias evaluates a tenant without open scope, nor an alias of the active
\* tenant any other tenant.
Agrees ==
    \A a \in Aliases : sees[a] # NoTenant =>
        /\ Open(sees[a])
        /\ active # NoTenant /\ a \in Reaches[active] => sees[a] = active

Init ==
    /\ scopes = <<>>
    /\ active = NoTenant
    /\ sees = [a \in Aliases |-> NoTenant]

Enter(t) ==
    /\ scopes' = Append(scopes, t)
    /\ active' = t

Exit ==
    /\ Len(scopes) > 0
    /\ scopes' = SubSeq(scopes, 1, Len(scopes) - 1)
    /\ active' = IF Len(scopes) = 1 THEN NoTenant ELSE scopes[Len(scopes) - 1]

\* Work inside the scope: transactions begin, end, fail and roll back.
Work == UNCHANGED <<scopes, active>>

Next ==
    /\ (\E t \in Scope : Enter(t)) \/ Exit \/ Work
    /\ sees' \in [Aliases -> Scope]
    /\ Agrees'

Spec == Init /\ [][Next]_vars
===============================================================================
