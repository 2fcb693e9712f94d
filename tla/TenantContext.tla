---------------------------- MODULE TenantContext ----------------------------
(***************************************************************************)
(* Tenant context propagation (boundary/context.py) for one worker: a      *)
(* thread with its own contextvars context and its own database            *)
(* connections, one per alias, as Django gives it.                         *)
(*                                                                         *)
(* The worker opens and closes well-nested scopes, the way with-blocks,    *)
(* the middleware and the Celery wrappers nest:                            *)
(*   "using"    TenantContext.using(t), also @tenant_scoped                *)
(*   "handler"  _ensure_atomic() + TenantContext.set(t) ... clear(token),  *)
(*              the body of TenantMiddleware.__call__, tenant_task and     *)
(*              TenantTask.__call__                                        *)
(*   "bare"     the same Celery wrappers for a task without tenant header  *)
(*   "bypass"   admin_bypass(using=a)                                      *)
(*   "atomic"   the application's own transaction.atomic(using=a)          *)
(* Several tests and commands nest these freely, and a Celery task run     *)
(* eagerly inside a request nests a handler in a handler.                  *)
(*                                                                         *)
(* A connection carries the two session variables RLS reads. Both are      *)
(* written with set_config(.., .., true): the value lives until the        *)
(* transaction ends, ROLLBACK TO SAVEPOINT brings the older value back,    *)
(* and in autocommit the value is gone with the statement. A connection    *)
(* that was never opened is skipped by the code, which leaves the same     *)
(* state as autocommit does.                                               *)
(***************************************************************************)
EXTENDS Integers, Sequences

CONSTANTS
    Tenants,          \* tenant rows
    NoTenant,         \* Python's None, and the empty session variable
    Aliases,          \* database aliases: DATABASES and BOUNDARY_REGIONS
    Default,          \* the "default" alias
    Configured,       \* aliases present in DATABASES
    Postgres,         \* aliases whose vendor is "postgresql"
    Regions,          \* keys of BOUNDARY_REGIONS
    RegionOf,         \* the region field of each tenant
    WrapAtomic,       \* BOUNDARY_WRAP_ATOMIC
    SetDbSessionVar,  \* BOUNDARY_SET_DB_SESSION_VAR
    FailingAliases,   \* aliases on which a body statement may raise
    MaxDepth          \* bound on the number of nested scopes

ASSUME TenantAssumption == NoTenant \notin Tenants
ASSUME AliasAssumption ==
    /\ Default \in Configured
    /\ Configured \subseteq Aliases
    /\ Postgres \subseteq Configured
    /\ Regions \subseteq Aliases
    /\ FailingAliases \subseteq Configured
ASSUME RegionAssumption == RegionOf \in [Tenants -> Aliases]
ASSUME SettingsAssumption ==
    /\ WrapAtomic \in BOOLEAN
    /\ SetDbSessionVar \in BOOLEAN
    /\ MaxDepth \in Nat

VARIABLES
    tenant,   \* the ContextVar _current_tenant
    depth,    \* the ContextVar _admin_bypass_depth, one count per alias
    frames,   \* the open scopes, innermost last
    conn      \* per alias, the transaction and the session variables

vars == <<tenant, depth, frames, conn>>

-----------------------------------------------------------------------------
Scope == Tenants \cup {NoTenant}

Connection == [inTx : BOOLEAN, aborted : BOOLEAN, var : Scope, flag : BOOLEAN]

Kinds == {"using", "handler", "bare", "bypass", "atomic"}

\* What a scope remembers until its exit: the tenant inside it and before it
\* (the ContextVar token), the aliases whose transaction it opened, and for
\* "bypass" and "atomic" the alias, the depth found on entry, and the
\* variables a savepoint would bring back.
Frame == [kind : Kinds, tenant : Scope, prev : Scope, owned : SUBSET Aliases,
          alias : Aliases, level : Nat, savedVar : Scope, savedFlag : BOOLEAN]

\* A connection outside a transaction.
Idle == [inTx |-> FALSE, aborted |-> FALSE, var |-> NoTenant, flag |-> FALSE]

Usable(c) == c.inTx /\ ~c.aborted

Depth == Len(frames)
Top == frames[Len(frames)]
Pop == SubSeq(frames, 1, Len(frames) - 1)

-----------------------------------------------------------------------------
(* Aliases of a tenant *)

\* _regional_alias(): unset, unknown and "default" regions give no alias.
RegionalAlias(t) ==
    IF t = NoTenant THEN {} ELSE {RegionOf[t]} \cap (Regions \ {Default})

\* _target_aliases() and _aliases_for() for the base alias "default".
TargetAliases(t) == {Default} \cup RegionalAlias(t)

\* _ensure_atomic() over a set of aliases: those it opens a transaction on.
EnsureAtomic(as) == {a \in as : WrapAtomic /\ a \in Configured /\ ~conn[a].inTx}

Begin(c) == [c EXCEPT !.inTx = TRUE]

\* Whether _set_db_session / _clear_db_session issue SQL on the alias.
WritesVar(a) == SetDbSessionVar /\ a \in Postgres

\* set_config(DB_SESSION_VAR, t, true) when the statement succeeds or is
\* attempted best-effort: it changes nothing in autocommit or when aborted.
SetDbSession(a, c, t) ==
    IF WritesVar(a) /\ Usable(c) THEN [c EXCEPT !.var = t] ELSE c

\* The aliases on which set(t) would raise: their transaction is aborted.
Refusing(t) ==
    IF t = NoTenant THEN {}
    ELSE {a \in TargetAliases(t) : WritesVar(a) /\ conn[a].inTx /\ conn[a].aborted}

-----------------------------------------------------------------------------
(* TenantContext.set, in the scope that "own" transactions were opened for *)

Push(kind, t, own, a) ==
    frames' = Append(frames,
        [kind |-> kind, tenant |-> t, prev |-> tenant, owned |-> own, alias |-> a,
         level |-> depth[a], savedVar |-> conn[a].var, savedFlag |-> conn[a].flag])

\* Every alias takes the variable: the scope is entered.
SetScope(kind, t, own) ==
    /\ Refusing(t) = {}
    /\ tenant' = t
    /\ conn' = [a \in Aliases |->
                   LET c == IF a \in own THEN Begin(conn[a]) ELSE conn[a]
                   IN  IF t # NoTenant /\ a \in TargetAliases(t)
                       THEN SetDbSession(a, c, t) ELSE c]
    /\ Push(kind, t, own, Default)
    /\ UNCHANGED depth

\* An alias refuses: the ContextVar is reset and the exception leaves the
\* scope. "default" is written first, so it keeps the new tenant when only
\* the regional alias refuses and its transaction is not the scope's own.
SetRaises(t, own) ==
    /\ Refusing(t) # {}
    /\ conn' = [conn EXCEPT ![Default] =
                   IF Default \in own \cup Refusing(t) THEN @
                   ELSE SetDbSession(Default, @, t)]
    /\ UNCHANGED <<tenant, depth, frames>>

\* Mutants of the exit below: the token is not reset; only the ContextVar is
\* reset; the aliases are not cleared; the previous tenant is not re-applied.
RestoreScopeKeepsTenant(f) ==
    /\ tenant' = f.tenant
    /\ conn' = [a \in Aliases |-> IF a \in f.owned THEN Idle ELSE conn[a]]
RestoreScopeContextOnly(f) ==
    /\ tenant' = f.prev
    /\ conn' = [a \in Aliases |-> IF a \in f.owned THEN Idle ELSE conn[a]]
RestoreScopeSkipsClear(f) ==
    /\ tenant' = f.prev
    /\ conn' = [a \in Aliases |->
                   IF a \in f.owned THEN Idle
                   ELSE IF f.prev # NoTenant /\ a \in TargetAliases(f.prev)
                        THEN SetDbSession(a, conn[a], f.prev) ELSE conn[a]]
RestoreScopeNoReapply(f) ==
    /\ tenant' = f.prev
    /\ conn' = [a \in Aliases |->
                   IF a \in f.owned THEN Idle
                   ELSE IF a \in TargetAliases(f.tenant)
                        THEN SetDbSession(a, conn[a], NoTenant) ELSE conn[a]]

\* The exit shared by using() and clear(): reset the ContextVar, clear the
\* tenant's aliases, re-apply the previous tenant on its own aliases, then
\* end the transactions this scope opened.
RestoreScope(f) ==
    /\ tenant' = f.prev
    /\ conn' = [a \in Aliases |->
                   LET cleared == IF a \in TargetAliases(f.tenant)
                                  THEN SetDbSession(a, conn[a], NoTenant) ELSE conn[a]
                       back == IF f.prev # NoTenant /\ a \in TargetAliases(f.prev)
                               THEN SetDbSession(a, cleared, f.prev) ELSE cleared
                   IN  IF a \in f.owned THEN Idle ELSE back]

-----------------------------------------------------------------------------
(* Scopes *)

UsingEnter(t) == Depth < MaxDepth /\ SetScope("using", t, EnsureAtomic(TargetAliases(t)))

UsingRaises(t) == Depth < MaxDepth /\ SetRaises(t, EnsureAtomic(TargetAliases(t)))

UsingExit ==
    /\ Depth > 0 /\ Top.kind = "using"
    /\ RestoreScope(Top)
    /\ frames' = Pop
    /\ UNCHANGED depth

HandlerEnter(t) == Depth < MaxDepth /\ SetScope("handler", t, EnsureAtomic({Default}))

HandlerRaises(t) == Depth < MaxDepth /\ SetRaises(t, EnsureAtomic({Default}))

HandlerExit ==
    /\ Depth > 0 /\ Top.kind = "handler"
    /\ RestoreScope(Top)
    /\ frames' = Pop
    /\ UNCHANGED depth

\* A Celery task without tenant header: only the transaction is ensured.
BareEnter ==
    LET own == EnsureAtomic({Default}) IN
    /\ Depth < MaxDepth
    /\ conn' = [a \in Aliases |-> IF a \in own THEN Begin(conn[a]) ELSE conn[a]]
    /\ Push("bare", tenant, own, Default)
    /\ UNCHANGED <<tenant, depth>>

BareExit ==
    /\ Depth > 0 /\ Top.kind = "bare"
    /\ conn' = [a \in Aliases |-> IF a \in Top.owned THEN Idle ELSE conn[a]]
    /\ frames' = Pop
    /\ UNCHANGED <<tenant, depth>>

\* admin_bypass() on a PostgreSQL alias (elsewhere it only yields). In an
\* aborted transaction the first statement raises; without a transaction the
\* read-back raises AdminBypassNotActiveError: both leave no trace.
BypassEnter(a) ==
    LET own == EnsureAtomic({a})
        c   == IF a \in own THEN Begin(conn[a]) ELSE conn[a]
    IN  /\ Depth < MaxDepth
        /\ a \in Postgres
        /\ Usable(c)
        /\ conn' = [conn EXCEPT ![a] = [c EXCEPT !.flag = TRUE]]
        /\ depth' = [depth EXCEPT ![a] = @ + 1]
        /\ Push("bypass", tenant, own, a)
        /\ UNCHANGED tenant

\* Mutants of the exit below: every bypass clears the flag; the depth is
\* restored one too low.
BypassExitAlwaysClears ==
    LET f == Top
        c == IF Usable(conn[f.alias]) THEN [conn[f.alias] EXCEPT !.flag = FALSE]
             ELSE conn[f.alias]
    IN  /\ Depth > 0 /\ f.kind = "bypass"
        /\ conn' = [conn EXCEPT ![f.alias] = IF f.alias \in f.owned THEN Idle ELSE c]
        /\ depth' = [depth EXCEPT ![f.alias] = f.level]
        /\ frames' = Pop
        /\ UNCHANGED tenant
BypassExitMiscounts ==
    LET f == Top
        c == IF f.level = 0 /\ Usable(conn[f.alias])
             THEN [conn[f.alias] EXCEPT !.flag = FALSE] ELSE conn[f.alias]
    IN  /\ Depth > 0 /\ f.kind = "bypass"
        /\ conn' = [conn EXCEPT ![f.alias] = IF f.alias \in f.owned THEN Idle ELSE c]
        /\ depth' = [depth EXCEPT ![f.alias] = f.level - 1]
        /\ frames' = Pop
        /\ UNCHANGED tenant

\* Only the outermost bypass on the alias clears the flag, best-effort.
BypassExit ==
    LET f == Top
        c == IF f.level = 0 /\ Usable(conn[f.alias])
             THEN [conn[f.alias] EXCEPT !.flag = FALSE] ELSE conn[f.alias]
    IN  /\ Depth > 0 /\ f.kind = "bypass"
        /\ conn' = [conn EXCEPT ![f.alias] = IF f.alias \in f.owned THEN Idle ELSE c]
        /\ depth' = [depth EXCEPT ![f.alias] = f.level]
        /\ frames' = Pop
        /\ UNCHANGED tenant

-----------------------------------------------------------------------------
(* Django's transactions as the bodies use them *)

\* transaction.atomic(): the outermost block on an alias begins a
\* transaction, an inner one sets a savepoint (which an aborted
\* transaction refuses).
AtomicEnter(a) ==
    LET own == {a} \ {b \in Aliases : conn[b].inTx} IN
    /\ Depth < MaxDepth
    /\ a \in Configured
    /\ ~conn[a].aborted
    /\ conn' = [conn EXCEPT ![a] = Begin(@)]
    /\ Push("atomic", tenant, own, a)
    /\ UNCHANGED <<tenant, depth>>

\* Leaving it: the outermost block commits or rolls back, which ends the
\* transaction; a savepoint is rolled back when the block raised or its
\* transaction is aborted, else released.
AtomicExit(raised) ==
    LET f == Top
        c == conn[f.alias]
    IN  /\ Depth > 0 /\ f.kind = "atomic"
        /\ conn' = [conn EXCEPT ![f.alias] =
                       IF f.alias \in f.owned THEN Idle
                       ELSE IF raised \/ c.aborted
                            THEN [c EXCEPT !.aborted = FALSE, !.var = f.savedVar,
                                           !.flag = f.savedFlag]
                            ELSE c]
        /\ frames' = Pop
        /\ UNCHANGED <<tenant, depth>>

\* A statement of the body raises: PostgreSQL aborts the transaction, and
\* Django marks one of any vendor, until it or a savepoint in it is rolled
\* back.
SqlError(a) ==
    /\ a \in FailingAliases
    /\ Usable(conn[a])
    /\ conn' = [conn EXCEPT ![a].aborted = TRUE]
    /\ UNCHANGED <<tenant, depth, frames>>

-----------------------------------------------------------------------------
Init ==
    /\ tenant = NoTenant
    /\ depth = [a \in Aliases |-> 0]
    /\ frames = <<>>
    /\ conn = [a \in Aliases |-> Idle]

Next ==
    \/ \E t \in Scope : UsingEnter(t)
    \/ \E t \in Scope : UsingRaises(t)
    \/ UsingExit
    \/ \E t \in Tenants : HandlerEnter(t)
    \/ \E t \in Tenants : HandlerRaises(t)
    \/ HandlerExit
    \/ BareEnter
    \/ BareExit
    \/ \E a \in Aliases : BypassEnter(a)
    \/ BypassExit
    \/ \E a \in Aliases : AtomicEnter(a)
    \/ \E raised \in BOOLEAN : AtomicExit(raised)
    \/ \E a \in Aliases : SqlError(a)

Spec == Init /\ [][Next]_vars

-----------------------------------------------------------------------------
(* Properties *)

\* The variables of the worker have their types: in particular every scope's
\* token names a tenant or None and no bypass depth goes below zero.
TypeOK ==
    /\ tenant \in Scope
    /\ depth \in [Aliases -> Nat]
    /\ frames \in Seq(Frame)
    /\ Len(frames) <= MaxDepth
    /\ conn \in [Aliases -> Connection]

\* A worker that has left its last scope carries nothing over to the next
\* request or task that reuses its thread and its pooled connections: no
\* tenant, no bypass, no open transaction, no session variable (the
\* finally blocks of using(), clear() and admin_bypass()).
NothingOutlivesTheLastScope ==
    frames = <<>> =>
        /\ tenant = NoTenant
        /\ \A a \in Aliases : conn[a] = Idle /\ depth[a] = 0

\* On an alias the active tenant uses, a statement that can run at all runs
\* under the active tenant's session variable or under none.
ScopeAgrees(a) ==
    tenant # NoTenant /\ a \in TargetAliases(tenant) /\ Usable(conn[a])
        => conn[a].var \in {NoTenant, tenant}

\* set() writes "default" before the regional alias and undoes only the
\* ContextVar, so "default" is exposed to a half-done set() when the
\* transaction of some tenant's regional alias can be aborted.
DefaultExposed ==
    SetDbSessionVar /\ \E t \in Tenants : RegionalAlias(t) \cap FailingAliases # {}

\* The aliases whose variable a half-done set() cannot spoil.
Guarded == Aliases \ {b \in {Default} : DefaultExposed}

\* Row-level security never evaluates another tenant's id: on every alias the
\* active tenant uses (on "default" unless it is exposed as above) nesting,
\* errors, savepoint rollbacks and aborted transactions leave the session
\* variable of the active tenant or none (TenantContext.using/set/clear).
NoForeignScope == \A a \in Guarded : ScopeAgrees(a)

\* The same for every alias, what docs/explanation/isolation-layers.md says of
\* a context that "drives" both layers: the half-done set() breaks it.
ScopeAgreesEverywhere == \A a \in Aliases : ScopeAgrees(a)

\* A usable session variable names the tenant of a scope that is still open:
\* using() and clear() never leave a connection carrying a tenant whose
\* scope is gone.
NoOrphanedScope ==
    \A a \in Guarded :
        Usable(conn[a]) /\ conn[a].var # NoTenant =>
            \E i \in DOMAIN frames : frames[i].tenant = conn[a].var

\* The innermost scope that set the tenant, 0 when there is none.
Setter == LET S == {i \in DOMAIN frames : frames[i].kind \in {"using", "handler"}}
          IN  IF S = {} THEN 0 ELSE CHOOSE i \in S : \A j \in S : j <= i

\* Inside a scope the active tenant is in force on its aliases: each is in
\* a transaction, and unless that is aborted its variable is the tenant's.
InForce(as) ==
    \A a \in as \cap Postgres :
        conn[a].inTx /\ (Usable(conn[a]) => conn[a].var = tenant)

\* The aliases a kind of scope puts its tenant in force on: the handlers
\* open a transaction on "default" only.
Covers(kind) == Guarded \cap IF kind = "using" THEN TargetAliases(tenant) ELSE {Default}

\* The body of using(t) always runs under t on every PostgreSQL alias of t
\* (its docstring: "the body always runs under the tenant it just set"), and
\* a request or task body under its tenant on "default", also after nested
\* scopes have come and gone, failed or been rolled back
\* (TenantMiddleware, tenant_task; BOUNDARY_WRAP_ATOMIC on).
BodyIsInForce ==
    WrapAtomic /\ SetDbSessionVar /\ tenant # NoTenant /\ Setter > 0
        => InForce(Covers(frames[Setter].kind))

\* The same on every alias of the tenant, as TenantContext.set()'s docstring
\* requires of the regional connection.
HandlerIsInForce ==
    /\ WrapAtomic /\ SetDbSessionVar /\ tenant # NoTenant
    /\ Setter > 0 /\ frames[Setter].kind = "handler"
    => InForce(TargetAliases(tenant))

\* Scope i is an admin_bypass() on the alias; some open scope is.
BypassAt(i, a) == frames[i].kind = "bypass" /\ frames[i].alias = a
OpenBypass(a) == \E i \in DOMAIN frames : BypassAt(i, a)

\* The admin flag is up on a usable connection exactly while an admin_bypass()
\* on that alias is open: an inner exit does not end the outer bypass, and
\* neither errors nor rollbacks leave the flag behind or lose it.
BypassIffOpen ==
    \A a \in Postgres :
        Usable(conn[a]) => (conn[a].flag <=> OpenBypass(a))

-----------------------------------------------------------------------------
(* The abstract specification *)

\* What row-level security evaluates on an alias: nothing when no statement
\* can run, or when no transaction keeps the variable.
Evaluates(a) == IF Usable(conn[a]) THEN conn[a].var ELSE NoTenant

Scopes == INSTANCE TenantScopes WITH
    Aliases <- Guarded,
    Reaches <- [t \in Tenants |-> TargetAliases(t)],
    scopes <- [i \in DOMAIN frames |-> frames[i].tenant],
    active <- tenant,
    sees <- [a \in Guarded |-> Evaluates(a)]

\* Tokens, transactions, savepoints, bypasses and failing statements together
\* amount to a stack of tenants: each scope entered makes its tenant the
\* active one, each scope left brings back the tenant outside it, and at
\* every moment row-level security evaluates the active tenant or nothing.
ImplementsScopes == Scopes!Spec

-----------------------------------------------------------------------------
(* What the proofs of these properties rest on *)

\* The tenant in force just outside scope i.
Outside(i) == IF i = 1 THEN NoTenant ELSE frames[i - 1].tenant

\* The tokens chain: leaving every scope in turn leads back to None.
TokensChain ==
    /\ tenant = IF frames = <<>> THEN NoTenant ELSE frames[Len(frames)].tenant
    /\ \A i \in DOMAIN frames :
          /\ frames[i].prev = Outside(i)
          /\ frames[i].kind \in {"bare", "bypass", "atomic"} => frames[i].tenant = frames[i].prev

\* Each open transaction belongs to exactly one scope, and a scope that
\* works in a transaction is not outside the scope that opened it.
OneOwner ==
    /\ \A a \in Aliases : conn[a].inTx <=> \E i \in DOMAIN frames : a \in frames[i].owned
    /\ \A i, j \in DOMAIN frames : i # j => frames[i].owned \cap frames[j].owned = {}
    /\ \A i \in DOMAIN frames : frames[i].kind \in {"bypass", "atomic"} =>
          /\ \E j \in 1..i : frames[i].alias \in frames[j].owned
          /\ frames[i].owned \subseteq {frames[i].alias}

\* Nothing is set on a connection outside a transaction, only failing
\* aliases abort, and the variable is only written where it may be.
ConnectionsClean ==
    \A a \in Aliases :
        /\ ~conn[a].inTx => conn[a] = Idle
        /\ conn[a].aborted => a \in FailingAliases
        /\ conn[a].var # NoTenant => WritesVar(a)

\* Rolling back to a savepoint brings back a variable that agrees with the
\* tenant then active, and the flag of the bypasses then open.
SavepointsAgree ==
    \A i \in DOMAIN frames : frames[i].kind = "atomic" =>
        LET f == frames[i] IN
        /\ f.savedVar # NoTenant => WritesVar(f.alias)
        /\ f.tenant # NoTenant /\ f.alias \in TargetAliases(f.tenant)
           /\ ~(f.alias = Default /\ DefaultExposed)
               => f.savedVar \in {NoTenant, f.tenant}
        /\ f.alias \in Postgres => (f.savedFlag <=> \E j \in 1..(i - 1) : BypassAt(j, f.alias))

\* The depth counter is zero exactly when no bypass is open on the alias,
\* and a bypass found it zero exactly when it is the outermost one.
DepthCounts ==
    \A a \in Aliases :
        /\ depth[a] = 0 <=> ~\E i \in DOMAIN frames : BypassAt(i, a)
        /\ \A i \in DOMAIN frames : BypassAt(i, a) =>
              (frames[i].level = 0 <=> ~\E j \in 1..(i - 1) : BypassAt(j, a))

\* A variable in force, or one a savepoint would bring back, is that of a
\* scope open around it, and on one of that scope's aliases.
HasScope(a, t, n) ==
    a \in TargetAliases(t) /\ \E i \in 1..n : frames[i].tenant = t
VariablesHaveScopes ==
    \A a \in Guarded :
        /\ Usable(conn[a]) /\ conn[a].var # NoTenant => HasScope(a, conn[a].var, Len(frames))
        /\ \A i \in DOMAIN frames : LET f == frames[i] IN
              f.kind = "atomic" /\ f.alias = a /\ f.savedVar # NoTenant =>
                  HasScope(a, f.savedVar, i - 1)

\* The inductive invariant.
IInv ==
    /\ TypeOK
    /\ TokensChain
    /\ OneOwner
    /\ ConnectionsClean
    /\ SavepointsAgree
    /\ DepthCounts
    /\ NoForeignScope
    /\ BypassIffOpen
=============================================================================
