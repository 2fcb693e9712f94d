---------------------------- MODULE OrmIsolation ----------------------------
(***************************************************************************)
(* The ORM layer (boundary/models.py) on its own, as on a database without *)
(* row-level security: the two managers, save(), the validation of foreign *)
(* keys and per-tenant uniqueness, for one model with a tenant column.     *)
(*                                                                         *)
(* Workers share the table and, as module-level Python objects are shared, *)
(* a defaults dictionary. Each holds at most one model instance, which     *)
(* outlives changes of its tenant context. get_or_create() takes several   *)
(* statements and other workers act between them; every other write is one *)
(* statement after checks that only read what the worker itself holds.     *)
(***************************************************************************)
EXTENDS Naturals, Sequences

CONSTANTS
    Workers, Tenants, Keys,
    None,           \* Python's None and SQL's NULL
    MaxRows,        \* bound: primary keys the sequence gives out
    Nullable,       \* make_tenant_mixin(null=..)
    Strict,         \* BOUNDARY_STRICT_MODE
    Declared,       \* the author's fields in tenant_unique()
    SharedDefaults, \* callers pass one and the same defaults dictionary
    Forms           \* full_clean() leaves the tenant field out, as ModelForm does

ASSUME OrmAssumption ==
    /\ None \notin Tenants \cup Keys
    /\ MaxRows \in Nat
    /\ Declared \in Seq({"tenant", "key"}) /\ Declared # <<>>

VARIABLES
    ctx,     \* TenantContext.get(), per worker
    rows,    \* the table
    serial,  \* the last primary key given out
    work,    \* what each worker is doing
    shared   \* the tenant in the shared defaults dictionary

vars == <<ctx, rows, serial, work, shared>>

-----------------------------------------------------------------------------
Scope == Tenants \cup {None}
Ids == 1..MaxRows
Row == [tenant : Scope, key : Keys]
Absent == [tenant |-> None, key |-> None]

\* A model instance; pk 0 is unsaved, skip is _boundary_skip_auto_populate,
\* and clean is history: the tenant of the row it was found to refer to by
\* full_clean().
Instance == [pk : 0..MaxRows, tenant : Scope, key : Keys, skip : BOOLEAN, clean : Scope]

\* A call of get_or_create(), or of update_or_create(): the tenant in the
\* lookup and the one in the defaults.
Call == [key : Keys, tenant : Tenants, default : Scope, update : BOOLEAN]

Idle == [pc |-> "idle"]
Holding(o) == [pc |-> "held", obj |-> o]
Calling(pc, c) == [pc |-> pc, call |-> c]

Holds(w) == work[w].pc = "held"
Obj(w) == work[w].obj
Free(w) == work[w].pc \in {"idle", "held"}
Present == {id \in Ids : rows[id] # Absent}

-----------------------------------------------------------------------------
(* Uniqueness and visibility *)

\* Mutant: the tenant column is not prepended.
ResolveNothing(fields, column) == fields

\* TenantUniqueConstraint._resolve(): the tenant column is prepended once; a
\* constraint that came out of a migration's state has it already.
Resolve(fields, column) ==
    IF fields # Declared THEN fields ELSE <<column>> \o Declared

\* The constraint as the table has it: resolved for the class, cloned into
\* the migration state, and resolved for the rendered class again.
UniqueFields == Resolve(Resolve(Declared, "tenant"), "tenant")

\* NULLs are distinct.
Clash(r, s) ==
    \A i \in DOMAIN UniqueFields :
        LET f == UniqueFields[i] IN r[f] = s[f] /\ r[f] # None

Accepted(id, r) ==
    /\ r.tenant = None => Nullable
    /\ \A other \in Present \ {id} : ~Clash(rows[other], r)

\* TenantManager.get_queryset(): the rows it yields. Without a tenant strict
\* mode raises and the other mode does not filter.
Filtered(w) ==
    {id \in Present : IF ctx[w] # None THEN rows[id].tenant = ctx[w] ELSE ~Strict}

InstanceOf(id) ==
    [pk |-> id, tenant |-> rows[id].tenant, key |-> rows[id].key,
     skip |-> FALSE, clean |-> None]

-----------------------------------------------------------------------------
(* Statements; an instance keeps what was set on it when its statement fails *)

Insert(w, o) ==
    LET id == IF o.pk = 0 THEN serial + 1 ELSE o.pk
        r  == [tenant |-> o.tenant, key |-> o.key]
    IN  /\ id \in Ids
        /\ IF rows[id] = Absent /\ Accepted(id, r)
           THEN /\ rows' = [rows EXCEPT ![id] = r]
                /\ serial' = IF o.pk = 0 THEN id ELSE serial
                /\ work' = [work EXCEPT ![w] = Holding([o EXCEPT !.pk = id, !.clean = None])]
           ELSE /\ work' = [work EXCEPT ![w] = Holding(o)]
                /\ UNCHANGED <<rows, serial>>

Update(w, o) ==
    LET r == [tenant |-> o.tenant, key |-> o.key] IN
    /\ IF Accepted(o.pk, r)
       THEN /\ rows' = [rows EXCEPT ![o.pk] = r]
            /\ work' = [work EXCEPT ![w] = Holding([o EXCEPT !.clean = None])]
       ELSE /\ work' = [work EXCEPT ![w] = Holding(o)]
            /\ UNCHANGED rows
    /\ UNCHANGED serial

\* Django saves through the base manager, which does not filter.
Write(w, o) ==
    IF o.pk \in Present THEN Update(w, o) ELSE Insert(w, o)

-----------------------------------------------------------------------------
(* Instances *)

\* The worker enters or leaves a tenant's scope.
Switch(w, t) ==
    /\ Free(w) /\ t # ctx[w]
    /\ ctx' = [ctx EXCEPT ![w] = t]
    /\ UNCHANGED <<rows, serial, work, shared>>

\* Model(pk=.., tenant=.., key=..).
Construct(w, pk, t, k) ==
    /\ Free(w) /\ pk <= serial
    /\ work' = [work EXCEPT ![w] = Holding([pk |-> pk, tenant |-> t, key |-> k,
                                            skip |-> FALSE, clean |-> None])]
    /\ UNCHANGED <<ctx, rows, serial, shared>>

\* objects.get(), and unscoped.get().
Fetch(w, id) ==
    /\ Free(w) /\ id \in Filtered(w)
    /\ work' = [work EXCEPT ![w] = Holding(InstanceOf(id))]
    /\ UNCHANGED <<ctx, rows, serial, shared>>

FetchUnscoped(w, id) ==
    /\ Free(w) /\ id \in Present
    /\ work' = [work EXCEPT ![w] = Holding(InstanceOf(id))]
    /\ UNCHANGED <<ctx, rows, serial, shared>>

\* Mutant: the reference is compared with the active tenant.
AgreesWithContext(w, ref) == rows[ref].tenant = ctx[w]

\* validate_cross_tenant_fks(), for a reference to a row that has a tenant:
\* there is nothing to compare an instance without tenant with.
Agrees(w, ref) == Obj(w).tenant \in {None, rows[ref].tenant}

\* The instance is given a reference and full_clean() accepts it, which a
\* tenant field without value does only when the field is left out.
Clean(w, ref) ==
    /\ Holds(w) /\ ref \in Present /\ rows[ref].tenant # None
    /\ Obj(w).tenant = None => Forms
    /\ Agrees(w, ref)
    /\ work' = [work EXCEPT ![w].obj.clean = rows[ref].tenant]
    /\ UNCHANGED <<ctx, rows, serial, shared>>

\* save(): auto-populated from the context unless set or skipped; require()
\* raises, with nothing changed, when there is no context.
Save(w) ==
    /\ Holds(w)
    /\ LET stamps == Obj(w).tenant = None /\ ~Obj(w).skip IN
       /\ stamps => ctx[w] # None
       /\ Write(w, IF stamps THEN [Obj(w) EXCEPT !.tenant = ctx[w]] ELSE Obj(w))
    /\ UNCHANGED <<ctx, shared>>

\* objects.bulk_create([obj]), which populates whatever has no tenant.
BulkCreate(w) ==
    /\ Holds(w) /\ ctx[w] # None
    /\ Insert(w, [Obj(w) EXCEPT !.tenant = IF @ = None THEN ctx[w] ELSE @])
    /\ UNCHANGED <<ctx, shared>>

\* Mutant: the statement goes through the base manager.
BulkUpdateUnfiltered(w) ==
    /\ Holds(w) /\ Obj(w).pk \in Present
    /\ ctx[w] # None /\ Obj(w).tenant = ctx[w]
    /\ LET r == [rows[Obj(w).pk] EXCEPT !.key = Obj(w).key] IN
       /\ Accepted(Obj(w).pk, r)
       /\ rows' = [rows EXCEPT ![Obj(w).pk] = r]
    /\ UNCHANGED <<ctx, serial, work, shared>>

\* objects.bulk_update([obj], ["key"]): what the instance says of its tenant
\* is checked, then the filtered queryset is updated.
BulkUpdate(w) ==
    /\ Holds(w) /\ Obj(w).pk \in Filtered(w)
    /\ ctx[w] # None /\ Obj(w).tenant = ctx[w]
    /\ LET r == [rows[Obj(w).pk] EXCEPT !.key = Obj(w).key] IN
       /\ Accepted(Obj(w).pk, r)
       /\ rows' = [rows EXCEPT ![Obj(w).pk] = r]
    /\ UNCHANGED <<ctx, serial, work, shared>>

\* unscoped.create(), and unscoped.bulk_create([obj]).
UnscopedCreate(w, t, k) ==
    /\ Free(w)
    /\ Insert(w, [pk |-> 0, tenant |-> t, key |-> k, skip |-> TRUE, clean |-> None])
    /\ UNCHANGED <<ctx, shared>>

UnscopedBulkCreate(w) ==
    /\ Holds(w)
    /\ Insert(w, [Obj(w) EXCEPT !.skip = TRUE])
    /\ UNCHANGED <<ctx, shared>>

\* objects.all().delete()
DeleteAll(w) ==
    /\ Free(w) /\ Filtered(w) # {}
    /\ rows' = [id \in Ids |-> IF id \in Filtered(w) THEN Absent ELSE rows[id]]
    /\ UNCHANGED <<ctx, serial, work, shared>>

-----------------------------------------------------------------------------
(* get_or_create() and update_or_create() *)

\* _inject_tenant_kwargs() writes into the dictionary it was given: a fresh
\* one each time, or one that an earlier call has already written into.
Inject(w) ==
    IF SharedDefaults /\ shared # None THEN shared ELSE ctx[w]

\* Mutant: get() in place of require().
BeginCallUnrequired(w, k, explicit, defaults, update) ==
    /\ Free(w)
    /\ work' = [work EXCEPT ![w] = Calling("get",
           [key |-> k, tenant |-> IF explicit = None THEN ctx[w] ELSE explicit,
            default |-> IF defaults THEN Inject(w) ELSE None, update |-> update])]
    /\ shared' = IF SharedDefaults /\ defaults THEN Inject(w) ELSE shared
    /\ UNCHANGED <<ctx, rows, serial>>

\* require() raises, with nothing injected, when there is no context.
BeginCall(w, k, explicit, defaults, update) ==
    /\ Free(w) /\ ctx[w] # None
    /\ work' = [work EXCEPT ![w] = Calling("get",
           [key |-> k, tenant |-> IF explicit = None THEN ctx[w] ELSE explicit,
            default |-> IF defaults THEN Inject(w) ELSE None, update |-> update])]
    /\ shared' = IF SharedDefaults /\ defaults THEN Inject(w) ELSE shared
    /\ UNCHANGED <<ctx, rows, serial>>

\* Mutant: neither half of the lookup names the tenant.
MatchesAnyTenant(w, c) == {id \in Present : rows[id].key = c.key}

\* The filtered queryset, narrowed by the lookup.
Matches(w, c) ==
    {id \in Filtered(w) : rows[id].key = c.key /\ rows[id].tenant = c.tenant}

\* The row was found: it is returned, or update_or_create(), which holds a
\* lock on it, saves the defaults to it first.
Found(w, c, id) ==
    LET r == [rows[id] EXCEPT !.tenant = IF c.default = None THEN @ ELSE c.default] IN
    /\ IF ~c.update
       THEN work' = [work EXCEPT ![w] = Holding(InstanceOf(id))] /\ UNCHANGED rows
       ELSE IF Accepted(id, r)
       THEN /\ rows' = [rows EXCEPT ![id] = r]
            /\ work' = [work EXCEPT ![w] = Holding([InstanceOf(id) EXCEPT !.tenant = r.tenant])]
       ELSE work' = [work EXCEPT ![w] = Idle] /\ UNCHANGED rows
    /\ UNCHANGED <<ctx, serial, shared>>

Get(w) ==
    /\ work[w].pc = "get"
    /\ LET c == work[w].call IN
       IF Matches(w, c) = {}
       THEN /\ work' = [work EXCEPT ![w].pc = "create"]
            /\ UNCHANGED <<ctx, rows, serial, shared>>
       ELSE \E id \in Matches(w, c) : Found(w, c, id)

\* The defaults take precedence over the lookup. An IntegrityError is
\* answered with a second look.
Create(w) ==
    LET c == work[w].call
        r == [tenant |-> IF c.default = None THEN c.tenant ELSE c.default, key |-> c.key]
    IN  /\ work[w].pc = "create"
        /\ IF Accepted(serial + 1, r)
           THEN /\ serial < MaxRows
                /\ serial' = serial + 1
                /\ rows' = [rows EXCEPT ![serial'] = r]
                /\ work' = [work EXCEPT ![w] = Holding([pk |-> serial', tenant |-> r.tenant,
                                key |-> r.key, skip |-> FALSE, clean |-> None])]
           ELSE /\ work' = [work EXCEPT ![w].pc = "retry"]
                /\ UNCHANGED <<rows, serial>>
        /\ UNCHANGED <<ctx, shared>>

GetAgain(w) ==
    /\ work[w].pc = "retry"
    /\ LET c == work[w].call IN
       IF Matches(w, c) = {}
       THEN /\ work' = [work EXCEPT ![w] = Idle]
            /\ UNCHANGED <<ctx, rows, serial, shared>>
       ELSE \E id \in Matches(w, c) : Found(w, c, id)

-----------------------------------------------------------------------------
Init ==
    /\ ctx = [w \in Workers |-> None]
    /\ rows = [id \in Ids |-> Absent]
    /\ serial = 0
    /\ work = [w \in Workers |-> Idle]
    /\ shared = None

Next == \E w \in Workers :
    \/ \E t \in Scope : Switch(w, t)
    \/ \E pk \in 0..MaxRows, t \in Scope, k \in Keys : Construct(w, pk, t, k)
    \/ \E id \in Ids : Fetch(w, id)
    \/ \E id \in Ids : FetchUnscoped(w, id)
    \/ \E ref \in Ids : Clean(w, ref)
    \/ Save(w)
    \/ BulkCreate(w)
    \/ BulkUpdate(w)
    \/ \E t \in Scope, k \in Keys : UnscopedCreate(w, t, k)
    \/ UnscopedBulkCreate(w)
    \/ DeleteAll(w)
    \/ \E k \in Keys, t \in Scope, d, u \in BOOLEAN : BeginCall(w, k, t, d, u)
    \/ Get(w)
    \/ Create(w)
    \/ GetAgain(w)

Spec == Init /\ [][Next]_vars

-----------------------------------------------------------------------------
(* Properties *)

\* The variables have their types: no row has a key without being one, and no
\* instance refers beyond the sequence.
TypeOK ==
    /\ ctx \in [Workers -> Scope]
    /\ rows \in [Ids -> Row \cup {Absent}]
    /\ serial \in 0..MaxRows /\ \A id \in Present : id <= serial
    /\ shared \in Scope
    /\ \A w \in Workers :
          CASE work[w].pc = "idle" -> work[w] = Idle
            [] work[w].pc = "held" -> Obj(w) \in Instance
            [] OTHER -> work[w].pc \in {"get", "create", "retry"} /\ work[w].call \in Call

\* The worker is in get_or_create() and did not name another tenant.
ScopedCall(w) ==
    work[w].pc \in {"get", "create", "retry"} /\ work[w].call.tenant = ctx[w]

\* A write through objects that leaves the tenant to the context.
ScopedWrite(w) ==
    \/ Holds(w) /\ Obj(w).tenant = None /\ BulkCreate(w)
    \/ BulkUpdate(w)
    \/ ctx[w] # None /\ DeleteAll(w)
    \/ ScopedCall(w) /\ (Get(w) \/ Create(w) \/ GetAgain(w))

\* Whatever other workers do between its statements, and whichever tenant an
\* instance it holds comes from, a write through the default manager that
\* leaves the tenant to the context makes, changes and removes rows of the
\* active tenant only (TenantManager; _inject_tenant_kwargs()).
ScopedWritesStayHome ==
    [][\A id \in Ids : rows'[id] # rows[id] =>
          \A w \in Workers : ScopedWrite(w) =>
             {rows[id].tenant, rows'[id].tenant} \subseteq {None, ctx[w]}]_vars

\* get_or_create() and update_or_create() return a row of the active tenant,
\* on all three ways to return (found, created, found after losing a race).
CallsReturnOwnRows ==
    [][\A w \in Workers : ScopedCall(w) /\ work'[w].pc = "held" =>
          rows'[work'[w].obj.pk].tenant = ctx[w]]_vars

\* BR-ORM-015: a key is unique within a tenant, so a create is only refused
\* for a row of the tenant it is for; another tenant's key never blocks it.
KeysBlockOnlyTheirTenant ==
    [][\A w \in Workers : work[w].pc = "create" /\ work'[w].pc = "retry" =>
          \E id \in Present :
             /\ rows[id].tenant \in {work[w].call.tenant, work[w].call.default}
             /\ rows[id].key = work[w].call.key]_vars

\* BR-ORM-013: what save() writes of an instance that full_clean() accepted
\* belongs to the tenant of the row the instance refers to, though the
\* context may have changed in between.
CleanVouches ==
    [][\A id \in Ids : rows'[id] # rows[id] =>
          \A w \in Workers : Holds(w) /\ Obj(w).clean # None /\ Save(w) =>
             rows'[id].tenant = Obj(w).clean]_vars
=============================================================================
