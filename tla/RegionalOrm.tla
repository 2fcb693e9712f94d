----------------------------- MODULE RegionalOrm -----------------------------
(***************************************************************************)
(* Regional routing (boundary/routing.py), row-level security and the ORM  *)
(* together, for one worker: TenantContext decides which session variables *)
(* each connection carries, RegionalRouter which connection a statement    *)
(* runs on, and the policies what it sees there. Three kinds of model:     *)
(*   "column"   a tenant model with a tenant column and policies           *)
(*   "child"    a path-scoped model: a foreign key to a "column" row, no   *)
(*              tenant column and no policy                                *)
(*   "adopted"  a third-party model whose table was adopted: policies, and *)
(*              a tenant column the ORM does not know of                   *)
(* Each database gives out its own primary keys, so that one key names     *)
(* different rows in different regions, and the worker holds a model       *)
(* instance across changes of scope and of region.                         *)
(***************************************************************************)
EXTENDS Integers, Sequences, FiniteSets

CONSTANTS
    Tenants, NoTenant, Aliases, Default, Configured, Postgres, Regions,
    RegionOf, WrapAtomic, SetDbSessionVar, FailingAliases, MaxDepth,
    Pins,      \* keys given to specific_region()
    NoPin,     \* no override
    MaxPins,   \* bound on the number of nested specific_region() blocks
    MaxId,     \* bound: primary keys per model and database
    MaxRows    \* bound: rows at a time, and keys given out

ASSUME PinAssumption == NoPin \notin Pins /\ {MaxPins, MaxId, MaxRows} \subseteq Nat

VARIABLES
    tenant, depth, frames, conn,   \* TenantContext
    override,  \* the ContextVar _region_override
    pins,      \* the tokens of the open specific_region() blocks
    rows,      \* the rows of all databases
    serial,    \* per model and database, the last key given out
    held,      \* the instance the worker holds
    exposed    \* history: a half-done set() changed this transaction of "default"

Ctx == INSTANCE TenantContext

ASSUME ContextAssumption ==
    /\ Ctx!TenantAssumption /\ Ctx!AliasAssumption
    /\ Ctx!RegionAssumption /\ Ctx!SettingsAssumption

context == <<tenant, depth, frames, conn>>
data == <<rows, serial, held>>
vars == <<context, override, pins, data, exposed>>

-----------------------------------------------------------------------------
Scope == Tenants \cup {NoTenant}
Kinds == {"column", "child", "adopted"}
Ids == 1..MaxId

\* A row. parent is the key a child refers to; plain is history: written in a
\* tenant's scope, with no pin, no bypass and no half-done set(), and, where
\* no policy looks, from an instance that was made there.
Row == [kind : Kinds, id : Ids, at : Aliases, owner : Scope, parent : 0..MaxId, plain : BOOLEAN]

\* A model instance, id 0 if unsaved; home is history: the tenant in whose
\* unpinned scope it was made, fetched through objects and inserted.
Instance == [kind : Kinds, id : 0..MaxId, owner : Scope, parent : 0..MaxId, home : Scope]
Nothing == [kind |-> "none"]

HasPolicy(kind) == kind # "child"

\* Mutant: adopted models are routed by region as well.
RouteAll(kind) ==
    IF override # NoPin THEN (IF override \in Regions THEN override ELSE Default)
    ELSE IF tenant # NoTenant /\ RegionOf[tenant] \in Regions THEN RegionOf[tenant]
    ELSE Default

\* RegionalRouter._route(): the override comes before the question whether
\* the model is a tenant model, which an adopted one is not.
Route(kind) ==
    IF Regions = {} THEN Default
    ELSE IF override # NoPin THEN (IF override \in Regions THEN override ELSE Default)
    ELSE IF kind # "adopted" /\ tenant # NoTenant /\ RegionOf[tenant] \in Regions
         THEN RegionOf[tenant]
    ELSE Default

\* The policies of an alias: the admin flag, or the session variable.
Bypassed(a) == a \in Postgres /\ conn[a].flag
Admits(a, kind, owner) ==
    \/ ~HasPolicy(kind) \/ a \notin Postgres
    \/ Bypassed(a)
    \/ conn[a].var # NoTenant /\ conn[a].var = owner

\* Whether a statement on alias a can run, and the rows it then sees.
Runs(a) == a \in Configured /\ ~conn[a].aborted
Seen(a, kind) == {r \in rows : r.kind = kind /\ r.at = a /\ Admits(a, kind, r.owner)}

\* The tenant a row belongs to: a child's is its parent's.
OwnerOf(r) ==
    IF r.kind # "child" THEN r.owner
    ELSE LET up == {p \in rows : p.kind = "column" /\ p.at = r.at /\ p.id = r.parent}
         IN  IF up = {} THEN NoTenant ELSE (CHOOSE p \in up : TRUE).owner

\* TenantManager.get_queryset() with a tenant in context: its WHERE, or its
\* join for a child. Adopted models keep their own manager.
Filtered(a, kind) ==
    {r \in Seen(a, kind) :
        CASE kind = "adopted" -> TRUE
          [] kind = "column"  -> r.owner = tenant
          [] kind = "child"   -> OwnerOf(r) = tenant
                                 /\ \E p \in Seen(a, "column") : p.id = r.parent}

-----------------------------------------------------------------------------
(* Scopes and pins *)

\* set() has raised after "default" took the new tenant.
HalfDone == frames' = frames /\ conn'[Default].var # conn[Default].var

\* The worker enters or leaves a scope, or a statement of its own fails. The
\* session variables follow rollbacks; the rows do not: what was written or
\* deleted before one stays written or deleted.
ScopeStep ==
    /\ Ctx!Next
    /\ exposed' = (conn'[Default].inTx /\ (exposed \/ HalfDone))
    /\ UNCHANGED <<override, pins, data>>

\* specific_region(key)
PinEnter(key) ==
    /\ Len(pins) < MaxPins
    /\ override' = key
    /\ pins' = Append(pins, override)
    /\ UNCHANGED <<context, data, exposed>>

\* Mutant: the token is not reset.
PinExitKeeps ==
    /\ pins # <<>>
    /\ pins' = SubSeq(pins, 1, Len(pins) - 1)
    /\ UNCHANGED <<context, override, data, exposed>>

\* Mutant: set(token) for reset(token).
PinExitSetsToken ==
    /\ pins # <<>>
    /\ override' = [token |-> pins[Len(pins)]]
    /\ pins' = SubSeq(pins, 1, Len(pins) - 1)
    /\ UNCHANGED <<context, data, exposed>>

PinExit ==
    /\ pins # <<>>
    /\ override' = pins[Len(pins)]
    /\ pins' = SubSeq(pins, 1, Len(pins) - 1)
    /\ UNCHANGED <<context, data, exposed>>

-----------------------------------------------------------------------------
(* Instances *)

\* An adopted model does not know its tenant.
HomeFor(kind) == IF override = NoPin /\ kind # "adopted" THEN tenant ELSE NoTenant

\* Model(..): a child names a parent the worker can look up.
Construct(kind, owner, parent) ==
    /\ owner # NoTenant => kind = "column"
    /\ IF kind = "child"
       THEN /\ Runs(Route("column"))
            /\ \E p \in Filtered(Route("column"), "column") : p.id = parent
       ELSE parent = 0
    /\ held' = [kind |-> kind, id |-> 0, owner |-> owner, parent |-> parent,
                home |-> IF owner \in {NoTenant, tenant} THEN HomeFor(kind) ELSE NoTenant]
    /\ UNCHANGED <<context, override, pins, rows, serial, exposed>>

InstanceOf(r, home) ==
    [kind |-> r.kind, id |-> r.id, parent |-> r.parent, home |-> home,
     owner |-> IF r.kind = "column" THEN r.owner ELSE NoTenant]

\* objects.get(), which raises without a tenant (strict mode), and
\* unscoped.get().
Fetch(r) ==
    /\ tenant # NoTenant
    /\ Runs(Route(r.kind)) /\ r \in Filtered(Route(r.kind), r.kind)
    /\ held' = InstanceOf(r, IF OwnerOf(r) = tenant THEN HomeFor(r.kind) ELSE NoTenant)
    /\ UNCHANGED <<context, override, pins, rows, serial, exposed>>

FetchUnscoped(r) ==
    /\ Runs(Route(r.kind)) /\ r \in Seen(Route(r.kind), r.kind)
    /\ held' = InstanceOf(r, NoTenant)
    /\ UNCHANGED <<context, override, pins, rows, serial, exposed>>

-----------------------------------------------------------------------------
(* Writes *)

\* A statement fails: its transaction, if there is one, is aborted.
Fails(a) ==
    /\ conn' = [conn EXCEPT ![a].aborted = conn[a].inTx]
    /\ UNCHANGED <<tenant, depth, frames>>

\* The tenant a written row gets: save() fills a missing one from the
\* context; an adopted table's DEFAULT reads the session variable.
Stamp(o, a) ==
    CASE o.kind = "child"   -> NoTenant
      [] o.kind = "column"  -> IF o.owner = NoTenant THEN tenant ELSE o.owner
      [] o.kind = "adopted" -> conn[a].var

ParentThere(a, o) ==
    o.kind = "child" => \E p \in rows : p.kind = "column" /\ p.at = a /\ p.id = o.parent

Written(o, id, a, owner) ==
    [kind |-> o.kind, id |-> id, at |-> a, owner |-> owner, parent |-> o.parent,
     plain |-> /\ override = NoPin /\ tenant # NoTenant /\ ~Bypassed(a) /\ ~exposed
               /\ HasPolicy(o.kind) \/ o.home = tenant]

\* save() of an instance with a key: UPDATE, of the row with that key on the
\* routed alias. An adopted row keeps its tenant.
UpdateRow(o, a, old) ==
    LET new == Written(o, o.id, a, IF o.kind = "adopted" THEN old.owner ELSE Stamp(o, a)) IN
    IF Admits(a, o.kind, new.owner) /\ ParentThere(a, o)
    THEN /\ rows' = (rows \ {old}) \cup {[new EXCEPT !.plain = @ /\ old.plain]}
         /\ held' = [o EXCEPT !.owner = IF o.kind = "column" THEN new.owner ELSE @]
         /\ UNCHANGED <<serial, context>>
    ELSE Fails(a) /\ UNCHANGED data

\* Bounds on the rows there are and on the keys given out.
Room(id) ==
    /\ Cardinality(rows) < MaxRows
    /\ id = 0 => Cardinality({g \in Kinds \X Aliases \X Ids : g[3] <= serial[g[1]][g[2]]}) < MaxRows

\* The INSERT, with the next key of its database unless the instance has one.
InsertRow(o, a) ==
    LET id == IF o.id = 0 THEN serial[o.kind][a] + 1 ELSE o.id
        new == Written(o, id, a, Stamp(o, a))
        free == ~\E r \in rows : r.kind = o.kind /\ r.at = a /\ r.id = id
    IN  /\ id <= MaxId /\ Room(o.id)
        /\ IF free /\ (HasPolicy(o.kind) => new.owner # NoTenant)
              /\ Admits(a, o.kind, new.owner) /\ ParentThere(a, o)
           THEN /\ rows' = rows \cup {new}
                /\ serial' = IF o.id = 0 THEN [serial EXCEPT ![o.kind][a] = id] ELSE serial
                /\ held' = [o EXCEPT !.id = id, !.owner = IF o.kind = "column" THEN new.owner ELSE @,
                                     !.home = IF @ = HomeFor(o.kind) THEN @ ELSE NoTenant]
                /\ UNCHANGED context
           ELSE Fails(a) /\ UNCHANGED data

\* save(): the router is asked again, whichever database the instance came
\* from; UPDATE what is visible, else INSERT. Without a tenant to fill in
\* TenantNotSetError is raised before any statement.
Save ==
    LET a == Route(held.kind)
        old == {r \in Seen(a, held.kind) : r.id = held.id}
    IN  /\ held # Nothing
        /\ held.kind = "column" /\ held.owner = NoTenant => tenant # NoTenant
        /\ Runs(a)
        /\ IF old = {} THEN InsertRow(held, a) ELSE \E r \in old : UpdateRow(held, a, r)
        /\ UNCHANGED <<override, pins, exposed>>

\* instance.delete(): Django deletes the children it finds on the routed
\* alias, then the row the policies let it see.
Delete ==
    LET a == Route(held.kind)
        children == {r \in rows : /\ held.kind = "column" /\ r.kind = "child"
                                  /\ r.at = a /\ r.parent = held.id}
        own == {r \in Seen(a, held.kind) : r.id = held.id}
    IN  /\ held # Nothing /\ held.id # 0
        /\ Runs(a)
        /\ rows' = rows \ (children \cup own)
        /\ held' = Nothing
        /\ UNCHANGED <<context, override, pins, serial, exposed>>

-----------------------------------------------------------------------------
Init ==
    /\ Ctx!Init
    /\ override = NoPin
    /\ pins = <<>>
    /\ rows = {}
    /\ serial = [k \in Kinds |-> [a \in Aliases |-> 0]]
    /\ held = Nothing
    /\ exposed = FALSE

Next ==
    \/ ScopeStep
    \/ \E key \in Pins : PinEnter(key)
    \/ PinExit
    \/ \E k \in Kinds, t \in Scope, p \in 0..MaxId : Construct(k, t, p)
    \/ \E r \in rows : Fetch(r)
    \/ \E r \in rows : FetchUnscoped(r)
    \/ Save
    \/ Delete

Spec == Init /\ [][Next]_vars

-----------------------------------------------------------------------------
(* Properties *)

\* The variables have their types: in particular what specific_region() leaves
\* in its ContextVar is a key or no override (routing.py:176-181).
TypeOK ==
    /\ Ctx!TypeOK
    /\ override \in Pins \cup {NoPin}
    /\ pins \in Seq(Pins \cup {NoPin}) /\ Len(pins) <= MaxPins
    /\ rows \subseteq Row
    /\ serial \in [Kinds -> [Aliases -> 0..MaxId]]
    /\ held \in Instance \cup {Nothing}
    /\ exposed \in BOOLEAN

\* A tenant is active, and neither a pin nor a half-done set() is in force.
PlainScope == tenant # NoTenant /\ pins = <<>> /\ ~exposed

\* Wherever the router sends a statement while a tenant is active, the
\* policies on that connection show it that tenant's rows and no other's,
\* also to the unscoped manager, whatever scopes, regions and pins came
\* before (RegionalRouter._route against TenantContext._target_aliases).
ReadsStayHome ==
    PlainScope => \A k \in {"column", "adopted"} :
        LET a == Route(k) IN
        Runs(a) /\ ~Bypassed(a) => \A r \in Seen(a, k) : r.owner = tenant

\* Where a tenant's rows of a kind belong.
HomeIn(t, k) == IF k # "adopted" /\ RegionOf[t] \in Regions THEN RegionOf[t] ELSE Default
HomeOf(k) == HomeIn(tenant, k)

\* Data residency: what a write changes while a tenant is active is that
\* tenant's and lies in that tenant's region, though the instance written may
\* have been fetched in another tenant's scope or from another database. A
\* path-scoped model has no policy to see to it: there it holds of instances
\* that were made in the same tenant's scope.
ChangesStayHome ==
    [][PlainScope =>
         \A r \in (rows \cup rows') \ (rows \cap rows') :
            ~Bypassed(r.at) /\ (HasPolicy(r.kind) \/ held.home = tenant) =>
               /\ r.at = HomeOf(r.kind)
               /\ IF r \in rows THEN OwnerOf(r) = tenant ELSE (OwnerOf(r))' = tenant]_rows

\* docs/how-to/deploy-multi-region.md: "non-tenant models always use
\* default", and so the router's own docstring; inside specific_region()
\* they do not.
NonTenantStaysOnDefault == Route("adopted") = Default

\* The innermost scope that set the tenant is a using().
InUsing == Ctx!Setter > 0 /\ frames[Ctx!Setter].kind = "using"

\* Neither the row nor the row it belongs to was written otherwise.
Plain(r) ==
    r.plain /\ (r.kind = "child" =>
        \A p \in rows : p.kind = "column" /\ p.at = r.at /\ p.id = r.parent => p.plain)

\* The body of using() finds all its tenant has written through the default
\* manager in any earlier scope: the region, the session variables and the
\* filter agree from one scope to the next.
UsingFindsItsRows ==
    PlainScope /\ InUsing /\ WrapAtomic /\ SetDbSessionVar =>
        \A r \in rows : Plain(r) /\ OwnerOf(r) = tenant /\ Runs(Route(r.kind)) =>
            r \in Filtered(Route(r.kind), r.kind)

-----------------------------------------------------------------------------
(* What the proofs of these properties rest on *)

\* Leaving the outermost specific_region() leads back to no override.
PinsChain == IF pins = <<>> THEN override = NoPin ELSE pins[1] = NoPin

\* The keys an instance carries lead, in the region of the tenant in whose
\* scope it was made, to that tenant's rows: its own key, a child's reference
\* to its parent, and the reference the database has in that child's place.
LeadsHome(o, rs) ==
    LET t == o.home
        Rows(k, i) == {r \in rs : r.kind = k /\ r.at = HomeIn(t, k) /\ r.id = i}
    IN  /\ t \in Tenants /\ o.kind # "adopted"
        /\ o.kind = "column" =>
              /\ o.owner = t \/ (o.owner = NoTenant /\ o.id = 0)
              /\ \A p \in Rows("column", o.id) : p.owner = t
        /\ o.kind = "child" =>
              /\ \A p \in Rows("column", o.parent) : p.owner = t
              /\ \A r \in Rows("child", o.id) : \A p \in Rows("column", r.parent) : p.owner = t
HeldHome == held # Nothing /\ held.home # NoTenant => LeadsHome(held, rows)

\* A row that was written plainly is its tenant's and lies where it belongs.
RowsHome ==
    \A r \in rows : r.plain /\ HasPolicy(r.kind) =>
        r.owner \in Tenants /\ r.at = HomeIn(r.owner, r.kind)
=============================================================================
