# TLA+ models of django-boundary

django-boundary gives a Django project row-level multi-tenancy: a tenant is
resolved per request, kept in a context variable, copied into PostgreSQL session
variables that row-level security (RLS) policies read, and used by the ORM to
filter and stamp rows. This directory holds TLA+ modules of the parts of the
library where the order of steps matters, TLC configurations that check them on
small deployments, and TLAPS proofs of the main results.

Paths below are relative to `src/boundary/` of the repository unless they start
with `docs/` or are `README.md`.

## 1. The system

| Component | State | Operations | Talks to |
|---|---|---|---|
| Tenant context (`context.py`) | ContextVars `_current_tenant`, `_admin_bypass_depth`; per connection `app.current_tenant_id` and `app.boundary_admin`, both transaction-local | `set`, `clear(token)`, `using`, `tenant_scoped`, `admin_bypass` | every database alias of the active tenant |
| Middleware (`middleware.py`) | none of its own | resolve, reject, open a transaction, set, call the view, clear | resolvers, context |
| Celery (`celery.py`) | task headers | dispatch stamps a header; the worker restores the context | context |
| Resolvers (`resolvers.py`, signals in `apps.py`) | process-wide `_cache` with time-to-live and capacity, `_cache_lock` | `resolve` of each resolver, `_cache_get/_set/_invalidate` | tenant table, `post_save`/`post_delete` |
| Regional routing (`routing.py`) | override ContextVar | `db_for_read/write`, `allow_relation`, `specific_region`, `all_regions` | context |
| ORM layer (`models.py`) | none of its own, but instances outlive contexts | managers, `save`, bulk operations, FK validation | context, routing |
| Provision / deprovision (`management/commands`) | export file | create; count, export, delete, delete tenant | routing, `admin_bypass` |
| Adoption (`migrations_ops.py`, `adoption.py`) | the schema of third-party tables | `AdoptTenantApp` forwards and backwards | Django's migration executor |
| RLS operations (`migrations_ops.py`) | the schema of own tables | `EnableRLS`, `CreateTenantPolicy`, `DropTenantPolicy`, forwards and backwards | Django's migration executor, router |
| Per-tenant commands (`boundary_run*`) | process pool, results | run a command in `using()` | context |
| System checks (`checks.py`), `assert_rls_enforced` (`testing.py`) | none | read catalogue, roles and settings | schema |
| Settings, signals, exceptions | none | accessors | all |

What is hard here, and where tests hardly reach:

* **Two layers that must agree.** ORM filtering reads a ContextVar; RLS reads
  session variables on one or more connections. They are changed one after the
  other, any connection may refuse, and the variables follow transactions and
  savepoints while the ContextVar follows the call stack.
* **Reads outside locks.** The resolver cache locks each access but not the
  database read between them; `AdoptTenantApp` and `boundary_deprovision` plan
  from counts taken before they act.
* **Partial failure and reruns.** The commands run in autocommit, migrations may,
  and both are meant to be run again.
* **Depth.** Scopes of five kinds nest freely, and pins of a region beside them.
* **Work that leaves the process.** A task's tenant travels in a message that is
  late, sent twice or lost; the pool of `boundary_run_all` is killed in the middle.
* **Guards that read what others change.** The system checks decide from the
  catalogue, roles and settings whether RLS protects anything; all of these change
  after the migrations have run.

The list, with source lines and the properties aimed at each item, is under
`hazards` in `PROJECT.json`.

What makes each part correct:

* context: RLS never evaluates a tenant other than the active one, the body of
  a scope runs under its tenant, a bypass is up exactly while it is open, and a
  worker leaves nothing behind for the next request;
* ORM: writes that leave the tenant to the context go to rows of the active tenant,
  keys of one tenant do not block another, and what validation accepted is what
  is saved;
* resolvers: a request is answered with a tenant that answers to what it asked, the
  cache is bounded in size and in age, and writes of the same process are seen;
* deprovisioning: all of the tenant's rows go, no other row does, what goes is in
  the export, and a killed run can be repeated;
* adoption: a table is adopted wholly or not at all, old rows get the declared
  owner, keys stay unique, and reversal restores the table;
* routing: what is read and changed under a tenant is that tenant's and in its
  region, and it is found again in the next scope;
* tasks and commands: each runs for the tenant it was sent for, each tenant has one
  result, and everything settles;
* checks: when they report nothing, the tables they look at isolate tenants.

## 2. Modules

| Module | Models | Builds on | Instance | Theorems |
|---|---|---|---|---|
| `TenantScopes` | the promise of `context.py`: a stack of tenants | | | |
| `TenantContext` | `context.py`, the scope part of `middleware.py` and `celery.py` | implements `TenantScopes` | `MCTenantContext` | `TenantContextProofs` |
| `RegionalOrm` | `routing.py`, and `models.py` for three kinds of model over RLS | `TenantContext` | `MCRegionalOrm` | `RegionalOrmProofs` |
| `OrmIsolation` | `models.py` for models with a tenant column, without RLS | | `MCOrmIsolation` | `OrmIsolationProofs` |
| `ResolverCache` | `resolvers.py`, `apps.py`, the resolution part of `middleware.py` | | `MCResolverCache` | `ResolverCacheProofs` |
| `TenantJobs` | the dispatch part of `celery.py`, `boundary_run_all.py`, `boundary_run.py` | | `MCTenantJobs` | `TenantJobsProofs` |
| `TenantLifecycle` | `boundary_provision.py`, `boundary_deprovision.py`, routing as they use it | | `MCTenantLifecycle` | `TenantLifecycleProofs` |
| `AdoptTenantApp` | `AdoptTenantApp` of `migrations_ops.py`, catalogue queries of `adoption.py` | | `MCAdoptTenantApp` | `AdoptTenantAppProofs` |
| `RlsGuards` | the other operations of `migrations_ops.py`, the catalogue checks of `checks.py`, the test role of `testing.py` | | `MCRlsGuards` | `RlsGuardsProofs` |

Operators whose comment starts with "Mutant" are deliberately broken variants of
the definition that follows them. No specification uses them; `PROJECT.json` says
which property each one must violate when it takes the place of the original, so
that every checked property is known to be able to fail.

### TenantScopes

Three variables: the tenants of the open scopes, the active tenant, and what RLS
evaluates on each alias. `Enter` and `Exit` are the only ways the active tenant
changes; what an alias evaluates may change at any step, but never to a tenant
without open scope, nor on an alias of the active tenant to another one.
`TenantContext!ImplementsScopes` is this specification under the mapping that
forgets tokens, transactions, savepoints and failures: `scopes` are the tenants of
`frames`, `active` is the ContextVar, `sees` the variable of a usable connection.

### TenantContext

One worker: a thread with its own contextvars and its own connections.

| Variable | Code |
|---|---|
| `tenant` | `_current_tenant` |
| `depth` | `_admin_bypass_depth`, per alias |
| `frames` | the open `with` blocks and handlers: what their `finally` clauses remember (token, transactions opened, depth found, savepoint) |
| `conn` | per alias: in a transaction, aborted, the two session variables |

`UsingEnter/Raises/Exit` are `using()`; `HandlerEnter/Raises/Exit` the body of
`TenantMiddleware.__call__` and of the Celery wrappers, with `_ensure_atomic` on
"default" only; `BareEnter/Exit` a task without tenant header;
`BypassEnter/Exit` `admin_bypass()`. `AtomicEnter/Exit` and `SqlError` are what
the application does inside them: its own transactions and savepoints, and
statements that fail and abort the transaction.

Abstractions. The base alias is "default", which is what every caller passes. A
connection that was never opened behaves like one in autocommit (the code skips
the first, the second forgets the value). Scopes are left in the reverse order of
entry: `clear()` with a token out of order is not modelled, nor is a connection
lost and reopened in the middle of a scope. `using(None)` leaves the variable of
the scope around it in force, as the code does; that variable still has an open
scope, which is what `NoOrphanedScope` asks.

### RegionalOrm

`TenantContext` with its variables, and beside them `override` and `pins` (the
ContextVar and tokens of `specific_region()`), `rows` of all databases, `serial`
(each database gives out its own keys) and `held`, the instance a worker keeps
across scopes and regions. A step is one of `TenantContext` (`ScopeStep`), a pin
entered or left, or an ORM operation: `Construct`, `Fetch` and `FetchUnscoped`,
`Save`, `Delete`. `Route` is `RegionalRouter._route`, `Admits` the policies,
`Filtered` the default managers. Three kinds of model: with a tenant column, path
scoped (a child of the first, without policy), and adopted (policies, and a column
the ORM knows nothing of).

`plain`, `home` and `exposed` are history: they say of a row, an instance and a
transaction how they came about, and only properties read them. `Delete` follows
Django's collector: the children on the routed alias are deleted even when the
policies hide the parent, which a path-scoped model has no policy to prevent. Rows do
not follow rollbacks: a row written in a transaction or savepoint that is rolled back
stays, so there are more rows to read and change than there would be. `InsertRow` is
PostgreSQL's part of a create.

### ResolverCache

One server process. `req` is each thread's position in the resolver chain,
`cache` is `_cache`, `rows`/`pending` the committed and uncommitted tenant rows,
`owed` the keys saved in autocommit whose `post_save` has yet to run. Each locked
function is one step; the query between `_cache_get` and `_cache_set` is another.
`WriteInTransaction`, `EndTransaction`, `SaveAutocommit` and `PostSave` are this
process's writers, `RemoteWrite` another process's, or a `queryset.update()`. Host names, headers
and tokens are reduced to the value they yield; the header resolver's two queries
(key, then slug) are one read; `ExplicitResolver` behaves like an uncached one.
`size`, the configured cache size, is chosen once in `Init`. Without `Transactions`
tenants are written in autocommit only.

### TenantJobs

`queue` are the messages, `given` the tenant in a headers dictionary that callers
share, `work` what each Celery worker does, `rows` the state of each tenant's row.
`Dispatch` and `Subtask` are `apply_async()`; `Start` and `NotFound` the two
outcomes of `_restore_tenant_context()`; `Nest`, `Unnest`, `Retry` and `Finish` the
body; `Crash` the loss of a worker. `Delivered` may keep a message for a second
delivery. Only `TenantTask` stamps headers by itself: with `Decorated`, the tasks are
functions under `@tenant_task`, and what sends them is stamped by a
`before_task_publish` signal that calls `_get_tenant_headers()`, the wiring the docs
ask for.

`cmd`, `run` and `sess` are `boundary_run_all`: the selected tenants with their
results, the tenant each process is busy with, and the session variable of each
connection. `Select` begins a loop in the process `Main` or a pool of `Runners`. With
`Fork` the pool's processes share one connection, since `handle()` has queried the
tenants before it makes the pool. A command that returns or raises an `Exception` has a
result (`EndTenant`); one that ends in `SystemExit` (`Exit`), or whose process is
killed (`Kill`), has none: the loop is over, or the pool starts another process and
forgets the call (`Lost`). What a scope does to connections is left to
`TenantContext`. The region header, which nothing reads, is left out; `boundary_run` is
a runner with one tenant.

### TenantLifecycle

`tenantAt` and `data` are the rows of all databases, `file` the export, `cmd`
the cursor of `boundary_deprovision`. Every query of the command is a step, in
the order of `handle()`; `Crash` can come between any two and the command can be
begun again. `Insert` is the application. `destroyed` is history. Counts are
reduced to "none or some", which is all the code asks of them.

### OrmIsolation

The ORM layer alone, as on a backend without RLS. `rows` is the table of one
model, `ctx` each worker's active tenant, `work` the instance a worker holds or
the `get_or_create()` it is in. Instances outlive changes of context, as Python
objects do. `Save` is `TenantMixin.save()`, `Clean` `full_clean()` with
`validate_cross_tenant_fks()`, `BulkCreate` and `BulkUpdate` the methods of
`TenantManager`; `BeginCall`, `Get`, `Create` and `GetAgain` are the steps of
`get_or_create()` and `update_or_create()`, the last three as Django does them.
`Resolve` is what `tenant_unique()` becomes when the class, and later the
migration state, is prepared. A bulk list has one object; the column other than
key and tenant, foreign keys and signals are left out. `Model.save()` failing
leaves the stamp on the instance, as the code does.

### AdoptTenantApp

`db` holds the committed tables (tenant column, unique constraints, RLS, rows),
`work` those the migration's open transaction has altered and locked, `mig` the
two-pass operation, `applied` what Django records. `Validate` is one table of
pass one, `AddColumn`, `RewriteUniques`, `EnableRls` the three parts of pass two
for one table, `Unadopt` one table of the reverse. `Crash` kills the migration.
`Insert` and `Remove` are the application, which the migration does not stop
until its first `ALTER TABLE`. The loops go over all tables of the operation and
pass over those the router keeps away; `Stamped`, `Composite`, `Secured` and
`Stripped` are what each part makes of a table. In a non-atomic migration the
statements of one part, and of one table's reversal, are taken as one step.
Constraint names are left out.

### RlsGuards

`schema` holds, per database and table, the facts the policies and the checks are
about; `applied` and `before` which migrations of `Chain` have run and what the
tables were; `settings`, `roles` and `catalogue` what else the checks depend on.
`Migrate` and `Reverse` apply `Forwards` and `Backwards` behind the router and the
vendor gate; `Refused` are the statements PostgreSQL rejects. `Drift`,
`AlterRole`, `Redeploy` and `CatalogueBecomes` are what happens outside of
migrations. `catalogue` says of each of the `Queries` the guards ask how it ends:
answered, refused, timed out, or without a database. `Ask` is what a check makes of
one query: a failed one is W007, but `OperationalError` and `InterfaceError` are
`Skipped` in silence, timeouts among them.
`Reports` are the checks E006, E007, E008, W001, W003, W007 and W009,
`AssertionPasses` is `assert_rls_enforced()`, and `Shown` what the policies let
a role see. E006 does not look at the policies of own models; without them nothing
is shown, which is the safe side, and `SilenceMeansIsolated` holds.

## 3. Model checking

### Runs that pass

| Run | Deployment | Shows | States |
|---|---|---|---|
| `ContextScopes` | two databases, a tenant with a region and one without, five nested scopes of every kind, failing statements on "default" | the scope in force follows the nesting and nothing leaks; the worker implements the stack of tenants | 549 k |
| `RegionalOrm` | the same tenants, pins to a region and to a key that is none, an instance that outlives scopes, failing statements on the regional alias | reads and changes under a tenant stay with its rows and its region, and are found again | 3.1 M |
| `OrmWorkers` | two workers, two tenants, two keys, two rows, a nullable tenant column, no RLS | default-manager writes stay in the active tenant, whatever instances and races come along | 424 k, up to symmetry |
| `CacheThreads` | two threads, a cache of no or one entry, local and remote writers, failing queries, a clock | the cache is bounded in number, and what it answers in age | 1.9 M |
| `CacheSyncWorker` | one request at a time, four resolvers, a value that is one tenant's key and the other's slug, cache sizes 0 and 2 | without threads the signals keep the cache exact; requests are answered as they asked | 2.2 M |
| `TenantJobs` | two tasks, one retry, one repeated delivery, two tenants that come and go, a command in a loop or in a forked pool of two; workers and processes are killed, and commands end in SystemExit, at any time | tasks run for the tenant they were sent for, what the command reports is true, everything settles | 1.87 M |
| `DeprovisionCrash` | two crashes, three tables, a neighbour in a region, RLS not forced on the command's role | the command can always be repeated, ends, leaves nothing of the tenant, touches no one else, and exports all that a run which is not killed deletes | 179 k |
| `AdoptConcurrent` | three migrations, the last without a transaction and refused at its last table; one crash, two reversals, two rows by three kinds of writer | tables are wholly adopted or not at all, rows keep their owners, keys stay unique, reversal restores | 246 k |
| `RlsGuards` | two databases, an own and an adopted table, six migrations, one drift, any settings and roles; the queries of the guards all end alike, or one of them times out | when the checks are silent each table of the default database none of them skipped isolates; reversal restores | 886 k |

Why the bounds are enough to be interesting. Five scopes allow a bypass in a
savepoint in a foreign scope in a scope, and one more around them: a rollback that
brings back a value written for another tenant takes four. In `RegionalOrm` two
scopes and one pin are enough for a pin to span a scope and to be spanned by one;
one key per database makes the same key name rows of two regions, and two rows are
a parent and its child or the same key twice. Two threads and at most one cache slot
make every store compete with a read in flight and with an eviction. The clock runs to
`TTL + MaxDelay + 1`, one past the age the property allows. Two workers and two
rows let one worker lose every race of the other's `get_or_create()`; the tenants,
keys and workers of `OrmWorkers` are only compared, so it uses symmetry. Two tasks
are one and the task it dispatches; one worker takes them in every order, and the
second delivery of one can come after anything else. Two crashes let a rerun of the
deprovisioning be killed as well. In `AdoptConcurrent` each of the two rows may be
older than the adoption, come between count and `ALTER TABLE`, or after. One drift
in `RlsGuards` is any one fact a check has to notice, and one query that times out is
enough to hide it. `MaxDepth`, `MaxPins`,
`MaxId`, `MaxRows`, `MaxClock`, `MaxDelay`, `MaxCopies`, `MaxCrashes`,
`MaxReversals`, `MaxDrifts`, `Outcomes`, `JobIds` and `RowIds` are the bounds; each is a
guard of the action it limits, or the set it chooses from. `MaxRetries` is the tasks' own setting. `MaxDelay` is an
assumption too: a thread stores what it read within that many ticks. Without it no
age bound holds, because `_cache_set` stamps an entry when it is stored and not when
it was read.

Deadlock is checked for the context, the cache, `RegionalOrm` and `RlsGuards`. The
commands, migrations and tasks do end, and a create waits for ever once `MaxRows`
keys are used, so the other configurations turn it off.

Fairness. `DeprovisionCrash` and `TenantJobs` state it.

* Deprovisioning: a command that is not killed goes on (`WF` of its steps). The
  operator reruns it while the tenant exists (`WF` of `Begin`) and does not decline
  for ever (`SF` of `Confirm`: a dry run or a "no" is allowed any number of times).
  The command's documentation asks for this; the code itself does not retry. That it
  `Completes` is shown where RLS is not forced on the command's role; where it is, the
  command finds no rows to delete and PROTECT may keep the tenant for ever.
* Jobs: a worker takes messages (`WF` of `Start` or `NotFound` together), a nested
  scope ends (`WF` of `Unnest`), and a body ends (`SF` of `Finish`: it may open
  nested scopes again and again, but not for ever). The command goes on while some
  process of its can (`WF` of `CommandGoesOn`). Nothing has to be dispatched, retried,
  committed or killed.

### Disagreements: runs that end in a violation

| Run | Property | The code | The text |
|---|---|---|---|
| `ContextHandlerRegion` | `HandlerIsInForce` | Middleware and Celery open a transaction on "default" only; on the regional connection the variable ends with its statement | `context.py:182-184`: the variable "must be set there too or RLS sees no tenant" |
| `CacheRace` | `LocalSavesAreSeen` | a row read before a save is stored after its invalidation | `README.md:753`: "invalidated automatically on tenant save/delete" |
| `DeprovisionRerun` | `ExportIsACopy` | the rerun truncates the export | `boundary_deprovision.py:71-72`: the export is "the operator's only copy" |

`NoForeignScope`, `NoOrphanedScope` and `BodyIsInForce` leave "default" out exactly
when `DefaultExposed` holds, the condition under which a half-done `set()` can happen
(first line of the next table); the mapping to `TenantScopes` leaves it out too.

The modules show further disagreements when a constant of the listed run is changed,
or when it is asked for a property it does not list:

| From | Change | Property violated | Text it disagrees with |
|---|---|---|---|
| `ContextScopes` | `FailingAliases = {eu}` | `ScopeAgreesEverywhere`: the regional alias refuses after "default" has taken the new tenant; only the ContextVar is undone (`context.py:195`) | `docs/explanation/isolation-layers.md:33` "the same `TenantContext` that drives ORM filtering also drives RLS" |
| `RegionalOrm` | none | `NonTenantStaysOnDefault`: the override of `specific_region()` comes before the question whether a model is a tenant's (`routing.py:84`) | `docs/how-to/deploy-multi-region.md:26` "non-tenant models always use default" |
| `OrmWorkers` | `Forms = TRUE` | `CleanVouches`: `full_clean()` without the tenant field, as a ModelForm calls it, compares nothing when `save()` is still to fill the tenant in (`models.py:182`) | `docs/explanation/isolation-layers.md:104` "Covered: any path that calls `full_clean()`, most notably Django `ModelForm` validation" |
| `OrmWorkers` | `SharedDefaults = TRUE` | `ScopedWritesStayHome`: `get_or_create()` injects the tenant into the caller's own `defaults`; used again under another tenant, the dictionary creates or moves rows to the first one | `models.py:332-334`: injects "the active tenant" unless "the caller supplied it explicitly" |
| `CacheSyncWorker` | none | `FoundIsAnswered`: with size 0 `min()` of the empty cache raises and the tenant found is lost (`resolvers.py:41`) | `resolvers.py:69` "Must not raise" |
| `CacheSyncWorker` | `Asking("header", p2)` added to `ManyRequests` | `HitIsLookup`: a tenant found by its slug stays cached when a tenant with that key is created | `resolvers.py:160` "UUID first, slug fallback" |
| `CacheRace` | `Transactions = TRUE` | `LocalSavesAreSeen`: the signal runs before the commit, and a read in between caches the old row | `README.md:753` |
| `TenantJobs` | `SharedHeaders = TRUE` | `RunsForItsTenant`: `apply_async()` writes the tenant into the caller's own headers, where a later call without tenant finds it | `docs/how-to/run-celery-tasks-with-tenant-context.md:5` "under the same tenant that dispatched them" |
| `TenantJobs` | `RetryNested = TRUE` | `RunsForItsTenant`: `self.retry()` inside a nested `using()` sends the task to the nested tenant | the same |
| `TenantJobs` | `Chained = TRUE` | `RunsForItsTenant`: the next task of a chain is sent after `clear(token)` | the same |
| `TenantJobs` | none | `GoneIsNotRetried`: `@tenant_task` raises `TenantNotFoundError` inside the function `autoretry_for` wraps, and nothing excludes it | `docs/troubleshooting.md:16` "do not retry (it is excluded from `autoretry_for`)" |
| `TenantJobs` | none | `CommandEnds`: a killed pool process takes its call with it and `starmap()` waits for it; `SystemExit` ends the loop without a result | `docs/how-to/cross-tenant-admin-operations.md:118` "A failure in one tenant does not abort the run" |
| `TenantJobs` | none | `CommandIsPerTenant`: processes forked with an open connection share its session variable | `docs/how-to/cross-tenant-admin-operations.md:94` "each inside its own tenant context" |
| `DeprovisionCrash` | `Concurrent = TRUE` | `NothingLeftBehind`: a row inserted after the count stays | `boundary_deprovision.py:76-78` |
| `DeprovisionCrash` | `RegionOf <- InRegion` | `NothingLeftBehind`: no tenant is in context, so only "default" is searched | the same |
| `DeprovisionCrash` | `RlsForced = TRUE` | `ExportTellsAll` and `Completes`: scoped reads see nothing | `docs/how-to/provision-and-deprovision-tenants.md:170` |
| `AdoptConcurrent` | `Session = t2` | `StampedAsDeclared`: a row that came after an empty probe is stamped with the session's tenant | `migrations_ops.py:640-642` |
| `AdoptConcurrent` | `atomic \|-> FALSE` in the second migration of `Upgrade` | `AppliedMeansAdopted`: a rerun takes the column for the whole adoption (`migrations_ops.py:897`) | `migrations_ops.py:648-652` |
| `AdoptConcurrent` | `Declared <- NoneDeclared` | `ReverseRestores`: constraints the model state does not declare are lost | `docs/how-to/adopt-a-third-party-app.md:295` |
| `RlsGuards` | none | `SilenceMeansIsolatedEverywhere`: the checks look at the default connection only | `checks.py:632` "Verify RLS is enabled on all tenant-scoped tables" |
| `RlsGuards` | none | `FailuresAreReported`: a timeout is an `OperationalError`, and skipped like a database that is not there (`checks.py:21`, `703`) | `checks.py:710-716` "a statement timeout, a lock [..] Report it instead of staying silent", and `9-20` |
| `RlsGuards` | `Chain <- AdoptAgain` | `ReapplyingHeals`: a table that has its column is skipped, so what drifted stays | `checks.py:1133`, hint of E007: "Re-apply the AdoptTenantApp(..) migration" |

Two more are visible in a definition: `Oldest` evicts by store time where
`docs/reference/settings.md:227` says least recently used, and `Rewritten` turns
a NULLS NOT DISTINCT constraint into a plain one where `migrations_ops.py:182-185`
says such forms are refused. That reversing a later `AdoptTenantApp` also strips
the tables of an earlier one is documented
(`docs/how-to/adopt-a-third-party-app.md:306-312`) and modelled as it is.

## 4. Proofs

Every theorem holds for all values of the constants that meet the named assumptions
of the modules (types, None is not a tenant, "default" is configured, chains and
table lists are sequences); TLC evaluates these in every run. What a theorem assumes
beyond them is in its `ASSUME`.

| Module | Theorem | States | Beyond the module's assumptions |
|---|---|---|---|
| `TenantContextProofs` | `Invariance` | `Spec => []IInv` | |
| | `TypeCorrect` | `[]TypeOK` | |
| | `NoForeignScopeHolds` | `[]NoForeignScope` | |
| | `BypassExact` | `[]BypassIffOpen` | |
| | `NothingOutlives` | `[]NothingOutlivesTheLastScope` | |
| | `NoOrphanedScopeHolds` | `[]NoOrphanedScope` | |
| | `Refinement` | `Spec => ImplementsScopes` | |
| | `BodyHolds` | `[]BodyIsInForce` | |
| `RegionalOrmProofs` | `TypeCorrect` | `[]TypeOK` | |
| | `ReadsHold` | `[]ReadsStayHome` | `PostgresRoutes`: every configured database the router uses is PostgreSQL |
| | `UsingFinds` | `[]UsingFindsItsRows` | `PostgresRoutes` |
| | `ChangesHold` | `ChangesStayHome` | `PostgresRoutes` |
| `ResolverCacheProofs` | `CacheTypeCorrect` | `[]TypeOK` | |
| | `CacheIsBounded` | `[]CacheBounded` | |
| | `StalenessIsBounded` | `BoundedStaleness` | |
| | `RequestsAnsweredAsAsked` | `AnsweredAsAsked` | |
| | `SyncWorkerSeesSaves` | `[]LocalSavesAreSeen` | `SyncWorker`, `~Remote` |
| `TenantJobsProofs` | `JobsTypeCorrect` | `[]TypeOK` | |
| | `TasksRunForTheirTenant` | `[]RunsForItsTenant` | `Separate`: own headers, no retry from a nested scope, no chain |
| | `CommandReportsTruly` | `[]ReportIsTrue` | |
| `TenantLifecycleProofs` | `LifecycleTypeCorrect` | `[]TypeOK` | |
| | `OthersAreUntouched` | `OthersUntouched` | |
| | `TenantGoesLast` | `[]NoOrphans` | `Quiet`: the target has no region and the application does not write |
| | `NothingIsLeftBehind` | `[]NothingLeftBehind` | `Quiet` |
| `RlsGuardsProofs` | `GuardsTypeCorrect` | `[]TypeOK` | |
| | `SilenceIsolates` | `[]SilenceMeansIsolated` | |
| | `ReversalsRestore` | `ReversalRestores` | `ChainInOrder`: a table is enabled or adopted once and first, and drops find policies |
| `OrmIsolationProofs` | `TypeCorrect` | `[]TypeOK` | |
| | `ScopedWritesHold` | `ScopedWritesStayHome` | `~SharedDefaults` |
| | `CallsReturnOwn` | `CallsReturnOwnRows` | `~SharedDefaults` |
| | `KeysBlockOwn` | `KeysBlockOnlyTheirTenant` | the author's fields name the key |
| `AdoptTenantAppProofs` | `TypeCorrect` | `[]TypeOK` | |
| | `StampedHolds` | `[]StampedAsDeclared` | no tenant in the migrating session |
| | `KeysHold` | `[]KeysStayUnique` | `EveryKeyDeclared`: the model state declares what the app made unique |
| | `ReverseHolds` | `[]ReverseRestores` | `EveryKeyKnown`: the same, and no NULLS NOT DISTINCT |
| | `WholeHolds` | `[]WholeOrNothing` | `Transactional`: each operation is one transaction, or has a table that is refused |
| | `AppliedHolds` | `AppliedMeansAdopted` | `Transactional` |

Most of the extra assumptions are the ones the last section needs: drop one of
`Separate`, `Quiet`, `SyncWorker`, `SharedDefaults`, the declared keys, the sessions
without a tenant, or the transactions, and TLC finds the behaviour in the table of
disagreements. `ChainInOrder` is about the author's
migrations: a policy before EnableRLS, a table enabled twice or adopted after it was
enabled, or a drop without a policy, and reversing them leaves less or more than there
was; TLC finds each of these with a chain of two to four migrations. `PostgresRoutes`
is what the library asks of a deployment: a database of another vendor has no policies,
and there the unscoped manager sees every tenant.

**Context.** The safety properties are about the present state of the connections,
but exits bring back values from the past: the token of the ContextVar, the depth,
the transaction's end, and what ROLLBACK TO SAVEPOINT restores. `IInv` therefore
describes the whole stack:

* `TokensChain`: each scope's token is the tenant of the scope outside it, so that
  leaving one scope leads to the state the next one was entered for;
* `OneOwner`: each open transaction was opened by exactly one scope, and a savepoint
  or bypass is inside the scope that owns its transaction;
* `ConnectionsClean`: nothing is set outside a transaction, and only where the
  settings allow it;
* `SavepointsAgree`: what a savepoint remembers agrees with the tenant and the
  bypasses of its own place in the stack;
* `DepthCounts`: the counter is zero exactly when no bypass is open, and a bypass
  that found zero is the outermost one.

`PushStep` and `PopStep` show once that pushing and popping a scope keeps the parts
about the stack; each action then needs what it does to the connections.
`NothingOutlivesTheLastScope` follows from the parts: with no scope there is no
owner, hence no transaction, hence clean connections.

**Refinement.** `RInv` adds `VariablesHaveScopes`: a variable in force, and one a
savepoint would bring back, belongs to a scope open around it. With it `NoOrphanedScope`
survives an exit, and every step maps: a scope entered is `Enter`, one left is `Exit`,
everything else `Work`, with `Agrees` from `NoForeignScope` and `NoOrphanedScope`.

**The tenant in force.** That a body runs under its tenant, and not merely under no
other, asks of every exit to bring a variable back. `Covered` says of each place in the
stack on which aliases the tenant there is to be in force: those the innermost using()
or handler up to there covers. `ForceOn(G)`, of a set of aliases, says that wherever a place is covered a scope up
to there holds the transaction and a savepoint there remembers that tenant
(`PlacesCovered`), and that on G the variable on top is its own (`TopInForce`); the
theorem takes the aliases a half-done `set()` cannot spoil for G. A scope that
sets no tenant covers what the one around it does (`CoveredPlaces`), so its exit keeps
the variable; one that sets it re-applies the tenant outside, and because the
transaction belongs to a scope that remains (`OneOwner`) there is a connection to
re-apply it on.

**Regional routing.** The ORM's own failing statements abort transactions too, so the
worker's context is a `TenantContext` in which every configured alias may fail
(`Worker`), and `WorkerSteps` shows that every step of the model is one of its steps.
There "default" is exposed to a half-done `set()` throughout; `CInv` therefore tells
the present transaction of "default" apart: unless `exposed`, tenants are in force and
agree with the active one (`Agrees`) on "default" as well, and a transaction that has
ended takes what was half done along (`IdleIsClean`). `PinsChain` is the chain of
tokens once more, for pins. With these `AdmittedIsOwn`: the policies on the alias a
tenant is routed to admit its rows alone, which is `ReadsStayHome`. What is read in one
scope and written in another is the subject of the other two: `HeldHome` says where
the keys of an instance made in a tenant's scope lead, through updates, inserts into
another database and repeated primary keys, and `RowsHome` that a row written plainly
is its tenant's and in its region. `Writes` says of every successful `save()` which
rows go and which comes; `WriteHome`, `WritePlain` and `WriteStaysHome` need no more.
`HeldHome`, `PinsChain` and `RowsHome` are true of every state of `RegionalOrm`'s
instance.

**Cache.** `CInv` places each thread in the chain and says that every entry, and what
a thread is about to store, answers to its key, which names the resolver: hence an
answer, from the cache or the database, answers to what its resolver looked for
(`WhoAnswers`). The domain of the cache is finite and at most `size`: the eviction of
`_cache_set` removes one element before it adds one. `SInv`
measures age: an entry was in the table at most `MaxDelay` before its stamp, and what
a thread is about to store was when the thread read it. `FreshStays` is the heart: a
row that is superseded is superseded now, so nothing that was fresh becomes stale by
it. `WInv`, for a sync worker, says that requests are resolved only while no write is
on its way, and that an entry is the row unless its signal is owed.

**Jobs.** `HeadersTellTheOrigin` carries the tenant from dispatch to body through
queue, retries and repeated deliveries. `BooksBalance` accounts for each selected
tenant: to do, being done by one process, forgotten, or with a result, and who has "not
found" is gone and was never worked for.

**Deprovisioning.** `IInv` follows the cursor: adopted tables it has counted are
among those to delete from unless they are empty, adopted tables it has deleted from
are empty, all rows of the target are on "default", and while there are any its tenant
row is there. `OthersUntouched` does not need it: each action's own filter shows it.

**Guards.** `Guarded` (RLS and policies only on gated tables that exist) is kept by
each migration operation; `SilentQuery` says what the silence of a check means for a
query it did not skip, `SilentTable` what that says of a table, and `SilenceMeansIsolated` is a case split over roles and kinds of table.
A reversal knows only the table it finds, so `ReversalRestores` is about the whole
history: `HistoryUndoes` says of the tables now and before each applied migration what
they owe to the migrations before them (`Owed`), and that undoing a migration on the
tables after it gives those before it. `MigratedUndone` shows that an operation in its
order can be undone, and `UndoneIsTraced` that a reversal leads back along the history.

**ORM.** `IInv` says that every row, and every instance a worker holds, has a primary
key the sequence has given out, so an insert never takes over a row somebody holds.
On it rests a lemma per statement (`SaveFacts`, `FoundFacts`, `CreateFacts`, ...) that says which row it writes
or returns. `CallsKeepTheirContext` follows a call over the statements other workers
put between its own: its lookup and its defaults name the tenant its worker still has.

**Adoption.** A table has a committed version and perhaps an uncommitted one, and what
is claimed of tables is proved of every version: `Owned` of its rows, `Keyed` and
`Faithful` of its constraints. `StepKinds` reduces a step to the one version it makes,
and `StampedFacts`, `CompositeFacts`, `SecuredFacts` and `StrippedFacts` say what that is.
`Planned` ties pass two to pass one: every table is planned once and has no tenant
column until the cursor comes to its plan, so the global constraints its rows met are
those the composites replace. For wholeness three more are needed: `AInv`, every
admitted table passed has the column or a plan; `DInv`, a table with a constraint that
cannot be rewritten stays as it was, so an operation with such a table never comes to
pass two, in a transaction or not; and `WorkInStage`, what is uncommitted is adopted but
for the table under way. TLC checks each of these on `AdoptConcurrent`'s instance.

Only model-checked: liveness (`Settles`, `Completes`) and whatever needs ENABLED,
which the prover does not handle. `ExportTellsAll` (RLS not forced on the command's
role) and `CleanVouches` (no forms) are left to their runs as well: each holds in the
easier of two deployments only, and the table of disagreements shows the other. So are
the violations.

## 5. What is not modelled

* querysets that are evaluated after their context has changed;
* the one cached tenant object that threads share, and what views assign to it;
* `all_regions()`, which only reads a setting;
* `clear()` out of order, and connections lost in the middle of a scope;
* the system checks that compare settings with settings, and the test fixtures, which
  are scopes of `TenantContext`;
* settings accessors, signal and exception declarations: no state of their own;
* text: responses, output, log messages, SQL and JSON formats.

## 6. Plan

1. An abstract specification of the resolver, a lookup of bounded age, for
   `ResolverCache`.
2. `ResolverCache` and `TenantContext` composed: a request from resolution to response,
   and lazily evaluated querysets.
