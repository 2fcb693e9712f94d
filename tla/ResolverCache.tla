---------------------------- MODULE ResolverCache ----------------------------
(***************************************************************************)
(* Tenant resolution in one server process: the request threads walk the   *)
(* resolver chain of TenantMiddleware._resolve_tenant, share the cache of  *)
(* boundary/resolvers.py, and race with writers of the tenant table. A     *)
(* write of this process invalidates through the signals of apps.py; one   *)
(* of another process, or a queryset.update(), does not.                   *)
(*                                                                         *)
(* Each of _cache_get, _cache_set and _cache_invalidate holds _cache_lock  *)
(* for its whole body, so it is one step; the database read between        *)
(* _cache_get and _cache_set is not under the lock.                        *)
(***************************************************************************)
EXTENDS Integers, Sequences, FiniteSets

CONSTANTS
    Pks,         \* primary keys of the tenant table
    Slugs,       \* values of the slug column; a slug may read like a key
    None,        \* Python's None
    Threads,     \* request threads of the process
    Chain,       \* BOUNDARY_RESOLVERS
    Requests,    \* what requests carry: a lookup value, or None, per resolver
    Sizes,       \* values of BOUNDARY_RESOLVER_CACHE_SIZE
    TTL,         \* BOUNDARY_RESOLVER_CACHE_TTL, in ticks
    Required,    \* BOUNDARY_REQUIRED
    Failures,    \* whether a resolver may raise (database errors)
    Remote,      \* whether other processes write the tenant table
    SyncWorker,  \* one request at a time and no other writer thread
    Transactions,\* whether tenants are written in transactions
    MaxDelay,    \* bound: ticks between a read and the _cache_set after it
    MaxClock     \* bound: ticks of time.monotonic()

Resolvers == {"subdomain", "header", "session", "jwt"}

ASSUME ChainAssumption ==
    /\ Chain \in Seq(Resolvers)
    /\ Requests \subseteq [Resolvers -> Pks \cup Slugs \cup {None}]
    /\ None \notin Pks \cup Slugs
ASSUME CacheAssumption == Sizes \cup {TTL, MaxDelay, MaxClock} \subseteq Nat

VARIABLES
    size,     \* the configured cache size
    rows,     \* committed rows of the tenant table
    pending,  \* the uncommitted row of a key some open transaction wrote
    owed,     \* keys written in autocommit whose post_save is still to run
    cache,    \* _cache: resolver and value -> (tenant, timestamp)
    clock,    \* time.monotonic()
    req,      \* what each thread is doing
    retired   \* history: when each row content was last superseded

vars == <<size, rows, pending, owed, cache, clock, req, retired>>

-----------------------------------------------------------------------------
Row == [slug : Slugs, active : BOOLEAN]
Gone == [slug |-> None, active |-> FALSE]
\* A tenant object: the row as it was read.
Tenant == [pk : Pks, row : Row]

Keys == Resolvers \X (Pks \cup Slugs)

Idle == [pc |-> "idle", at |-> 0, ask |-> None, found |-> None, readAt |-> 0]

Present == {p \in Pks : rows[p] # Gone}
Current(t) == rows[t.pk] = t.row

\* The tenants TenantModel.objects.get() may return for a resolver: slug for
\* the subdomain, key for session and JWT, key before slug for the header.
Lookup(r, v) ==
    LET byPk == {p \in Present : p = v}
        bySlug == {p \in Present : rows[p].slug = v}
    IN  CASE r = "subdomain" -> bySlug
          [] r = "header"    -> IF byPk # {} THEN byPk ELSE bySlug
          [] OTHER           -> byPk

\* The JWT resolver does not cache.
Caches(r) == r # "jwt"

\* Mutant: one prefix for all resolvers.
KeyForValue(r, v) == <<"subdomain", v>>
\* A key names its resolver: values of two resolvers do not meet.
KeyFor(r, v) == <<r, v>>

Without(f, S) == [k \in DOMAIN f \ S |-> f[k]]
With(f, k, v) == [x \in DOMAIN f \cup {k} |-> IF x = k THEN v ELSE f[x]]

Resolver(th) == Chain[req[th].at]
Value(th) == req[th].ask[Resolver(th)]
Key(th) == KeyFor(Resolver(th), Value(th))

-----------------------------------------------------------------------------
(* The cache; each operator gives the new contents *)

\* Mutant: entries do not expire.
ExpiredNever(e) == FALSE
Expired(e) == clock - e.ts > TTL

\* _cache_get drops an expired entry.
CacheGet(k) ==
    IF k \in DOMAIN cache /\ Expired(cache[k]) THEN Without(cache, {k}) ELSE cache

Hit(k) == k \in DOMAIN cache /\ ~Expired(cache[k])

\* Mutant: off by one.
FullTooLate(k) == Cardinality(DOMAIN cache) > size /\ k \notin DOMAIN cache
Full(k) == Cardinality(DOMAIN cache) >= size /\ k \notin DOMAIN cache

\* The entries _cache_set may evict: those with the oldest timestamp.
Oldest == {k \in DOMAIN cache : \A j \in DOMAIN cache : cache[k].ts <= cache[j].ts}

\* Mutant: only the subdomain resolver's entry is removed.
CacheInvalidateSubdomain(p) ==
    Without(cache, {k \in DOMAIN cache : k[1] = "subdomain" /\ cache[k].tenant.pk = p})
\* _cache_invalidate removes a tenant's entries under every key.
CacheInvalidate(p) == Without(cache, {k \in DOMAIN cache : cache[k].tenant.pk = p})

-----------------------------------------------------------------------------
(* Requests: TenantMiddleware.__call__ and the resolvers *)

Start(th, ask) ==
    /\ req[th] = Idle
    /\ SyncWorker => pending = [p \in Pks |-> None] /\ owed = {}
    /\ req' = [req EXCEPT ![th] = [Idle EXCEPT !.pc = "lookup", !.at = 1, !.ask = ask]]
    /\ UNCHANGED <<size, rows, pending, owed, cache, clock, retired>>

\* A resolver returned None or raised: the chain goes on.
NextResolver(th) ==
    req' = [req EXCEPT ![th] = [req[th] EXCEPT !.pc = "lookup", !.at = @ + 1, !.found = None]]

\* The request is at its end, with a tenant or without.
Ended(pc, t) == [Idle EXCEPT !.pc = pc, !.found = t]

\* A resolver returned a tenant: an inactive one is rejected with a 403.
Answer(th, t) ==
    req' = [req EXCEPT ![th] = Ended(IF t.row.active THEN "served" ELSE "forbidden", t)]

\* The end of the chain: a 404, or a request without tenant.
Unresolved(th) ==
    /\ req[th].pc = "lookup" /\ req[th].at > Len(Chain)
    /\ req' = [req EXCEPT ![th] = Ended(IF Required THEN "not found" ELSE "no tenant", None)]
    /\ UNCHANGED <<size, rows, pending, owed, cache, clock, retired>>

\* The request does not carry what the resolver looks for.
Skip(th) ==
    /\ req[th].pc = "lookup" /\ req[th].at <= Len(Chain) /\ Value(th) = None
    /\ NextResolver(th)
    /\ UNCHANGED <<size, rows, pending, owed, cache, clock, retired>>

\* _cache_get: a hit answers, a miss goes to the database.
ReadCache(th) ==
    /\ req[th].pc = "lookup" /\ req[th].at <= Len(Chain) /\ Value(th) # None
    /\ LET k == Key(th)
           hit == Caches(Resolver(th)) /\ Hit(k)
       IN  /\ cache' = IF Caches(Resolver(th)) THEN CacheGet(k) ELSE cache
           /\ IF hit THEN Answer(th, cache[k].tenant)
              ELSE req' = [req EXCEPT ![th] = [req[th] EXCEPT !.pc = "query"]]
    /\ UNCHANGED <<size, rows, pending, owed, clock, retired>>

\* The database read. A row found by an uncached resolver is the answer.
Query(th) ==
    /\ req[th].pc = "query"
    /\ LET found == Lookup(Resolver(th), Value(th)) IN
       IF found = {} THEN NextResolver(th)
       ELSE \E p \in found :
            LET t == [pk |-> p, row |-> rows[p]] IN
            IF Caches(Resolver(th))
            THEN req' = [req EXCEPT ![th] = [req[th] EXCEPT !.pc = "store", !.found = t, !.readAt = clock]]
            ELSE Answer(th, t)
    /\ UNCHANGED <<size, rows, pending, owed, cache, clock, retired>>

\* The database read raises: _resolve_tenant logs and goes on.
QueryRaises(th) ==
    /\ Failures /\ req[th].pc = "query"
    /\ NextResolver(th)
    /\ UNCHANGED <<size, rows, pending, owed, cache, clock, retired>>

\* Mutant of _cache_set: the tenant's key is stored in place of the tenant.
StoreKeepsKey(th) ==
    LET k == Key(th) IN
    /\ req[th].pc = "store"
    /\ \E out \in IF Full(k) THEN {{o} : o \in Oldest} ELSE {{}} :
         cache' = With(Without(cache, out), k, [tenant |-> req[th].found.pk, ts |-> clock])
    /\ Answer(th, req[th].found)
    /\ UNCHANGED <<size, rows, pending, owed, clock, retired>>

\* _cache_set: at capacity the oldest entry makes room for a new key.
Store(th) ==
    LET k == Key(th) IN
    /\ req[th].pc = "store"
    /\ \E out \in IF Full(k) THEN {{o} : o \in Oldest} ELSE {{}} :
         cache' = With(Without(cache, out), k, [tenant |-> req[th].found, ts |-> clock])
    /\ Answer(th, req[th].found)
    /\ UNCHANGED <<size, rows, pending, owed, clock, retired>>

\* With nothing to evict, min() of the empty cache raises and the resolver's
\* answer is lost.
StoreRaises(th) ==
    /\ req[th].pc = "store" /\ Full(Key(th)) /\ cache = <<>>
    /\ NextResolver(th)
    /\ UNCHANGED <<size, rows, pending, owed, cache, clock, retired>>

Finish(th) ==
    /\ req[th].pc \in {"served", "forbidden", "not found", "no tenant"}
    /\ req' = [req EXCEPT ![th] = Idle]
    /\ UNCHANGED <<size, rows, pending, owed, cache, clock, retired>>

-----------------------------------------------------------------------------
(* Writers *)

\* The slug column is unique: a writer waits for, or fails on, another row.
SlugFree(p, r) ==
    \A q \in Pks \ {p} :
        /\ r = Gone \/ rows[q].slug # r.slug
        /\ pending[q] # None /\ r # Gone => pending[q].slug # r.slug

\* A sync worker writes only between the resolution of two requests.
MayWrite == SyncWorker => \A th \in Threads : req[th].pc \notin {"lookup", "query", "store"}

Commit(p, r) ==
    /\ rows' = [rows EXCEPT ![p] = r]
    /\ retired' = IF rows[p] \in {Gone, r} THEN retired
                  ELSE [retired EXCEPT ![[pk |-> p, row |-> rows[p]]] = clock]

\* save() or delete() in an open transaction: the signal runs at once, the
\* commit comes later. delete() sends post_delete in its own transaction.
WriteInTransaction(p, r) ==
    /\ Transactions /\ MayWrite
    /\ pending[p] = None /\ p \notin owed /\ r # rows[p] /\ SlugFree(p, r)
    /\ pending' = [pending EXCEPT ![p] = r]
    /\ cache' = CacheInvalidate(p)
    /\ UNCHANGED <<size, rows, owed, clock, req, retired>>

EndTransaction(p, committed) ==
    /\ pending[p] # None
    /\ IF committed THEN Commit(p, pending[p]) ELSE UNCHANGED <<rows, retired>>
    /\ pending' = [pending EXCEPT ![p] = None]
    /\ UNCHANGED <<size, owed, cache, clock, req>>

\* save() in autocommit: the row is committed, then post_save is sent.
SaveAutocommit(p, r) ==
    /\ MayWrite /\ pending[p] = None /\ p \notin owed
    /\ r \notin {Gone, rows[p]} /\ SlugFree(p, r)
    /\ Commit(p, r)
    /\ owed' = owed \cup {p}
    /\ UNCHANGED <<size, pending, cache, clock, req>>

\* The post_save that is owed; also TenantContext.invalidate_cache(tenant).
PostSave(p) ==
    /\ p \in owed
    /\ owed' = owed \ {p}
    /\ cache' = CacheInvalidate(p)
    /\ UNCHANGED <<size, rows, pending, clock, req, retired>>

\* A write this process hears nothing of.
RemoteWrite(p, r) ==
    /\ Remote /\ pending[p] = None /\ r # rows[p] /\ SlugFree(p, r)
    /\ Commit(p, r)
    /\ UNCHANGED <<size, pending, owed, cache, clock, req>>

\* Time passes; a thread does not sit on a row it read for over MaxDelay.
Tick ==
    /\ clock < MaxClock
    /\ \A th \in Threads : req[th].pc = "store" => clock - req[th].readAt < MaxDelay
    /\ clock' = clock + 1
    /\ UNCHANGED <<size, rows, pending, owed, cache, req, retired>>

-----------------------------------------------------------------------------
Init ==
    /\ size \in Sizes
    /\ rows \in [Pks -> {r \in Row : r.active} \cup {Gone}]
    /\ \A p, q \in Present : rows[p].slug = rows[q].slug => p = q
    /\ pending = [p \in Pks |-> None]
    /\ owed = {}
    /\ cache = <<>>
    /\ clock = 0
    /\ req = [th \in Threads |-> Idle]
    /\ retired = [t \in Tenant |-> -1]

Resolve(th) ==
    \/ Unresolved(th)
    \/ Skip(th)
    \/ ReadCache(th)
    \/ Query(th)
    \/ QueryRaises(th)
    \/ Store(th)
    \/ StoreRaises(th)

Next ==
    \/ \E th \in Threads, ask \in Requests : Start(th, ask)
    \/ \E th \in Threads : Resolve(th)
    \/ \E th \in Threads : Finish(th)
    \/ \E p \in Pks, r \in Row \cup {Gone} : WriteInTransaction(p, r)
    \/ \E p \in Pks, committed \in BOOLEAN : EndTransaction(p, committed)
    \/ \E p \in Pks, r \in Row : SaveAutocommit(p, r)
    \/ \E p \in Pks : PostSave(p)
    \/ \E p \in Pks, r \in Row \cup {Gone} : RemoteWrite(p, r)
    \/ Tick

Spec == Init /\ [][Next]_vars

-----------------------------------------------------------------------------
(* Properties *)

\* The variables have their types: a thread's cursor stays in the chain or
\* just past it, and no entry or answer is anything but a tenant.
TypeOK ==
    /\ size \in Sizes
    /\ rows \in [Pks -> Row \cup {Gone}]
    /\ pending \in [Pks -> Row \cup {Gone, None}]
    /\ owed \subseteq Pks
    /\ DOMAIN cache \subseteq Keys
    /\ \A k \in DOMAIN cache : cache[k] \in [tenant : Tenant, ts : 0..MaxClock]
    /\ clock \in 0..MaxClock
    /\ req \in [Threads ->
                [pc : {"idle", "lookup", "query", "store", "served", "forbidden",
                       "not found", "no tenant"},
                 at : 0..(Len(Chain) + 1), ask : Requests \cup {None},
                 found : Tenant \cup {None}, readAt : 0..MaxClock]]
    /\ retired \in [Tenant -> -1..MaxClock]

\* Whether the step answers thread th with a tenant.
Answers(th) ==
    /\ req[th].pc \in {"lookup", "query", "store"}
    /\ req'[th].pc \in {"served", "forbidden"}

\* The tenant answers to the value the key's resolver looked for.
AnswersTo(t, k) ==
    CASE k[1] = "subdomain" -> t.row.slug = k[2]
      [] k[1] = "header"    -> k[2] \in {t.pk, t.row.slug}
      [] OTHER              -> t.pk = k[2]

\* The cache holds at most size entries, whatever threads store at once: the
\* capacity test and the eviction of _cache_set are one locked step.
CacheBounded == Cardinality(DOMAIN cache) <= size

\* The resolvers share one dictionary and never take each other's entries:
\* a request is answered with a tenant that answers to the value the resolver
\* looked for, though a slug may read like another tenant's key.
AnsweredAsAsked ==
    [][\A th \in Threads :
          Answers(th) => AnswersTo(req'[th].found, <<Resolver(th), Value(th)>>)]_vars

\* A request is answered with a tenant as the table held it within the last
\* TTL + MaxDelay ticks: a tenant deactivated, renamed or deleted anywhere
\* is served no longer than that, though entries are stamped when they are
\* stored and not when they were read (_cache_get, _cache_set).
BoundedStaleness ==
    [][\A th \in Threads : Answers(th) =>
          LET t == req'[th].found IN Current(t) \/ clock - retired[t] <= TTL + MaxDelay]_vars

\* No write of this process is on its way for the key.
Settled(p) == pending[p] = None /\ p \notin owed

\* README.md: the cache is "invalidated automatically on tenant save/delete":
\* once a save has been committed and its signal handled, no entry holds an
\* older row. True of a sync worker; a thread that read the old row stores
\* it after the invalidation and breaks it.
LocalSavesAreSeen ==
    \A k \in DOMAIN cache : Settled(cache[k].tenant.pk) => Current(cache[k].tenant)

\* resolvers.py:69, "Must not raise": a tenant a resolver found is not lost, the
\* request that found it is not answered as if there were none. _cache_set
\* raises when the cache has no room at all.
FoundIsAnswered ==
    [][\A th \in Threads :
          req[th].pc = "store" /\ req'[th] # req[th] => req'[th].found = req[th].found]_vars

\* resolvers.py:160, "UUID first, slug fallback": a hit is the tenant the
\* database would give. A tenant created since may have the key.
HitIsLookup ==
    [][\A th \in Threads :
          Answers(th) /\ Settled(req'[th].found.pk)
              => req'[th].found.pk \in Lookup(Resolver(th), Value(th))]_vars
=============================================================================
