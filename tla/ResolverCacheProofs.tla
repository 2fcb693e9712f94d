------------------------- MODULE ResolverCacheProofs -------------------------
(***************************************************************************)
(* Theorems about ResolverCache, for any tenants, threads, chain, cache    *)
(* size and lifetime: the cache is bounded and requests are answered as    *)
(* they asked; no tenant is served longer than the lifetime and the        *)
(* longest delay after it is superseded; and where requests and writes     *)
(* take turns the signals keep the cache exact.                            *)
(***************************************************************************)
EXTENDS ResolverCache, FiniteSetTheorems, TLAPS

-----------------------------------------------------------------------------
(* Rows, entries and keys *)

Entry == [tenant : Tenant, ts : 0..MaxClock]

\* A deleted row is no row.
LEMMA GoneIsNoRow == Gone \notin Row /\ Gone.slug = None /\ \A r \in Row : r.slug # None
  BY ChainAssumption DEF Gone, Row

-----------------------------------------------------------------------------
(* Threads *)

State == [pc : {"idle", "lookup", "query", "store", "served", "forbidden", "not found", "no tenant"},
          at : 0..(Len(Chain) + 1), ask : Requests \cup {None},
          found : Tenant \cup {None}, readAt : 0..MaxClock]

\* The key the thread's resolver looks for.
Sought(s) == KeyFor(Chain[s.at], s.ask[Chain[s.at]])

\* A resolving thread is in the chain, asks what its request carries, and
\* holds, when it is about to store, a tenant that answers to it.
Placed(s) ==
    /\ s.pc \in {"lookup", "query", "store"} => s.ask \in Requests /\ s.at \in 1..(Len(Chain) + 1)
    /\ s.pc \in {"query", "store"} => s.at <= Len(Chain) /\ s.ask[Chain[s.at]] # None
    /\ s.pc = "store" => s.found \in Tenant /\ AnswersTo(s.found, Sought(s))

LEMMA ChainLength == Len(Chain) \in Nat /\ \A i \in 1..Len(Chain) : Chain[i] \in Resolvers
  BY ChainAssumption

\* What a resolver in the chain looks for is a key of the cache.
LEMMA SoughtIsKey ==
    ASSUME NEW s \in State, Placed(s), s.pc \in {"query", "store"}
    PROVE  /\ Chain[s.at] \in Resolvers
           /\ s.ask[Chain[s.at]] \in Pks \cup Slugs
           /\ Sought(s) \in Keys
  <1>1. Chain[s.at] \in Resolvers
    BY ChainLength DEF Placed
  <1>2. s.ask \in [Resolvers -> Pks \cup Slugs \cup {None}]
    BY ChainAssumption DEF Placed
  <1>3. s.ask[Chain[s.at]] \in Pks \cup Slugs
    BY <1>1, <1>2 DEF Placed
  <1>4. QED
    BY <1>1, <1>3 DEF Sought, KeyFor, Keys

\* The tenants a lookup finds are rows of the table that answer to its key.
LEMMA FoundAnswers ==
    ASSUME rows \in [Pks -> Row \cup {Gone}], NEW r \in Resolvers, NEW v, NEW p \in Lookup(r, v)
    PROVE  LET t == [pk |-> p, row |-> rows[p]] IN
           t \in Tenant /\ AnswersTo(t, KeyFor(r, v)) /\ Current(t)
  <1>1. p \in Present
    BY DEF Lookup
  <1>2. p \in Pks /\ rows[p] \in Row
    BY <1>1 DEF Present
  <1>3. /\ r = "subdomain" => rows[p].slug = v
        /\ r = "header" => p = v \/ rows[p].slug = v
        /\ r \notin {"subdomain", "header"} => p = v
    BY DEF Lookup
  <1>4. QED
    BY <1>2, <1>3 DEF Tenant, AnswersTo, KeyFor, Current

\* The chain goes on to the next resolver.
LEMMA ChainGoesOn ==
    ASSUME req \in [Threads -> State], NEW th \in Threads, Placed(req[th]),
           req[th].pc \in {"lookup", "query", "store"}, req[th].at <= Len(Chain), NextResolver(th)
    PROVE  \E s \in State : req' = [req EXCEPT ![th] = s] /\ Placed(s) /\ s.pc = "lookup"
  <1> DEFINE s == [req[th] EXCEPT !.pc = "lookup", !.at = @ + 1, !.found = None]
  <1>1. req[th] \in State /\ req[th].at \in 1..(Len(Chain) + 1) /\ req[th].ask \in Requests
    BY DEF Placed
  <1>2. req[th].at + 1 \in 1..(Len(Chain) + 1) /\ req[th].at + 1 \in 0..(Len(Chain) + 1)
    BY <1>1, ChainLength
  <1>3. s \in State /\ s.pc = "lookup" /\ s.at = req[th].at + 1 /\ s.ask = req[th].ask
    BY <1>1, <1>2 DEF State
  <1>4. req' = [req EXCEPT ![th] = s]
    BY DEF NextResolver
  <1> HIDE DEF s
  <1>5. Placed(s)
    BY <1>1, <1>2, <1>3 DEF Placed
  <1>6. QED
    BY <1>3, <1>4, <1>5

LEMMA IdleIsState == Idle \in State
  <1>1. 0 \in 0..(Len(Chain) + 1) /\ 0 \in 0..MaxClock
    BY ChainLength, CacheAssumption
  <1>2. QED
    BY <1>1 DEF Idle, State

\* A request ends, with a tenant or without.
LEMMA RequestEnds ==
    \A t \in Tenant \cup {None}, pc \in {"idle", "served", "forbidden", "not found", "no tenant"} :
        /\ Ended(pc, t) \in State /\ Placed(Ended(pc, t))
        /\ Ended(pc, t).pc = pc /\ Ended(pc, t).found = t
  <1> SUFFICES ASSUME NEW t \in Tenant \cup {None},
                      NEW pc \in {"idle", "served", "forbidden", "not found", "no tenant"}
               PROVE  /\ Ended(pc, t) \in State /\ Placed(Ended(pc, t))
                      /\ Ended(pc, t).pc = pc /\ Ended(pc, t).found = t
    OBVIOUS
  <1>1. Idle \in State
    BY IdleIsState
  <1>2. Ended(pc, t) \in State /\ Ended(pc, t).pc = pc /\ Ended(pc, t).found = t
    BY <1>1 DEF State, Ended
  <1>3. Placed(Ended(pc, t))
    BY <1>2 DEF Placed
  <1>4. QED
    BY <1>2, <1>3

LEMMA Answered ==
    ASSUME NEW th \in Threads, NEW t \in Tenant, Answer(th, t), req \in [Threads -> State]
    PROVE  \E s \in State : /\ req' = [req EXCEPT ![th] = s] /\ Placed(s)
                            /\ s.pc \in {"served", "forbidden"} /\ s.found = t
  <1>1. \/ req' = [req EXCEPT ![th] = Ended("served", t)]
        \/ req' = [req EXCEPT ![th] = Ended("forbidden", t)]
    BY DEF Answer
  <1>2. /\ Ended("served", t) \in State /\ Placed(Ended("served", t))
        /\ Ended("served", t).pc = "served" /\ Ended("served", t).found = t
    BY RequestEnds
  <1>3. /\ Ended("forbidden", t) \in State /\ Placed(Ended("forbidden", t))
        /\ Ended("forbidden", t).pc = "forbidden" /\ Ended("forbidden", t).found = t
    BY RequestEnds
  <1>4. QED
    BY <1>1, <1>2, <1>3

-----------------------------------------------------------------------------
(* The inductive invariant *)

\* Threads are placed in the chain, entries are filed right, and the cache
\* is bounded.
CInv ==
    /\ TypeOK
    /\ \A th \in Threads : Placed(req[th])
    /\ \A k \in DOMAIN cache : AnswersTo(cache[k].tenant, k)
    /\ IsFiniteSet(DOMAIN cache) /\ Cardinality(DOMAIN cache) <= size

\* What CInv says of the threads and of their keys.
LEMMA ThreadsPlaced ==
    ASSUME CInv
    PROVE  /\ req \in [Threads -> State]
           /\ rows \in [Pks -> Row \cup {Gone}] /\ clock \in 0..MaxClock
           /\ \A th \in Threads :
                 /\ req[th] \in State /\ Placed(req[th])
                 /\ Key(th) = Sought(req[th])
                 /\ req[th].pc \in {"query", "store"} => Key(th) \in Keys
  <1>1. req \in [Threads -> State] /\ rows \in [Pks -> Row \cup {Gone}] /\ clock \in 0..MaxClock
    BY DEF CInv, TypeOK, State
  <1>2. ASSUME NEW th \in Threads
        PROVE  /\ req[th] \in State /\ Placed(req[th])
               /\ Key(th) = Sought(req[th])
               /\ req[th].pc \in {"query", "store"} => Key(th) \in Keys
    <2>1. req[th] \in State /\ Placed(req[th])
      BY <1>1 DEF CInv
    <2>2. Key(th) = Sought(req[th])
      BY DEF Key, Value, Resolver, Sought
    <2>3. QED
      BY <2>1, <2>2, SoughtIsKey
  <1>3. QED
    BY <1>1, <1>2

\* A step of a request: the thread that moves is placed again, and a tenant
\* it is about to store is in the table now.
LEMMA RequestsProceed ==
    ASSUME CInv, NEW th \in Threads,
           Resolve(th) \/ Finish(th) \/ \E ask \in Requests : Start(th, ask)
    PROVE  \E s \in State :
              /\ req' = [req EXCEPT ![th] = s] /\ Placed(s)
              /\ s.pc = "store" => Current(s.found) /\ s.readAt = clock
  <1> DEFINE Moves == \E s \in State :
                         /\ req' = [req EXCEPT ![th] = s] /\ Placed(s)
                         /\ s.pc = "store" => Current(s.found) /\ s.readAt = clock
  <1>1. /\ req \in [Threads -> State] /\ req[th] \in State /\ Placed(req[th])
        /\ rows \in [Pks -> Row \cup {Gone}] /\ clock \in 0..MaxClock
    BY ThreadsPlaced
  <1>n. ASSUME NextResolver(th), req[th].pc \in {"lookup", "query", "store"},
               req[th].at <= Len(Chain)
        PROVE  Moves
    BY <1>n, <1>1, ChainGoesOn
  <1>a. ASSUME NEW t \in Tenant, Answer(th, t) PROVE Moves
    <2>1. PICK s \in State : /\ req' = [req EXCEPT ![th] = s] /\ Placed(s)
                             /\ s.pc \in {"served", "forbidden"}
      BY <1>a, <1>1, Answered
    <2>2. QED
      BY <2>1
  <1>2. ASSUME NEW ask \in Requests, Start(th, ask) PROVE Moves
    <2> DEFINE s == [Idle EXCEPT !.pc = "lookup", !.at = 1, !.ask = ask]
    <2>1. req' = [req EXCEPT ![th] = s]
      BY <1>2 DEF Start
    <2>2. 1 \in 0..(Len(Chain) + 1) /\ 1 \in 1..(Len(Chain) + 1)
      BY ChainLength
    <2>3. s \in State /\ s.pc = "lookup" /\ s.at = 1 /\ s.ask = ask
      BY <2>2, IdleIsState DEF State
    <2> HIDE DEF s
    <2>4. Placed(s)
      BY <2>2, <2>3 DEF Placed
    <2>5. QED
      BY <2>1, <2>3, <2>4
  <1>3. CASE Unresolved(th)
    <2>1. \/ req' = [req EXCEPT ![th] = Ended("not found", None)]
          \/ req' = [req EXCEPT ![th] = Ended("no tenant", None)]
      BY <1>3 DEF Unresolved
    <2>2. /\ Ended("not found", None) \in State /\ Placed(Ended("not found", None))
          /\ Ended("not found", None).pc = "not found"
      BY RequestEnds
    <2>3. /\ Ended("no tenant", None) \in State /\ Placed(Ended("no tenant", None))
          /\ Ended("no tenant", None).pc = "no tenant"
      BY RequestEnds
    <2>4. QED
      BY <2>1, <2>2, <2>3
  <1>4. CASE Skip(th)
    BY <1>4, <1>n DEF Skip
  <1>5. CASE ReadCache(th)
    <2> DEFINE hit == Caches(Resolver(th)) /\ Hit(Key(th))
    <2>1. CASE hit
      <3>1. Key(th) \in DOMAIN cache
        BY <2>1 DEF Hit
      <3>2. cache[Key(th)].tenant \in Tenant
        BY <3>1 DEF CInv, TypeOK
      <3>3. Answer(th, cache[Key(th)].tenant)
        BY <1>5, <2>1 DEF ReadCache
      <3>4. QED
        BY <3>2, <3>3, <1>a
    <2>2. CASE ~hit
      <3> DEFINE s == [req[th] EXCEPT !.pc = "query"]
      <3>1. req' = [req EXCEPT ![th] = s]
        BY <1>5, <2>2 DEF ReadCache
      <3>2. s \in State /\ s.pc = "query" /\ s.at = req[th].at /\ s.ask = req[th].ask
        BY <1>1 DEF State
      <3>3. /\ req[th].ask \in Requests /\ req[th].at \in 1..(Len(Chain) + 1)
            /\ req[th].at <= Len(Chain) /\ req[th].ask[Chain[req[th].at]] # None
        BY <1>5, <1>1 DEF ReadCache, Placed, Value, Resolver
      <3> HIDE DEF s
      <3>4. Placed(s)
        BY <3>2, <3>3 DEF Placed
      <3>5. QED
        BY <3>1, <3>2, <3>4
    <2>3. QED
      BY <2>1, <2>2
  <1>6. CASE Query(th)
    <2>1. req[th].pc = "query" /\ req[th].at <= Len(Chain)
      BY <1>6, <1>1 DEF Query, Placed
    <2>2. CASE Lookup(Resolver(th), Value(th)) = {}
      BY <1>6, <2>1, <2>2, <1>n DEF Query
    <2>3. CASE Lookup(Resolver(th), Value(th)) # {}
      <3> DEFINE T(p) == [pk |-> p, row |-> rows[p]]
      <3>1. PICK p \in Lookup(Resolver(th), Value(th)) :
               IF Caches(Resolver(th))
               THEN req' = [req EXCEPT ![th] = [req[th] EXCEPT !.pc = "store", !.found = T(p),
                                                               !.readAt = clock]]
               ELSE Answer(th, T(p))
        BY <1>6, <2>3 DEF Query
      <3>2. /\ Resolver(th) \in Resolvers
            /\ KeyFor(Resolver(th), Value(th)) = Sought(req[th])
        BY <2>1, <1>1, SoughtIsKey DEF Resolver, Value, Sought
      <3>3. T(p) \in Tenant /\ AnswersTo(T(p), Sought(req[th])) /\ Current(T(p))
        BY <3>2, <1>1, FoundAnswers
      <3> DEFINE t == T(p)
      <3> HIDE DEF T
      <3>4. CASE Caches(Resolver(th))
        <4> DEFINE s == [req[th] EXCEPT !.pc = "store", !.found = t, !.readAt = clock]
        <4>1. req' = [req EXCEPT ![th] = s]
          BY <3>1, <3>4
        <4>2. /\ s \in State /\ s.pc = "store" /\ s.at = req[th].at /\ s.ask = req[th].ask
              /\ s.found = t /\ s.readAt = clock
          BY <1>1, <3>3 DEF State
        <4> HIDE DEF s
        <4>3. Sought(s) = Sought(req[th])
          BY <4>2 DEF Sought
        <4>4. Placed(s)
          BY <4>2, <4>3, <3>3, <2>1, <1>1 DEF Placed
        <4>5. QED
          BY <4>1, <4>2, <4>4, <3>3
      <3>5. CASE ~Caches(Resolver(th))
        BY <3>1, <3>3, <3>5, <1>a
      <3>6. QED
        BY <3>4, <3>5
    <2>4. QED
      BY <2>2, <2>3
  <1>7. CASE QueryRaises(th)
    BY <1>7, <1>1, <1>n DEF QueryRaises, Placed
  <1>8. CASE Store(th)
    BY <1>8, <1>1, <1>a DEF Store, Placed
  <1>9. CASE StoreRaises(th)
    BY <1>9, <1>1, <1>n DEF StoreRaises, Placed
  <1>10. CASE Finish(th)
    <2>1. Placed(Idle) /\ Idle.pc # "store"
      BY DEF Placed, Idle
    <2>2. QED
      BY <1>10, <2>1, IdleIsState DEF Finish
  <1>11. QED
    BY <1>2, <1>3, <1>4, <1>5, <1>6, <1>7, <1>8, <1>9, <1>10 DEF Resolve

Thread(th) == Resolve(th) \/ Finish(th) \/ \E ask \in Requests : Start(th, ask)
Writer == \/ \E p \in Pks, r \in Row \cup {Gone} : WriteInTransaction(p, r)
          \/ \E p \in Pks, committed \in BOOLEAN : EndTransaction(p, committed)
          \/ \E p \in Pks, r \in Row : SaveAutocommit(p, r)
          \/ \E p \in Pks : PostSave(p)
          \/ \E p \in Pks, r \in Row \cup {Gone} : RemoteWrite(p, r)

LEMMA NextSteps == [Next]_vars => (\E th \in Threads : Thread(th)) \/ Writer \/ Tick \/ UNCHANGED vars
  BY DEF Next, Thread, Writer

\* What a thread stores, and the room it makes: one entry of a full cache.
Stores(th, out) ==
    /\ req[th].pc = "store"
    /\ out \subseteq DOMAIN cache
    /\ IF Full(Key(th)) THEN \E o \in DOMAIN cache : out = {o} ELSE out = {}
    /\ cache' = With(Without(cache, out), Key(th), [tenant |-> req[th].found, ts |-> clock])

\* Every step leaves the cache, drops entries, or stores one.
LEMMA CacheMoves ==
    ASSUME [Next]_vars
    PROVE  \/ cache' = cache
           \/ \E S : cache' = Without(cache, S)
           \/ \E th \in Threads : \E out : Store(th) /\ Stores(th, out)
  <1>1. ASSUME NEW th \in Threads, Store(th) PROVE \E out : Store(th) /\ Stores(th, out)
    <2>1. PICK out \in IF Full(Key(th)) THEN {{o} : o \in Oldest} ELSE {{}} :
             cache' = With(Without(cache, out), Key(th), [tenant |-> req[th].found, ts |-> clock])
      BY <1>1 DEF Store
    <2>2. out \subseteq DOMAIN cache
      BY DEF Oldest
    <2>3. IF Full(Key(th)) THEN \E o \in DOMAIN cache : out = {o} ELSE out = {}
      BY DEF Oldest
    <2>4. QED
      BY <1>1, <2>1, <2>2, <2>3 DEF Stores, Store
  <1>2. ASSUME NEW th \in Threads, Thread(th), ~Store(th)
        PROVE  cache' = cache \/ \E S : cache' = Without(cache, S)
    BY <1>2 DEF Thread, Resolve, Unresolved, Skip, ReadCache, CacheGet, Query, QueryRaises,
       StoreRaises, Finish, Start
  <1>3. Writer => cache' = cache \/ \E S : cache' = Without(cache, S)
    BY DEF Writer, WriteInTransaction, EndTransaction, SaveAutocommit, PostSave, RemoteWrite,
       CacheInvalidate
  <1>4. QED
    BY <1>1, <1>2, <1>3, NextSteps DEF Tick, vars

\* The cache's part of the invariant survives whatever happens to it.
LEMMA CacheStaysSound ==
    ASSUME CInv, [Next]_vars
    PROVE  /\ DOMAIN cache' \subseteq Keys
           /\ \A k \in DOMAIN cache' : cache'[k] \in Entry /\ AnswersTo(cache'[k].tenant, k)
           /\ IsFiniteSet(DOMAIN cache') /\ Cardinality(DOMAIN cache') <= size
  <1>1. /\ DOMAIN cache \subseteq Keys
        /\ \A k \in DOMAIN cache : cache[k] \in Entry /\ AnswersTo(cache[k].tenant, k)
        /\ IsFiniteSet(DOMAIN cache) /\ Cardinality(DOMAIN cache) <= size
        /\ size \in Nat
    BY CacheAssumption DEF CInv, TypeOK, Entry
  <1>2. CASE cache' = cache
    BY <1>1, <1>2
  <1>3. ASSUME NEW S, cache' = Without(cache, S)
        PROVE  /\ DOMAIN cache' \subseteq Keys
               /\ \A k \in DOMAIN cache' : cache'[k] \in Entry /\ AnswersTo(cache'[k].tenant, k)
               /\ IsFiniteSet(DOMAIN cache') /\ Cardinality(DOMAIN cache') <= size
    <2>1. /\ DOMAIN cache' = DOMAIN cache \ S
          /\ \A k \in DOMAIN cache' : cache'[k] = cache[k]
      BY <1>3, Zenon DEF Without
    <2>2. /\ IsFiniteSet(DOMAIN cache')
          /\ Cardinality(DOMAIN cache') <= Cardinality(DOMAIN cache)
          /\ Cardinality(DOMAIN cache) \in Nat /\ Cardinality(DOMAIN cache') \in Nat
      BY <1>1, <2>1, FS_Subset, FS_CardinalityType
    <2>3. QED
      BY <1>1, <2>1, <2>2
  <1>4. ASSUME NEW th \in Threads, NEW out, Stores(th, out)
        PROVE  /\ DOMAIN cache' \subseteq Keys
               /\ \A k \in DOMAIN cache' : cache'[k] \in Entry /\ AnswersTo(cache'[k].tenant, k)
               /\ IsFiniteSet(DOMAIN cache') /\ Cardinality(DOMAIN cache') <= size
    <2> DEFINE k0 == Key(th)
               new == [tenant |-> req[th].found, ts |-> clock]
               rest == Without(cache, out)
    <2>1. /\ req[th].found \in Tenant /\ AnswersTo(req[th].found, k0) /\ k0 \in Keys
          /\ clock \in 0..MaxClock
      BY <1>4, ThreadsPlaced DEF Stores, Placed
    <2>2. /\ DOMAIN rest = DOMAIN cache \ out
          /\ \A k \in DOMAIN rest : rest[k] = cache[k]
      BY Zenon DEF Without
    <2>3. new \in Entry /\ new.tenant = req[th].found
      BY <2>1 DEF Entry
    <2>4. cache' = With(rest, k0, new)
      BY <1>4 DEF Stores
    <2> HIDE DEF k0, new, rest
    <2>5. /\ DOMAIN cache' = DOMAIN rest \cup {k0}
          /\ cache'[k0] = new
          /\ \A k \in DOMAIN rest \ {k0} : cache'[k] = rest[k]
      <3>1. /\ DOMAIN With(rest, k0, new) = DOMAIN rest \cup {k0}
            /\ With(rest, k0, new)[k0] = new
            /\ \A k \in DOMAIN rest \ {k0} : With(rest, k0, new)[k] = rest[k]
        BY DEF With
      <3>2. QED
        BY <2>4, <3>1
    <2>6. \A k \in DOMAIN cache' : cache'[k] \in Entry /\ AnswersTo(cache'[k].tenant, k)
      BY <1>1, <2>1, <2>2, <2>5, <2>3
    <2>7. DOMAIN cache' \subseteq Keys
      BY <1>1, <2>1, <2>2, <2>5
    <2>8. IsFiniteSet(DOMAIN cache') /\ Cardinality(DOMAIN cache') <= size
      <3>1. Cardinality(DOMAIN cache) \in Nat
        BY <1>1, FS_CardinalityType
      <3>2. CASE Full(Key(th))
        <4>1. PICK o \in DOMAIN cache : out = {o}
          BY <1>4, <3>2 DEF Stores
        <4>2. k0 \notin DOMAIN cache
          BY <3>2 DEF Full, k0
        <4>3. IsFiniteSet(DOMAIN rest) /\ Cardinality(DOMAIN rest) = Cardinality(DOMAIN cache) - 1
          BY <1>1, <2>2, <4>1, FS_RemoveElement
        <4>4. k0 \notin DOMAIN rest
          BY <2>2, <4>2
        <4>5. /\ IsFiniteSet(DOMAIN cache')
              /\ Cardinality(DOMAIN cache') = Cardinality(DOMAIN rest) + 1
          BY <2>5, <4>3, <4>4, FS_AddElement
        <4>6. QED
          BY <1>1, <3>1, <4>3, <4>5
      <3>3. CASE ~Full(Key(th))
        <4>1. DOMAIN cache' = DOMAIN cache \cup {k0}
          BY <1>4, <3>3, <2>2, <2>5 DEF Stores
        <4>2. /\ IsFiniteSet(DOMAIN cache')
              /\ Cardinality(DOMAIN cache') = IF k0 \in DOMAIN cache THEN Cardinality(DOMAIN cache)
                                              ELSE Cardinality(DOMAIN cache) + 1
          BY <1>1, <4>1, FS_AddElement
        <4>3. k0 \notin DOMAIN cache => Cardinality(DOMAIN cache) < size
          BY <1>1, <3>1, <3>3 DEF Full, k0
        <4>4. QED
          BY <1>1, <3>1, <4>2, <4>3
      <3>4. QED
        BY <3>2, <3>3
    <2>9. QED
      BY <2>6, <2>7, <2>8
  <1>5. QED
    BY <1>2, <1>3, <1>4, CacheMoves

\* Rows, signals, clock and history keep their types.
LEMMA TableStaysTyped ==
    ASSUME CInv, [Next]_vars
    PROVE  /\ size' = size
           /\ rows' \in [Pks -> Row \cup {Gone}]
           /\ pending' \in [Pks -> Row \cup {Gone, None}]
           /\ owed' \subseteq Pks
           /\ clock' \in 0..MaxClock
           /\ retired' \in [Tenant -> -1..MaxClock]
  <1>1. /\ rows \in [Pks -> Row \cup {Gone}] /\ pending \in [Pks -> Row \cup {Gone, None}]
        /\ owed \subseteq Pks /\ clock \in 0..MaxClock /\ retired \in [Tenant -> -1..MaxClock]
        /\ MaxClock \in Nat
    BY CacheAssumption DEF CInv, TypeOK
  <1>2. ASSUME NEW p \in Pks, NEW r \in Row \cup {Gone}, Commit(p, r)
        PROVE  rows' \in [Pks -> Row \cup {Gone}] /\ retired' \in [Tenant -> -1..MaxClock]
    <2>1. rows' \in [Pks -> Row \cup {Gone}]
      BY <1>1, <1>2 DEF Commit
    <2>2. CASE rows[p] \in {Gone, r}
      BY <1>1, <1>2, <2>1, <2>2 DEF Commit
    <2>3. CASE rows[p] \notin {Gone, r}
      <3>1. retired' = [retired EXCEPT ![[pk |-> p, row |-> rows[p]]] = clock]
        BY <1>2, <2>3 DEF Commit
      <3>2. clock \in -1..MaxClock
        BY <1>1
      <3>3. QED
        BY <1>1, <2>1, <3>1, <3>2
    <2>4. QED
      BY <2>2, <2>3
  <1>3. ASSUME NEW th \in Threads, Thread(th)
        PROVE  UNCHANGED <<size, rows, pending, owed, clock, retired>>
    BY <1>3 DEF Thread, Resolve, Unresolved, Skip, ReadCache, Query, QueryRaises, Store,
       StoreRaises, Finish, Start
  <1>4. ASSUME NEW p \in Pks, NEW r \in Row \cup {Gone}, WriteInTransaction(p, r)
        PROVE  /\ UNCHANGED <<size, rows, owed, clock, retired>>
               /\ pending' \in [Pks -> Row \cup {Gone, None}]
    BY <1>4, <1>1 DEF WriteInTransaction
  <1>5. ASSUME NEW p \in Pks, NEW committed \in BOOLEAN, EndTransaction(p, committed)
        PROVE  /\ UNCHANGED <<size, owed, clock>>
               /\ pending' \in [Pks -> Row \cup {Gone, None}]
               /\ rows' \in [Pks -> Row \cup {Gone}] /\ retired' \in [Tenant -> -1..MaxClock]
    <2>1. pending[p] \in Row \cup {Gone}
      BY <1>1, <1>5 DEF EndTransaction
    <2>2. Commit(p, pending[p]) \/ UNCHANGED <<rows, retired>>
      BY <1>5 DEF EndTransaction
    <2>3. QED
      BY <1>1, <1>2, <1>5, <2>1, <2>2 DEF EndTransaction
  <1>6. ASSUME NEW p \in Pks, NEW r \in Row, SaveAutocommit(p, r)
        PROVE  /\ UNCHANGED <<size, pending, clock>> /\ owed' \subseteq Pks
               /\ rows' \in [Pks -> Row \cup {Gone}] /\ retired' \in [Tenant -> -1..MaxClock]
    BY <1>1, <1>2, <1>6 DEF SaveAutocommit
  <1>7. ASSUME NEW p \in Pks, PostSave(p)
        PROVE  UNCHANGED <<size, rows, pending, clock, retired>> /\ owed' \subseteq Pks
    BY <1>1, <1>7 DEF PostSave
  <1>8. ASSUME NEW p \in Pks, NEW r \in Row \cup {Gone}, RemoteWrite(p, r)
        PROVE  /\ UNCHANGED <<size, pending, owed, clock>>
               /\ rows' \in [Pks -> Row \cup {Gone}] /\ retired' \in [Tenant -> -1..MaxClock]
    BY <1>1, <1>2, <1>8 DEF RemoteWrite
  <1>9. Tick => UNCHANGED <<size, rows, pending, owed, retired>> /\ clock' \in 0..MaxClock
    BY <1>1 DEF Tick
  <1>10. QED
    BY <1>1, <1>3, <1>4, <1>5, <1>6, <1>7, <1>8, <1>9, NextSteps DEF Writer, vars

LEMMA CInvInit == Init => CInv
  <1> SUFFICES ASSUME Init PROVE CInv
    OBVIOUS
  <1>1. DOMAIN cache = {}
    BY DEF Init
  <1>2. IsFiniteSet(DOMAIN cache) /\ Cardinality(DOMAIN cache) = 0
    BY <1>1, FS_EmptySet
  <1>3. req \in [Threads -> State] /\ \A th \in Threads : Placed(req[th])
    <2>1. Placed(Idle)
      BY DEF Placed, Idle
    <2>2. QED
      BY <2>1, IdleIsState DEF Init
  <1>4. /\ size \in Sizes /\ size \in Nat
        /\ rows \in [Pks -> Row \cup {Gone}] /\ pending \in [Pks -> Row \cup {Gone, None}]
        /\ owed \subseteq Pks /\ clock \in 0..MaxClock /\ retired \in [Tenant -> -1..MaxClock]
    <2>1. 0 \in 0..MaxClock /\ -1 \in -1..MaxClock
      BY CacheAssumption
    <2>2. rows \in [Pks -> Row \cup {Gone}]
      BY DEF Init
    <2>3. size \in Sizes /\ size \in Nat
      BY CacheAssumption DEF Init
    <2>4. QED
      BY <2>1, <2>2, <2>3 DEF Init
  <1>5. TypeOK
    BY <1>1, <1>3, <1>4 DEF TypeOK, State
  <1>6. QED
    BY <1>1, <1>2, <1>3, <1>4, <1>5 DEF CInv

LEMMA CInvStep ==
    ASSUME CInv, [Next]_vars
    PROVE  CInv'
  <1>1. req' \in [Threads -> State] /\ \A th \in Threads : Placed(req'[th])
    <2>1. ASSUME NEW th \in Threads, Thread(th)
          PROVE  req' \in [Threads -> State] /\ \A o \in Threads : Placed(req'[o])
      <3>1. PICK s \in State : req' = [req EXCEPT ![th] = s] /\ Placed(s)
        BY <2>1, RequestsProceed DEF Thread
      <3>2. QED
        BY <3>1, ThreadsPlaced
    <2>2. Writer => req' = req
      BY DEF Writer, WriteInTransaction, EndTransaction, SaveAutocommit, PostSave, RemoteWrite
    <2>3. QED
      BY <2>1, <2>2, ThreadsPlaced, NextSteps DEF Tick, vars
  <1>2. TypeOK'
    BY <1>1, CacheStaysSound, TableStaysTyped DEF TypeOK, State, Entry, CInv
  <1>3. QED
    BY <1>1, <1>2, CacheStaysSound, TableStaysTyped DEF CInv

LEMMA CacheInvariance == Spec => []CInv
  <1>1. CInv /\ [Next]_vars => CInv'
    BY CInvStep
  <1>2. QED
    BY <1>1, CInvInit, PTL DEF Spec

\* A thread's cursor never leaves the chain, and nothing but tenants is
\* stored or answered.
THEOREM CacheTypeCorrect == Spec => []TypeOK
  <1>1. CInv => TypeOK
    BY DEF CInv
  <1>2. QED
    BY <1>1, CacheInvariance, PTL

\* However threads and writers interleave, the cache never outgrows its size.
THEOREM CacheIsBounded == Spec => []CacheBounded
  <1>1. CInv => CacheBounded
    BY DEF CInv, CacheBounded
  <1>2. QED
    BY <1>1, CacheInvariance, PTL

-----------------------------------------------------------------------------
(* Staleness *)

\* The table held the tenant at some time since.
Fresh(t, since) == Current(t) \/ retired[t] >= since

\* What is in the cache was in the table at most MaxDelay before it was
\* stored, and what a thread is about to store when the thread read it.
SInv ==
    /\ \A k \in DOMAIN cache :
          cache[k].ts <= clock /\ Fresh(cache[k].tenant, cache[k].ts - MaxDelay)
    /\ \A th \in Threads : req[th].pc = "store" =>
          /\ req[th].readAt <= clock /\ clock <= req[th].readAt + MaxDelay
          /\ Fresh(req[th].found, req[th].readAt)

\* A tenant that was in the table since some time stays so: when it is
\* superseded the clock is past that time.
LEMMA FreshStays ==
    ASSUME CInv, [Next]_vars
    PROVE  \A t \in Tenant, since \in Int :
              since <= clock /\ Fresh(t, since) => rows'[t.pk] = t.row \/ retired'[t] >= since
  <1> SUFFICES ASSUME NEW t \in Tenant, NEW since \in Int, since <= clock, Fresh(t, since)
               PROVE  Fresh(t, since)'
    BY DEF Fresh, Current
  <1>1. /\ rows \in [Pks -> Row \cup {Gone}] /\ retired \in [Tenant -> -1..MaxClock]
        /\ clock \in 0..MaxClock /\ t.pk \in Pks /\ t.row \in Row
    BY DEF CInv, TypeOK, Tenant
  <1>2. CASE UNCHANGED <<rows, retired>>
    BY <1>2 DEF Fresh, Current
  <1>3. ASSUME NEW p \in Pks, NEW r, Commit(p, r) PROVE Fresh(t, since)'
    <2>1. CASE rows[p] \in {Gone, r}
      <3>1. retired' = retired /\ rows' = [rows EXCEPT ![p] = r]
        BY <1>3, <2>1 DEF Commit
      <3>2. CASE Current(t)
        <4>1. rows'[t.pk] = t.row
          BY <1>1, <2>1, <3>1, <3>2, GoneIsNoRow DEF Current
        <4>2. QED
          BY <4>1 DEF Fresh, Current
      <3>3. CASE retired[t] >= since
        BY <3>1, <3>3 DEF Fresh
      <3>4. QED
        BY <3>2, <3>3 DEF Fresh
    <2>2. CASE rows[p] \notin {Gone, r}
      <3> DEFINE old == [pk |-> p, row |-> rows[p]]
      <3>1. /\ rows' = [rows EXCEPT ![p] = r]
            /\ retired' = [retired EXCEPT ![old] = clock]
        BY <1>3, <2>2 DEF Commit
      <3>2. CASE t = old
        <4>1. retired'[t] = clock
          BY <1>1, <3>1, <3>2
        <4>2. QED
          BY <4>1 DEF Fresh
      <3>3. CASE t # old
        <4>1. retired'[t] = retired[t]
          BY <1>1, <3>1, <3>3
        <4>2. Current(t) => t.pk # p
          BY <3>3 DEF Current, Tenant
        <4>3. Current(t) => Current(t)'
          BY <1>1, <3>1, <4>2 DEF Current
        <4>4. QED
          BY <4>1, <4>3 DEF Fresh
      <3>4. QED
        BY <3>2, <3>3
    <2>3. QED
      BY <2>1, <2>2
  <1>4. UNCHANGED <<rows, retired>> \/ \E p \in Pks, r \in Row \cup {Gone, None} : Commit(p, r)
    <2>1. ASSUME NEW th \in Threads, Thread(th) PROVE UNCHANGED <<rows, retired>>
      BY <2>1 DEF Thread, Resolve, Unresolved, Skip, ReadCache, Query, QueryRaises, Store,
         StoreRaises, Finish, Start
    <2>2. ASSUME NEW p \in Pks, NEW committed \in BOOLEAN, EndTransaction(p, committed)
          PROVE  \/ Commit(p, pending[p]) /\ pending[p] \in Row \cup {Gone, None}
                 \/ UNCHANGED <<rows, retired>>
      BY <2>2 DEF EndTransaction, CInv, TypeOK
    <2>3. QED
      BY <2>1, <2>2, NextSteps DEF Writer, WriteInTransaction, SaveAutocommit, PostSave,
         RemoteWrite, Tick, vars
  <1>5. QED
    BY <1>2, <1>3, <1>4

LEMMA SInvInit == Init => SInv
  BY DEF Init, SInv, Idle

LEMMA SInvStep ==
    ASSUME CInv, SInv, [Next]_vars
    PROVE  SInv'
  <1>1. /\ clock \in Nat /\ MaxDelay \in Nat
        /\ clock' = clock \/ (Tick /\ clock' = clock + 1)
        /\ req \in [Threads -> State]
        /\ \A k \in DOMAIN cache : cache[k] \in Entry
        /\ \A th \in Threads : req[th].readAt \in Nat
    <2>1. clock \in Nat /\ MaxDelay \in Nat /\ req \in [Threads -> State]
      BY CacheAssumption, ThreadsPlaced
    <2>2. clock' = clock \/ (Tick /\ clock' = clock + 1)
      <3>1. ASSUME NEW th \in Threads, Thread(th) PROVE clock' = clock
        BY <3>1 DEF Thread, Resolve, Unresolved, Skip, ReadCache, Query, QueryRaises, Store,
           StoreRaises, Finish, Start
      <3>2. Writer => clock' = clock
        BY DEF Writer, WriteInTransaction, EndTransaction, SaveAutocommit, PostSave, RemoteWrite
      <3>3. Tick => clock' = clock + 1
        BY DEF Tick
      <3>4. UNCHANGED vars => clock' = clock
        BY DEF vars
      <3>5. QED
        BY <3>1, <3>2, <3>3, <3>4, NextSteps
    <2>3. \A k \in DOMAIN cache : cache[k] \in Entry
      BY DEF CInv, TypeOK, Entry
    <2>4. ASSUME NEW th \in Threads PROVE req[th].readAt \in Nat
      <3>1. req[th] \in State
        BY <2>1
      <3>2. req[th].readAt \in 0..MaxClock
        BY <3>1 DEF State
      <3>3. QED
        BY <3>2, CacheAssumption
    <2>5. QED
      BY <2>1, <2>2, <2>3, <2>4
  \* What is fresh stays fresh.
  <1>2. ASSUME NEW k \in DOMAIN cache
        PROVE  LET e == cache[k] IN
               /\ e.ts <= clock'
               /\ rows'[e.tenant.pk] = e.tenant.row \/ retired'[e.tenant] >= e.ts - MaxDelay
    <2>1. cache[k].tenant \in Tenant /\ cache[k].ts \in Nat
      BY <1>1 DEF Entry
    <2>2. cache[k].ts - MaxDelay \in Int /\ cache[k].ts - MaxDelay <= clock /\ cache[k].ts <= clock'
      BY <1>1, <2>1 DEF SInv
    <2>3. QED
      BY <2>1, <2>2, FreshStays DEF SInv
  <1>3. ASSUME NEW th \in Threads, req[th].pc = "store"
        PROVE  LET s == req[th] IN
               /\ s.found \in Tenant /\ s.readAt <= clock' /\ clock' <= s.readAt + MaxDelay
               /\ rows'[s.found.pk] = s.found.row \/ retired'[s.found] >= s.readAt
    <2>1. req[th].found \in Tenant
      BY <1>3, ThreadsPlaced DEF Placed
    <2>2. req[th].readAt <= clock' /\ clock' <= req[th].readAt + MaxDelay
      <3>1. Tick => clock - req[th].readAt < MaxDelay
        BY <1>3 DEF Tick
      <3>2. QED
        BY <1>1, <1>3, <3>1 DEF SInv
    <2>3. QED
      BY <1>1, <1>3, <2>1, <2>2, FreshStays DEF SInv
  <1>4. ASSUME NEW k \in DOMAIN cache'
        PROVE  LET e == cache'[k] IN
               /\ e.ts <= clock'
               /\ rows'[e.tenant.pk] = e.tenant.row \/ retired'[e.tenant] >= e.ts - MaxDelay
    <2>1. CASE cache' = cache
      BY <2>1, <1>2
    <2>2. CASE \E S : cache' = Without(cache, S)
      <3>1. k \in DOMAIN cache /\ cache'[k] = cache[k]
        BY <2>2 DEF Without
      <3>2. QED
        BY <3>1, <1>2
    <2>3. ASSUME NEW th \in Threads, NEW out, Store(th), Stores(th, out)
          PROVE  LET e == cache'[k] IN
                 /\ e.ts <= clock'
                 /\ rows'[e.tenant.pk] = e.tenant.row \/ retired'[e.tenant] >= e.ts - MaxDelay
      <3>1. cache'[k] = IF k = Key(th) THEN [tenant |-> req[th].found, ts |-> clock]
                                       ELSE cache[k]
        BY <2>3 DEF Stores, With, Without
      <3>2. CASE k = Key(th)
        <4>1. cache'[k].tenant = req[th].found /\ cache'[k].ts = clock /\ clock' = clock
          BY <2>3, <3>1, <3>2 DEF Store
        <4>2. /\ clock <= req[th].readAt + MaxDelay
              /\ \/ rows'[req[th].found.pk] = req[th].found.row
                 \/ retired'[req[th].found] >= req[th].readAt
          BY <1>3, <2>3, <4>1 DEF Stores
        <4>3. retired'[req[th].found] \in Int
          BY <1>3, <2>3, TableStaysTyped DEF Stores
        <4>4. QED
          BY <1>1, <4>1, <4>2, <4>3
      <3>3. CASE k # Key(th)
        <4>1. k \in DOMAIN cache
          BY <2>3, <3>3 DEF Stores, With, Without
        <4>2. QED
          BY <3>1, <3>3, <4>1, <1>2
      <3>4. QED
        BY <3>2, <3>3
    <2>4. QED
      BY <2>1, <2>2, <2>3, CacheMoves
  <1>5. ASSUME NEW th \in Threads, req'[th].pc = "store"
        PROVE  LET s == req'[th] IN
               /\ s.readAt <= clock' /\ clock' <= s.readAt + MaxDelay
               /\ rows'[s.found.pk] = s.found.row \/ retired'[s.found] >= s.readAt
    <2>1. CASE req'[th] = req[th]
      BY <2>1, <1>3, <1>5
    <2>2. ASSUME NEW o \in Threads, Thread(o), req'[th] # req[th]
          PROVE  LET s == req'[th] IN
                 /\ s.readAt <= clock' /\ clock' <= s.readAt + MaxDelay
                 /\ rows'[s.found.pk] = s.found.row \/ retired'[s.found] >= s.readAt
      <3>1. PICK s \in State : /\ req' = [req EXCEPT ![o] = s]
                               /\ s.pc = "store" => Current(s.found) /\ s.readAt = clock
        BY <2>2, RequestsProceed DEF Thread
      <3>2. req'[th] = s
        BY <1>1, <2>2, <3>1
      <3>3. rows' = rows /\ clock' = clock
        BY <2>2 DEF Thread, Resolve, Unresolved, Skip, ReadCache, Query, QueryRaises, Store,
           StoreRaises, Finish, Start
      <3>4. QED
        BY <1>1, <1>5, <3>1, <3>2, <3>3 DEF Current
    <2>3. Writer \/ Tick \/ UNCHANGED vars => req' = req
      BY DEF Writer, WriteInTransaction, EndTransaction, SaveAutocommit, PostSave, RemoteWrite,
         Tick, vars
    <2>4. QED
      BY <2>1, <2>2, <2>3, NextSteps
  <1>6. QED
    BY <1>4, <1>5 DEF SInv, Fresh, Current

LEMMA StalenessInvariance == Spec => [](CInv /\ SInv)
  <1>1. CInv /\ SInv /\ [Next]_vars => CInv' /\ SInv'
    BY CInvStep, SInvStep
  <1>2. QED
    BY <1>1, CInvInit, SInvInit, PTL DEF Spec

\* A thread that answers found its tenant in the cache or the table just
\* now, or holds what it has just stored.
LEMMA WhoAnswers ==
    ASSUME CInv, [Next]_vars, NEW th \in Threads, Answers(th)
    PROVE  LET t == req'[th].found IN
           /\ UNCHANGED <<rows, retired, clock>>
           /\ t \in Tenant /\ AnswersTo(t, Key(th))
           /\ \/ Hit(Key(th)) /\ t = cache[Key(th)].tenant
              \/ Current(t)
              \/ req[th].pc = "store" /\ t = req[th].found
  <1>1. req \in [Threads -> State] /\ rows \in [Pks -> Row \cup {Gone}] /\ Placed(req[th])
    BY ThreadsPlaced
  <1>2. \E o \in Threads : Thread(o)
    BY NextSteps DEF Answers, Writer, WriteInTransaction, EndTransaction, SaveAutocommit,
       PostSave, RemoteWrite, Tick, vars
  <1>3. Thread(th)
    <2>1. PICK o \in Threads : Thread(o)
      BY <1>2
    <2>2. PICK s \in State : req' = [req EXCEPT ![o] = s]
      BY <2>1, RequestsProceed DEF Thread
    <2>3. QED
      BY <1>1, <2>1, <2>2 DEF Answers
  <1>4. UNCHANGED <<rows, retired, clock>>
    BY <1>3 DEF Thread, Resolve, Unresolved, Skip, ReadCache, Query, QueryRaises, Store,
       StoreRaises, Finish, Start
  <1>a. ASSUME NEW t \in Tenant, Answer(th, t) PROVE req'[th].found = t
    <2>1. PICK s \in State : req' = [req EXCEPT ![th] = s] /\ s.found = t
      BY <1>1, <1>a, Answered
    <2>2. QED
      BY <1>1, <2>1
  <1>n. ASSUME NextResolver(th) PROVE FALSE
    <2>1. req'[th].pc = "lookup"
      BY <1>1, <1>n DEF NextResolver, State
    <2>2. QED
      BY <2>1 DEF Answers
  <1>5. CASE ReadCache(th)
    <2>1. Hit(Key(th)) /\ Answer(th, cache[Key(th)].tenant)
      <3>1. CASE Caches(Resolver(th)) /\ Hit(Key(th))
        BY <1>5, <3>1 DEF ReadCache
      <3>2. CASE ~(Caches(Resolver(th)) /\ Hit(Key(th)))
        <4>1. req'[th].pc = "query"
          BY <1>1, <1>5, <3>2 DEF ReadCache, State
        <4>2. QED
          BY <4>1 DEF Answers
      <3>3. QED
        BY <3>1, <3>2
    <2>2. cache[Key(th)].tenant \in Tenant /\ AnswersTo(cache[Key(th)].tenant, Key(th))
      BY <2>1 DEF Hit, CInv, TypeOK
    <2>3. QED
      BY <1>4, <2>1, <2>2, <1>a
  <1>6. CASE Query(th)
    <2>1. req[th].pc = "query"
      BY <1>6 DEF Query
    <2>2. CASE Lookup(Resolver(th), Value(th)) = {}
      BY <1>6, <2>2, <1>n DEF Query
    <2>3. CASE Lookup(Resolver(th), Value(th)) # {}
      <3> DEFINE T(p) == [pk |-> p, row |-> rows[p]]
      <3>1. PICK p \in Lookup(Resolver(th), Value(th)) :
               IF Caches(Resolver(th))
               THEN req' = [req EXCEPT ![th] = [req[th] EXCEPT !.pc = "store", !.found = T(p),
                                                               !.readAt = clock]]
               ELSE Answer(th, T(p))
        BY <1>6, <2>3 DEF Query
      <3>2. Resolver(th) \in Resolvers
        BY <2>1, <1>1, SoughtIsKey DEF Resolver
      <3>3. T(p) \in Tenant /\ Current(T(p)) /\ AnswersTo(T(p), Key(th))
        BY <3>2, <1>1, FoundAnswers DEF Key
      <3> HIDE DEF T
      <3>4. CASE Caches(Resolver(th))
        <4> DEFINE s == [req[th] EXCEPT !.pc = "store", !.found = T(p), !.readAt = clock]
        <4>1. req'[th] = s
          BY <1>1, <3>1, <3>4
        <4>2. s.pc = "store"
          BY <1>1 DEF State
        <4>3. QED
          BY <4>1, <4>2 DEF Answers
      <3>5. CASE ~Caches(Resolver(th))
        BY <3>1, <3>3, <3>5, <1>a, <1>4
      <3>6. QED
        BY <3>4, <3>5
    <2>4. QED
      BY <2>2, <2>3
  <1>7. CASE Store(th)
    <2>1. /\ req[th].pc = "store" /\ Answer(th, req[th].found) /\ req[th].found \in Tenant
          /\ AnswersTo(req[th].found, Key(th))
      BY <1>1, <1>7, ThreadsPlaced DEF Store, Placed
    <2>2. QED
      BY <1>4, <2>1, <1>a
  <1>8. CASE Unresolved(th)
    <2>1. PICK end \in {"not found", "no tenant"} : req' = [req EXCEPT ![th] = Ended(end, None)]
      BY <1>8 DEF Unresolved
    <2>2. req'[th].pc \in {"not found", "no tenant"}
      BY <1>1, <2>1 DEF Ended, Idle
    <2>3. QED
      BY <2>2 DEF Answers
  <1>9. CASE Finish(th) \/ \E ask \in Requests : Start(th, ask)
    <2>1. req[th].pc \in {"lookup", "query", "store"}
      BY DEF Answers
    <2>2. CASE Finish(th)
      BY <2>1, <2>2 DEF Finish
    <2>3. CASE \E ask \in Requests : Start(th, ask)
      <3>1. req[th] = Idle
        BY <2>3 DEF Start
      <3>2. QED
        BY <2>1, <3>1 DEF Idle
    <2>4. QED
      BY <1>9, <2>2, <2>3
  <1>10. ~Skip(th) /\ ~QueryRaises(th) /\ ~StoreRaises(th)
    BY <1>n DEF Skip, QueryRaises, StoreRaises
  <1>11. \/ ReadCache(th) \/ Query(th) \/ Store(th) \/ Unresolved(th)
         \/ Finish(th) \/ \E ask \in Requests : Start(th, ask)
    BY <1>3, <1>10 DEF Thread, Resolve
  <1>12. QED
    BY <1>5, <1>6, <1>7, <1>8, <1>9, <1>11

\* A tenant deactivated, renamed or deleted, by this process or another, is
\* not answered with once TTL + MaxDelay ticks have passed: entries are at
\* most MaxDelay older than their stamps.
THEOREM StalenessIsBounded == Spec => BoundedStaleness
  <1> DEFINE InTime == \A th \in Threads : Answers(th) =>
                          LET t == req'[th].found IN
                          Current(t) \/ clock - retired[t] <= TTL + MaxDelay
  <1>1. CInv /\ SInv /\ [Next]_vars => InTime
    <2> SUFFICES ASSUME CInv, SInv, [Next]_vars, NEW th \in Threads, Answers(th)
                 PROVE  LET t == req'[th].found IN
                        Current(t) \/ clock - retired[t] <= TTL + MaxDelay
      OBVIOUS
    <2>1. PICK t \in Tenant : /\ t = req'[th].found
                              /\ \/ Hit(Key(th)) /\ t = cache[Key(th)].tenant
                                 \/ Current(t)
                                 \/ req[th].pc = "store" /\ t = req[th].found
      BY WhoAnswers
    <2>2. clock \in Int /\ TTL \in Nat /\ MaxDelay \in Int /\ retired[t] \in Int
      <3>1. clock \in 0..MaxClock /\ retired \in [Tenant -> -1..MaxClock]
        BY DEF CInv, TypeOK
      <3>2. retired[t] \in -1..MaxClock
        BY <3>1
      <3>3. TTL \in Nat /\ MaxDelay \in Nat /\ MaxClock \in Nat
        BY CacheAssumption
      <3>4. QED
        BY <3>1, <3>2, <3>3
    <2>3. CASE Hit(Key(th)) /\ t = cache[Key(th)].tenant
      <3>1. Key(th) \in DOMAIN cache /\ ~(clock - cache[Key(th)].ts > TTL)
        BY <2>3 DEF Hit, Expired
      <3>2. cache[Key(th)].ts \in Int
        <4>1. cache[Key(th)] \in Entry
          BY <3>1 DEF CInv, TypeOK, Entry
        <4>2. cache[Key(th)].ts \in 0..MaxClock
          BY <4>1 DEF Entry
        <4>3. QED
          BY <4>2, CacheAssumption
      <3>3. Current(t) \/ retired[t] >= cache[Key(th)].ts - MaxDelay
        BY <2>3, <3>1 DEF SInv, Fresh
      <3>4. QED
        BY <2>1, <2>2, <3>1, <3>2, <3>3
    <2>4. CASE req[th].pc = "store" /\ t = req[th].found
      <3>1. req[th].readAt \in Int
        <4>1. req[th] \in State
          BY ThreadsPlaced
        <4>2. req[th].readAt \in 0..MaxClock
          BY <4>1 DEF State
        <4>3. QED
          BY <4>2, CacheAssumption
      <3>2. /\ clock <= req[th].readAt + MaxDelay
            /\ Current(t) \/ retired[t] >= req[th].readAt
        BY <2>4 DEF SInv, Fresh
      <3>3. QED
        BY <2>1, <2>2, <3>1, <3>2
    <2>5. QED
      BY <2>1, <2>3, <2>4
  <1>2. QED
    BY <1>1, StalenessInvariance, PTL DEF Spec, BoundedStaleness

\* A request is answered with a tenant that answers to the value the resolver
\* looked for, whatever requests of other resolvers left in the cache.
THEOREM RequestsAnsweredAsAsked == Spec => AnsweredAsAsked
  <1>1. CInv /\ [Next]_vars =>
           \A th \in Threads :
              Answers(th) => AnswersTo(req'[th].found, <<Resolver(th), Value(th)>>)
    BY WhoAnswers DEF Key, KeyFor
  <1>2. QED
    BY <1>1, CacheInvariance, PTL DEF Spec, AnsweredAsAsked

-----------------------------------------------------------------------------
(* One request at a time *)

Resolving(th) == req[th].pc \in {"lookup", "query", "store"}

\* No write of this process is on its way.
AllSettled == pending = [p \in Pks |-> None] /\ owed = {}

\* A cached tenant is not being written in a transaction, and is the row
\* unless the signal of a save is still owed; requests are resolved while
\* nothing is being written, so what one is about to store is the row.
WInv ==
    /\ \A k \in DOMAIN cache :
          /\ pending[cache[k].tenant.pk] = None
          /\ cache[k].tenant.pk \in owed \/ Current(cache[k].tenant)
    /\ \A th \in Threads : Resolving(th) =>
          AllSettled /\ (req[th].pc = "store" => Current(req[th].found))

\* Where requests and writes take turns, a step of a writer finds no request
\* being resolved.
LEMMA WritersWait ==
    ASSUME SyncWorker, ~Remote, WInv, Writer
    PROVE  req' = req /\ \A th \in Threads : ~Resolving(th)
  <1>1. req' = req
    BY DEF Writer, WriteInTransaction, EndTransaction, SaveAutocommit, PostSave, RemoteWrite
  <1>2. MayWrite => \A th \in Threads : ~Resolving(th)
    BY DEF MayWrite, Resolving
  <1>3. ~AllSettled => \A th \in Threads : ~Resolving(th)
    BY DEF WInv
  <1>4. MayWrite \/ ~AllSettled
    BY DEF Writer, WriteInTransaction, EndTransaction, SaveAutocommit, PostSave, RemoteWrite,
       AllSettled
  <1>5. QED
    BY <1>1, <1>2, <1>3, <1>4

\* What a thread's step does to the requests, and that it writes no tenant.
LEMMA ThreadsKeepTurns ==
    ASSUME SyncWorker, CInv, WInv, NEW o \in Threads, Thread(o)
    PROVE  /\ UNCHANGED <<rows, pending, owed>>
           /\ \A th \in Threads : req'[th].pc \in {"lookup", "query", "store"} =>
                 AllSettled /\ (req'[th].pc = "store" => Current(req'[th].found))
  <1>1. UNCHANGED <<rows, pending, owed>>
    BY DEF Thread, Resolve, Unresolved, Skip, ReadCache, Query, QueryRaises, Store,
       StoreRaises, Finish, Start
  <1>2. PICK s \in State : /\ req' = [req EXCEPT ![o] = s]
                           /\ s.pc = "store" => Current(s.found)
    BY RequestsProceed DEF Thread
  <1>3. s.pc \in {"lookup", "query", "store"} => AllSettled
    <2>1. CASE Resolve(o)
      <3>1. Resolving(o)
        BY <2>1 DEF Resolve, Unresolved, Skip, ReadCache, Query, QueryRaises, Store, StoreRaises,
           Resolving
      <3>2. QED
        BY <3>1 DEF WInv
    <2>2. CASE Finish(o)
      <3>1. req' = [req EXCEPT ![o] = Idle]
        BY <2>2 DEF Finish
      <3>2. s.pc = "idle"
        BY <1>2, <3>1, ThreadsPlaced DEF Idle
      <3>3. QED
        BY <3>2
    <2>3. CASE \E ask \in Requests : Start(o, ask)
      BY <2>3 DEF Start, AllSettled
    <2>4. QED
      BY <2>1, <2>2, <2>3 DEF Thread
  <1>4. ASSUME NEW th \in Threads, req'[th].pc \in {"lookup", "query", "store"}
        PROVE  AllSettled /\ (req'[th].pc = "store" => Current(req'[th].found))
    <2>1. CASE th = o
      BY <1>2, <1>3, <1>4, <2>1, ThreadsPlaced
    <2>2. CASE th # o
      <3>1. req'[th] = req[th]
        BY <1>2, <2>2, ThreadsPlaced
      <3>2. QED
        BY <1>4, <3>1 DEF WInv, Resolving
    <2>3. QED
      BY <2>1, <2>2
  <1>5. QED
    BY <1>1, <1>4

\* A writer's step leaves each entry that stays settled, or owed its signal.
LEMMA WritersInvalidate ==
    ASSUME ~Remote, CInv, WInv, Writer, NEW k \in DOMAIN cache'
    PROVE  LET t == cache'[k].tenant IN
           pending'[t.pk] = None /\ (t.pk \in owed' \/ rows'[t.pk] = t.row)
  <1> DEFINE t == cache[k].tenant
  <1>1. k \in DOMAIN cache /\ cache'[k] = cache[k]
    BY DEF Writer, WriteInTransaction, EndTransaction, SaveAutocommit, PostSave, RemoteWrite,
       CacheInvalidate, Without
  <1>2. pending[t.pk] = None /\ (t.pk \in owed \/ rows[t.pk] = t.row)
    BY <1>1 DEF WInv, Current
  <1>3. rows \in [Pks -> Row \cup {Gone}] /\ pending \in [Pks -> Row \cup {Gone, None}]
    BY DEF CInv, TypeOK
  <1> HIDE DEF t
  <1>4. ASSUME NEW p \in Pks, NEW r \in Row \cup {Gone}, WriteInTransaction(p, r)
        PROVE  pending'[t.pk] = None /\ (t.pk \in owed' \/ rows'[t.pk] = t.row)
    <2>1. t.pk # p
      BY <1>4 DEF WriteInTransaction, CacheInvalidate, Without, t
    <2>2. QED
      BY <1>2, <1>3, <1>4, <2>1 DEF WriteInTransaction
  <1>5. ASSUME NEW p \in Pks, NEW committed \in BOOLEAN, EndTransaction(p, committed)
        PROVE  pending'[t.pk] = None /\ (t.pk \in owed' \/ rows'[t.pk] = t.row)
    <2>1. t.pk # p
      BY <1>2, <1>5 DEF EndTransaction
    <2>2. rows'[t.pk] = rows[t.pk]
      <3>1. Commit(p, pending[p]) \/ UNCHANGED <<rows, retired>>
        BY <1>5 DEF EndTransaction
      <3>2. Commit(p, pending[p]) => rows' = [rows EXCEPT ![p] = pending[p]]
        BY DEF Commit
      <3>3. t.pk \in Pks
        BY <1>1 DEF CInv, TypeOK, Tenant, t
      <3>4. QED
        BY <1>3, <2>1, <3>1, <3>2, <3>3
    <2>3. QED
      BY <1>2, <1>3, <1>5, <2>1, <2>2 DEF EndTransaction
  <1>6. ASSUME NEW p \in Pks, NEW r \in Row, SaveAutocommit(p, r)
        PROVE  pending'[t.pk] = None /\ (t.pk \in owed' \/ rows'[t.pk] = t.row)
    <2>1. t.pk # p => rows'[t.pk] = rows[t.pk]
      BY <1>3, <1>6 DEF SaveAutocommit, Commit
    <2>2. QED
      BY <1>2, <1>6, <2>1 DEF SaveAutocommit
  <1>7. ASSUME NEW p \in Pks, PostSave(p)
        PROVE  pending'[t.pk] = None /\ (t.pk \in owed' \/ rows'[t.pk] = t.row)
    <2>1. t.pk # p
      BY <1>7 DEF PostSave, CacheInvalidate, Without, t
    <2>2. QED
      BY <1>2, <1>7, <2>1 DEF PostSave
  <1>8. cache'[k].tenant = t
    BY <1>1 DEF t
  <1>9. QED
    BY <1>4, <1>5, <1>6, <1>7, <1>8 DEF Writer, RemoteWrite

LEMMA WInvStep ==
    ASSUME SyncWorker, ~Remote, CInv, WInv, [Next]_vars
    PROVE  WInv'
  \* Steps of a thread, and of no one.
  <1>1. ASSUME UNCHANGED <<rows, pending, owed>>, NEW k \in DOMAIN cache'
        PROVE  LET t == cache'[k].tenant IN
               pending'[t.pk] = None /\ (t.pk \in owed' \/ rows'[t.pk] = t.row)
    <2>1. ASSUME k \in DOMAIN cache, cache'[k] = cache[k]
          PROVE  LET t == cache'[k].tenant IN
                 pending'[t.pk] = None /\ (t.pk \in owed' \/ rows'[t.pk] = t.row)
      BY <1>1, <2>1 DEF WInv, Current
    <2>2. CASE cache' = cache
      BY <1>1, <2>1, <2>2
    <2>3. CASE \E S : cache' = Without(cache, S)
      BY <1>1, <2>1, <2>3 DEF Without
    <2>4. ASSUME NEW th \in Threads, NEW out, Stores(th, out)
          PROVE  LET t == cache'[k].tenant IN
                 pending'[t.pk] = None /\ (t.pk \in owed' \/ rows'[t.pk] = t.row)
      <3>1. /\ DOMAIN cache' \subseteq DOMAIN cache \cup {Key(th)}
            /\ cache'[k] = IF k = Key(th) THEN [tenant |-> req[th].found, ts |-> clock]
                                          ELSE cache[k]
        BY <1>1, <2>4 DEF Stores, With, Without
      <3>2. CASE k = Key(th)
        <4>1. cache'[k].tenant = req[th].found
          BY <3>1, <3>2
        <4>2. AllSettled /\ Current(req[th].found)
          BY <2>4 DEF Stores, WInv, Resolving
        <4>3. req[th].found.pk \in Pks
          BY <2>4, ThreadsPlaced DEF Stores, Placed, Tenant
        <4>4. QED
          BY <1>1, <4>1, <4>2, <4>3 DEF AllSettled, Current
      <3>3. CASE k # Key(th)
        BY <1>1, <2>1, <3>1, <3>3
      <3>4. QED
        BY <3>2, <3>3
    <2>5. QED
      BY <2>2, <2>3, <2>4, CacheMoves
  <1>2. ASSUME NEW o \in Threads, Thread(o) PROVE WInv'
    <2>1. UNCHANGED <<rows, pending, owed>>
      BY <1>2, ThreadsKeepTurns
    <2>2. \A k \in DOMAIN cache' :
             LET t == cache'[k].tenant IN
             pending'[t.pk] = None /\ (t.pk \in owed' \/ rows'[t.pk] = t.row)
      BY <1>1, <2>1
    <2>3. \A th \in Threads : req'[th].pc \in {"lookup", "query", "store"} =>
             AllSettled' /\ (req'[th].pc = "store" => rows'[req'[th].found.pk] = req'[th].found.row)
      BY <1>2, <2>1, ThreadsKeepTurns DEF AllSettled, Current
    <2>4. QED
      BY <2>2, <2>3 DEF WInv, Resolving, Current
  <1>3. CASE Writer
    <2>1. \A k \in DOMAIN cache' :
             LET t == cache'[k].tenant IN
             pending'[t.pk] = None /\ (t.pk \in owed' \/ rows'[t.pk] = t.row)
      BY <1>3, WritersInvalidate
    <2>2. \A th \in Threads : req'[th].pc \notin {"lookup", "query", "store"}
      BY <1>3, WritersWait DEF Resolving
    <2>3. QED
      BY <2>1, <2>2 DEF WInv, Resolving, Current
  <1>4. CASE Tick \/ UNCHANGED vars
    BY <1>4 DEF Tick, vars, WInv, Resolving, AllSettled, Current
  <1>5. QED
    BY <1>2, <1>3, <1>4, NextSteps

\* In a process that serves one request at a time, and alone writes the
\* tenant table, the signals of apps.py keep the cache exact: once a save is
\* committed and its signal handled no entry holds an older row.
THEOREM SyncWorkerSeesSaves ==
    ASSUME SyncWorker, ~Remote
    PROVE  Spec => []LocalSavesAreSeen
  <1>1. Init => WInv
    BY DEF Init, WInv, Resolving, Idle
  <1>2. CInv /\ WInv /\ [Next]_vars => WInv'
    BY WInvStep
  <1>3. WInv => LocalSavesAreSeen
    BY DEF WInv, LocalSavesAreSeen, Settled
  <1>4. QED
    BY <1>1, <1>2, <1>3, CacheInvariance, PTL DEF Spec
=============================================================================
