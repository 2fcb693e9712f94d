-------------------------- MODULE RegionalOrmProofs --------------------------
(***************************************************************************)
(* Proofs for RegionalOrm, for any tenants, aliases, regions, pins, rows   *)
(* and nesting depth. The worker's context is a TenantContext in which     *)
(* every configured alias may fail, because a failing statement of the ORM *)
(* is one more way to abort a transaction: what is proved of TenantContext *)
(* holds of it.                                                            *)
(***************************************************************************)
EXTENDS RegionalOrm, SequenceTheorems, TLAPS

Worker == INSTANCE TenantContextProofs WITH FailingAliases <- Configured

(***************************************************************************)
(* The worker's context                                                    *)
(***************************************************************************)

\* The assumptions of TenantContext hold of the context.
LEMMA WorkerAssumptions ==
  /\ Worker!TenantAssumption /\ Worker!AliasAssumption
  /\ Worker!RegionAssumption /\ Worker!SettingsAssumption
BY ContextAssumption
   DEF Ctx!TenantAssumption, Ctx!AliasAssumption, Ctx!RegionAssumption, Ctx!SettingsAssumption,
       Worker!TenantAssumption, Worker!AliasAssumption, Worker!RegionAssumption,
       Worker!SettingsAssumption

\* What both copies of TenantContext say of an action, they say alike.
LEMMA ContextSteps ==
  ASSUME Ctx!Next
  PROVE  Worker!Next
<1> USE DEF Ctx!Scope, Worker!Scope, Ctx!Depth, Worker!Depth, Ctx!Top, Worker!Top,
            Ctx!Pop, Worker!Pop, Ctx!Idle, Worker!Idle, Ctx!Usable, Worker!Usable,
            Ctx!Begin, Worker!Begin, Ctx!Push, Worker!Push,
            Ctx!EnsureAtomic, Worker!EnsureAtomic
<1>a. \A t : Ctx!TargetAliases(t) = Worker!TargetAliases(t)
  BY DEF Ctx!TargetAliases, Worker!TargetAliases, Ctx!RegionalAlias, Worker!RegionalAlias
<1>s. \A a, c, t : Ctx!SetDbSession(a, c, t) = Worker!SetDbSession(a, c, t)
  BY DEF Ctx!SetDbSession, Worker!SetDbSession, Ctx!WritesVar, Worker!WritesVar
<1>r. \A t : Ctx!Refusing(t) = Worker!Refusing(t)
  BY <1>a DEF Ctx!Refusing, Worker!Refusing, Ctx!WritesVar, Worker!WritesVar
<1>e. ASSUME NEW kind, NEW t, NEW own, Ctx!SetScope(kind, t, own)
      PROVE  Worker!SetScope(kind, t, own)
  BY <1>a, <1>s, <1>r, <1>e DEF Ctx!SetScope, Worker!SetScope
<1>f. ASSUME NEW t, NEW own, Ctx!SetRaises(t, own)
      PROVE  Worker!SetRaises(t, own)
  BY <1>s, <1>r, <1>f DEF Ctx!SetRaises, Worker!SetRaises
<1>g. ASSUME NEW f, Ctx!RestoreScope(f)
      PROVE  Worker!RestoreScope(f)
  BY <1>a, <1>s, <1>g DEF Ctx!RestoreScope, Worker!RestoreScope
<1>1. ASSUME NEW t, Ctx!UsingEnter(t) PROVE Worker!UsingEnter(t)
  BY <1>1, <1>a, <1>e DEF Ctx!UsingEnter, Worker!UsingEnter
<1>2. ASSUME NEW t, Ctx!UsingRaises(t) PROVE Worker!UsingRaises(t)
  BY <1>2, <1>a, <1>f DEF Ctx!UsingRaises, Worker!UsingRaises
<1>3. ASSUME Ctx!UsingExit PROVE Worker!UsingExit
  BY <1>3, <1>g DEF Ctx!UsingExit, Worker!UsingExit
<1>4. ASSUME NEW t, Ctx!HandlerEnter(t) PROVE Worker!HandlerEnter(t)
  BY <1>4, <1>a, <1>e DEF Ctx!HandlerEnter, Worker!HandlerEnter
<1>5. ASSUME NEW t, Ctx!HandlerRaises(t) PROVE Worker!HandlerRaises(t)
  BY <1>5, <1>a, <1>f DEF Ctx!HandlerRaises, Worker!HandlerRaises
<1>6. ASSUME Ctx!HandlerExit PROVE Worker!HandlerExit
  BY <1>6, <1>g DEF Ctx!HandlerExit, Worker!HandlerExit
<1>7. ASSUME Ctx!BareEnter PROVE Worker!BareEnter
  BY <1>7 DEF Ctx!BareEnter, Worker!BareEnter
<1>8. ASSUME Ctx!BareExit PROVE Worker!BareExit
  BY <1>8 DEF Ctx!BareExit, Worker!BareExit
<1>9. ASSUME NEW a, Ctx!BypassEnter(a) PROVE Worker!BypassEnter(a)
  BY <1>9 DEF Ctx!BypassEnter, Worker!BypassEnter
<1>10. ASSUME Ctx!BypassExit PROVE Worker!BypassExit
  BY <1>10 DEF Ctx!BypassExit, Worker!BypassExit
<1>11. ASSUME NEW a, Ctx!AtomicEnter(a) PROVE Worker!AtomicEnter(a)
  BY <1>11 DEF Ctx!AtomicEnter, Worker!AtomicEnter
<1>12. ASSUME NEW raised, Ctx!AtomicExit(raised) PROVE Worker!AtomicExit(raised)
  BY <1>12 DEF Ctx!AtomicExit, Worker!AtomicExit
<1>13. ASSUME NEW a, Ctx!SqlError(a) PROVE Worker!SqlError(a)
  BY <1>13, ContextAssumption DEF Ctx!SqlError, Worker!SqlError, Ctx!AliasAssumption
<1>14. QED
  BY <1>1, <1>2, <1>3, <1>4, <1>5, <1>6, <1>7, <1>8, <1>9, <1>10, <1>11, <1>12, <1>13
     DEF Ctx!Next, Worker!Next

\* A statement of the ORM that fails is a statement that fails.
LEMMA FailingStatement ==
  ASSUME Worker!IInv, NEW a \in Configured, ~conn[a].aborted, Fails(a)
  PROVE  [Worker!Next]_Worker!vars
<1>1. a \in Aliases /\ conn \in [Aliases -> Worker!Connection]
  BY WorkerAssumptions DEF Worker!AliasAssumption, Worker!IInv, Worker!TypeOK
<1>2. conn[a] \in Worker!Connection
  BY <1>1
<1>3. conn' = [conn EXCEPT ![a] = [conn[a] EXCEPT !.aborted = conn[a].inTx]]
      /\ UNCHANGED <<tenant, depth, frames>>
  BY DEF Fails
<1>4. CASE conn[a].inTx
  <2>1. conn[a].inTx = TRUE
    BY <1>2, <1>4 DEF Worker!Connection
  <2>2. Worker!SqlError(a)
    BY <1>3, <1>4, <2>1 DEF Worker!SqlError, Worker!Usable
  <2>3. QED
    BY <1>1, <2>2 DEF Worker!Next
<1>5. CASE ~conn[a].inTx
  <2>1. [conn[a] EXCEPT !.aborted = conn[a].inTx] = conn[a]
    BY <1>2, <1>5 DEF Worker!Connection
  <2>2. conn' = conn
    BY <1>1, <1>3, <2>1
  <2>3. QED
    BY <1>3, <2>2 DEF Worker!vars
<1>6. QED
  BY <1>4, <1>5

\* Every step of the model is one of the worker's, or leaves the context alone;
\* only those of the worker itself enter or leave scopes.
LEMMA WorkerSteps ==
  ASSUME Worker!IInv, [Next]_vars
  PROVE  /\ [Worker!Next]_Worker!vars
         /\ ~ScopeStep => /\ exposed' = exposed /\ frames' = frames
                          /\ Default \in Aliases => conn'[Default].var = conn[Default].var
<1>t. conn \in [Aliases -> Worker!Connection]
  BY DEF Worker!IInv, Worker!TypeOK
<1>q. ASSUME UNCHANGED context, exposed' = exposed
      PROVE  /\ [Worker!Next]_Worker!vars
             /\ exposed' = exposed /\ frames' = frames
             /\ Default \in Aliases => conn'[Default].var = conn[Default].var
  BY <1>q DEF context, Worker!vars
<1>1. CASE ScopeStep
  BY <1>1, ContextSteps DEF ScopeStep
<1>2. ASSUME NEW key \in Pins, PinEnter(key) PROVE UNCHANGED context /\ exposed' = exposed
  BY <1>2 DEF PinEnter
<1>3. CASE PinExit
  BY <1>3, <1>q DEF PinExit
<1>4. ASSUME NEW k, NEW t, NEW p, Construct(k, t, p)
      PROVE  UNCHANGED context /\ exposed' = exposed
  BY <1>4 DEF Construct
<1>5. ASSUME NEW r, Fetch(r) \/ FetchUnscoped(r)
      PROVE  UNCHANGED context /\ exposed' = exposed
  BY <1>5 DEF Fetch, FetchUnscoped
<1>6. CASE Delete
  BY <1>6, <1>q DEF Delete
<1>7. CASE Save
  <2> DEFINE a == Route(held.kind)
  <2>1. /\ a \in Configured /\ ~conn[a].aborted /\ exposed' = exposed
        /\ UNCHANGED context \/ Fails(a)
    BY <1>7 DEF Save, Runs, InsertRow, UpdateRow
  <2> HIDE DEF a
  <2>2. CASE UNCHANGED context
    BY <1>q, <2>1, <2>2
  <2>3. CASE Fails(a)
    <3>1. conn' = [conn EXCEPT ![a].aborted = conn[a].inTx] /\ frames' = frames
      BY <2>3 DEF Fails
    <3>2. Default \in Aliases => conn'[Default].var = conn[Default].var
      BY <1>t, <3>1 DEF Worker!Connection
    <3>3. QED
      BY <2>1, <2>3, <3>1, <3>2, FailingStatement
  <2>4. QED
    BY <2>1, <2>2, <2>3
<1>8. CASE UNCHANGED vars
  BY <1>8, <1>q DEF vars
<1>9. QED
  BY <1>q, <1>1, <1>2, <1>3, <1>4, <1>5, <1>6, <1>7, <1>8 DEF Next

\* The context is a worker's; but for an exposed "default" the tenants are in
\* force wherever their scopes cover, and none is at odds with the active one.
CInv ==
    /\ Worker!IInv
    /\ Worker!ForceOn(Aliases \ {Default})
    /\ ~exposed => Worker!ForceOn(Aliases) /\ Worker!Agrees(Default)

\* A connection without a transaction is in nobody's scope, so whatever a
\* half-done set() did there is gone.
LEMMA IdleIsClean ==
  ASSUME Worker!IInv', Worker!ForceOn(Aliases \ {Default})', ~conn'[Default].inTx
  PROVE  Worker!ForceOn(Aliases)' /\ Worker!Agrees(Default)'
<1>0. Default \in Aliases
  BY WorkerAssumptions DEF Worker!AliasAssumption
<1>t. Len(frames') \in Nat /\ DOMAIN frames' = 1..Len(frames')
  BY DEF Worker!IInv, Worker!TypeOK
<1>1. \A i \in 1..Len(frames') : Default \notin frames'[i].owned
  BY <1>0, <1>t DEF Worker!IInv, Worker!OneOwner
<1>2. Worker!Agrees(Default)'
  <2>1. \A i \in 1..Len(frames') : ~(frames'[i].kind = "atomic" /\ frames'[i].alias = Default)
    <3> SUFFICES ASSUME NEW i \in 1..Len(frames'), frames'[i].kind = "atomic",
                        frames'[i].alias = Default
                 PROVE  FALSE
      OBVIOUS
    <3>1. PICK j \in 1..i : Default \in frames'[j].owned
      BY <1>t DEF Worker!IInv, Worker!OneOwner
    <3>2. QED
      BY <1>1, <1>t, <3>1
  <2>2. QED
    BY <2>1 DEF Worker!Agrees, Worker!ScopeAgrees, Worker!Usable
<1>3. ASSUME WrapAtomic, SetDbSessionVar
      PROVE  /\ Worker!PlacesCovered(frames', Aliases) /\ Worker!LastSetter(frames')
             /\ Worker!TopInForce(Aliases)'
  <2>1. /\ Worker!PlacesCovered(frames', Aliases \ {Default}) /\ Worker!LastSetter(frames')
        /\ Worker!TopInForce(Aliases \ {Default})'
    BY <1>3 DEF Worker!ForceOn
  <2>2. \A p \in 1..Len(frames') : ~Worker!Covered(frames', p, Default)
    <3> SUFFICES ASSUME NEW p \in 1..Len(frames'), Worker!Covered(frames', p, Default)
                 PROVE  FALSE
      OBVIOUS
    <3>1. PICK j \in 1..p : Default \in frames'[j].owned
      BY <1>0, <2>1 DEF Worker!PlacesCovered
    <3>2. QED
      BY <1>1, <1>t, <3>1
  <2>3. Worker!PlacesCovered(frames', Aliases)
    BY <2>1, <2>2 DEF Worker!PlacesCovered
  <2>4. Worker!TopInForce(Aliases)'
    BY <2>1, <1>t DEF Worker!TopInForce, Worker!Usable
  <2>5. QED
    BY <2>1, <2>3, <2>4
<1>4. QED
  BY <1>2, <1>3 DEF Worker!ForceOn

\* Every step keeps the context so.
LEMMA ContextStep == CInv /\ [Next]_vars => CInv'
<1> SUFFICES ASSUME CInv, [Next]_vars PROVE CInv'
  OBVIOUS
<1> DEFINE R == Aliases \ {Default}
<1>0. Default \in Aliases /\ R \in SUBSET Aliases /\ Aliases \in SUBSET Aliases
  BY WorkerAssumptions DEF Worker!AliasAssumption
<1>1. Worker!IInv /\ [Worker!Next]_Worker!vars
  BY WorkerSteps DEF CInv
<1>2. Worker!IInv'
  BY <1>1, WorkerAssumptions, Worker!NextStep
<1>3. ASSUME frames' = frames, NEW a \in Aliases
      PROVE  /\ Worker!Usable(conn'[a]) => Worker!Usable(conn[a])
             /\ a # Default => conn'[a].var = conn[a].var
  BY <1>1, <1>3, WorkerAssumptions, Worker!StayFacts
<1>4. Worker!ForceOn(R)'
  <2>1. Worker!ForceOn(R)
    BY DEF CInv
  <2>2. frames' = frames => \A a \in R :
            Worker!Usable(conn'[a]) => Worker!Usable(conn[a]) /\ conn'[a].var = conn[a].var
    BY <1>3
  <2>3. QED
    BY <1>0, <1>1, <1>2, <2>1, <2>2, WorkerAssumptions, Worker!ForceStep
<1>5. ASSUME ~exposed, frames' = frames => conn'[Default].var = conn[Default].var
      PROVE  Worker!ForceOn(Aliases)' /\ Worker!Agrees(Default)'
  <2>1. Worker!ForceOn(Aliases) /\ Worker!Agrees(Default)
    BY <1>5 DEF CInv
  <2>2. frames' = frames => \A a \in Aliases :
            Worker!Usable(conn'[a]) => Worker!Usable(conn[a]) /\ conn'[a].var = conn[a].var
    BY <1>3, <1>5
  <2>3. Worker!ForceOn(Aliases)'
    BY <1>0, <1>1, <1>2, <2>1, <2>2, WorkerAssumptions, Worker!ForceStep
  <2>4. Worker!Agrees(Default)'
    BY <1>0, <1>1, <2>1, <2>2, WorkerAssumptions, Worker!AgreeStep
  <2>5. QED
    BY <2>3, <2>4
<1>6. ASSUME ~exposed' PROVE Worker!ForceOn(Aliases)' /\ Worker!Agrees(Default)'
  <2>1. CASE ~ScopeStep
    BY <1>0, <1>1, <1>5, <1>6, <2>1, WorkerSteps
  <2>2. CASE ScopeStep
    <3>1. ~conn'[Default].inTx \/ (~exposed /\ ~HalfDone)
      BY <1>6, <2>2 DEF ScopeStep
    <3>2. CASE ~conn'[Default].inTx
      BY <1>2, <1>4, <3>2, IdleIsClean
    <3>3. CASE ~exposed /\ ~HalfDone
      BY <1>5, <3>3 DEF HalfDone
    <3>4. QED
      BY <3>1, <3>2, <3>3
  <2>3. QED
    BY <2>1, <2>2
<1>7. QED
  BY <1>2, <1>4, <1>6 DEF CInv

(***************************************************************************)
(* Where the router sends a statement, and what it sees there              *)
(***************************************************************************)

\* The router knows no other alias.
LEMMA RouteIsAlias == \A k : Route(k) \in Aliases
BY WorkerAssumptions DEF Route, Worker!AliasAssumption

\* Without a pin it follows the active tenant to its region.
LEMMA RouteIsHome ==
  ASSUME override = NoPin, tenant \in Tenants, NEW k
  PROVE  /\ Route(k) = HomeIn(tenant, k)
         /\ Route(k) \in Regions \cup {Default}
         /\ Route(k) \in Worker!TargetAliases(tenant)
<1>1. tenant # NoTenant
  BY WorkerAssumptions DEF Worker!TenantAssumption
<1>2. Route(k) = HomeIn(tenant, k) /\ Route(k) \in Regions \cup {Default}
  BY <1>1 DEF Route, HomeIn
<1>3. HomeIn(tenant, k) \in Worker!TargetAliases(tenant)
  BY <1>1 DEF HomeIn, Worker!TargetAliases, Worker!RegionalAlias
<1>4. QED
  BY <1>2, <1>3

\* Every configured database the router sends statements to has policies.
PostgresRoutes == (Regions \cup {Default}) \cap Configured \subseteq Postgres

\* The policies of the alias a tenant is routed to admit that tenant's rows
\* alone.
LEMMA AdmittedIsOwn ==
  ASSUME CInv, PostgresRoutes,
         tenant \in Tenants, override = NoPin, ~exposed,
         NEW k, HasPolicy(k), Runs(Route(k)), ~Bypassed(Route(k)),
         NEW owner, Admits(Route(k), k, owner)
  PROVE  owner = tenant
<1> DEFINE a == Route(k)
<1>1. a \in Aliases /\ a \in Postgres /\ a \in Worker!TargetAliases(tenant)
  BY RouteIsAlias, RouteIsHome DEF Runs, PostgresRoutes
<1>2. conn[a].var # NoTenant /\ conn[a].var = owner /\ ~conn[a].aborted
  BY <1>1 DEF Admits, Runs
<1>3. Worker!ScopeAgrees(a)
  <2>1. CASE a = Default
    BY <2>1 DEF CInv, Worker!Agrees
  <2>2. CASE a # Default
    BY <1>1, <2>2 DEF CInv, Worker!IInv, Worker!NoForeignScope, Worker!Guarded
  <2>3. QED
    BY <2>1, <2>2
<1> HIDE DEF a
<1>4. conn[a].inTx
  <2>1. ~conn[a].inTx => conn[a] = Worker!Idle
    BY <1>1 DEF CInv, Worker!IInv, Worker!ConnectionsClean
  <2>2. Worker!Idle.var = NoTenant
    BY DEF Worker!Idle
  <2>3. QED
    BY <1>2, <2>1, <2>2
<1>5. tenant # NoTenant
  BY WorkerAssumptions DEF Worker!TenantAssumption
<1>6. QED
  BY <1>1, <1>2, <1>3, <1>4, <1>5 DEF Worker!ScopeAgrees, Worker!Usable

\* The context of the initial state.
LEMMA InitContext == Init => CInv
<1> SUFFICES ASSUME Init PROVE CInv
  OBVIOUS
<1>1. Worker!Init
  BY DEF Init, Ctx!Init, Worker!Init, Ctx!Idle, Worker!Idle
<1>2. Worker!IInv
  BY <1>1, WorkerAssumptions, Worker!InitStep
<1>3. frames = <<>> /\ tenant = NoTenant
  BY <1>1 DEF Worker!Init
<1>4. ASSUME NEW G PROVE Worker!ForceOn(G)
  BY <1>3 DEF Worker!ForceOn, Worker!PlacesCovered, Worker!LastSetter, Worker!TopInForce
<1>5. Worker!Agrees(Default)
  BY <1>3 DEF Worker!Agrees, Worker!ScopeAgrees
<1>6. QED
  BY <1>2, <1>4, <1>5 DEF CInv

(***************************************************************************)
(* Writes                                                                  *)
(***************************************************************************)

\* The variables of the router and of the data have their types.
DataOK ==
    /\ override \in Pins \cup {NoPin}
    /\ pins \in Seq(Pins \cup {NoPin}) /\ Len(pins) <= MaxPins
    /\ rows \subseteq Row
    /\ \A r, s \in rows : r.kind = s.kind /\ r.at = s.at /\ r.id = s.id => r = s
    /\ \A r \in rows : ParentThere(r.at, r)
    /\ serial \in [Kinds -> [Aliases -> 0..MaxId]]
    /\ held \in Instance \cup {Nothing}
    /\ exposed \in BOOLEAN

\* A successful save() of the instance o on alias a: the row new takes the
\* place of those in gone (one for an UPDATE, none for an INSERT), which
\* carried the same key.
Writes(o, a, gone, new) ==
    /\ gone \subseteq Seen(a, o.kind)
    /\ \A r \in rows \ gone : ~(r.kind = o.kind /\ r.at = a /\ r.id = new.id)
    /\ \A r \in gone : r.id = new.id /\ o.id = new.id
    /\ new \in Row /\ new.kind = o.kind /\ new.at = a /\ new.parent = o.parent
    /\ Admits(a, o.kind, new.owner) /\ ParentThere(a, o)
    /\ new.kind = "column" => new.owner = IF o.owner = NoTenant THEN tenant ELSE o.owner
    /\ new.plain => /\ override = NoPin /\ tenant # NoTenant /\ ~Bypassed(a) /\ ~exposed
                    /\ HasPolicy(o.kind) \/ o.home = tenant
                    /\ \A r \in gone : r.plain /\ (r.kind = "adopted" => new.owner = r.owner)
    /\ rows' = (rows \ gone) \cup {new}
    /\ held' \in Instance /\ held'.kind = o.kind /\ held'.id = new.id
    /\ held'.parent = o.parent
    /\ held'.owner = IF o.kind = "column" THEN new.owner ELSE o.owner
    /\ held'.home \in {o.home, NoTenant}
    /\ gone = {} /\ held'.home # NoTenant => o.home = HomeFor(o.kind)
    /\ serial' \in [Kinds -> [Aliases -> 0..MaxId]]

\* What is written of an instance is a row.
LEMMA WrittenFacts ==
  ASSUME tenant \in Scope, exposed \in BOOLEAN,
         NEW o \in Instance, NEW id \in Ids, NEW a \in Aliases, NEW owner \in Scope
  PROVE  LET w == Written(o, id, a, owner) IN
         /\ w \in Row /\ w.kind = o.kind /\ w.id = id /\ w.at = a
         /\ w.owner = owner /\ w.parent = o.parent
         /\ w.plain => /\ override = NoPin /\ tenant # NoTenant /\ ~Bypassed(a) /\ ~exposed
                       /\ HasPolicy(o.kind) \/ o.home = tenant
BY DEF Written, Row, Instance, Scope

LEMMA UpdateWrites ==
  ASSUME CInv, DataOK, NEW o \in Instance, NEW a \in Aliases, o = held, NEW old \in rows,
         old \in Seen(a, o.kind), old.id = o.id, UpdateRow(o, a, old)
  PROVE  UNCHANGED data \/ \E new : Writes(o, a, {old}, new)
<1> DEFINE owner == IF o.kind = "adopted" THEN old.owner ELSE Stamp(o, a)
           w == Written(o, o.id, a, owner)
           new == [w EXCEPT !.plain = @ /\ old.plain]
<1>1. CASE Admits(a, o.kind, w.owner) /\ ParentThere(a, o)
  <2>t. tenant \in Scope /\ exposed \in BOOLEAN /\ old \in Row /\ o.id \in Ids
    BY DEF CInv, DataOK, Worker!IInv, Worker!TypeOK, Worker!Scope, Scope, Row
  <2>o. owner \in Scope
    BY <2>t DEF Stamp, Instance, Row, Scope, Kinds
  <2>w. /\ w \in Row /\ w.kind = o.kind /\ w.id = o.id /\ w.at = a
        /\ w.owner = owner /\ w.parent = o.parent
        /\ w.plain => /\ override = NoPin /\ tenant # NoTenant /\ ~Bypassed(a) /\ ~exposed
                      /\ HasPolicy(o.kind) \/ o.home = tenant
    BY <2>t, <2>o, WrittenFacts
  <2>r. rows' = (rows \ {old}) \cup {new}
        /\ held' = [o EXCEPT !.owner = IF o.kind = "column" THEN w.owner ELSE @]
        /\ serial' = serial
    BY <1>1 DEF UpdateRow
  <2> HIDE DEF w
  <2>n. /\ new \in Row /\ new.kind = o.kind /\ new.id = o.id /\ new.at = a
        /\ new.owner = owner /\ new.parent = o.parent
        /\ new.plain => w.plain /\ old.plain
    BY <2>t, <2>w DEF Row
  <2> HIDE DEF new
  <2>h. /\ held' \in Instance /\ held'.kind = o.kind /\ held'.id = o.id
        /\ held'.parent = o.parent /\ held'.home = o.home
        /\ held'.owner = IF o.kind = "column" THEN owner ELSE o.owner
    BY <2>r, <2>w, <2>o DEF Instance
  <2>u. \A r \in rows \ {old} : ~(r.kind = o.kind /\ r.at = a /\ r.id = o.id)
    BY DEF DataOK, Seen
  <2>s. o.kind = "column" => owner = IF o.owner = NoTenant THEN tenant ELSE o.owner
    BY DEF Stamp
  <2>k. old.kind = o.kind /\ {old} \subseteq Seen(a, o.kind) /\ serial \in [Kinds -> [Aliases -> 0..MaxId]]
    BY DEF Seen, DataOK
  <2>a. Admits(a, o.kind, new.owner) /\ ParentThere(a, o)
    BY <1>1, <2>w, <2>n
  <2>p. new.plain => /\ override = NoPin /\ tenant # NoTenant /\ ~Bypassed(a) /\ ~exposed
                     /\ HasPolicy(o.kind) \/ o.home = tenant
                     /\ \A r \in {old} : r.plain /\ (r.kind = "adopted" => new.owner = r.owner)
    BY <2>w, <2>n, <2>k
  <2> HIDE DEF owner
  <2>q. Writes(o, a, {old}, new)
    BY <2>k, <2>a, <2>p, <2>r, <2>n, <2>h, <2>u, <2>s DEF Writes
  <2>z. QED
    BY <2>q
<1>2. CASE ~(Admits(a, o.kind, w.owner) /\ ParentThere(a, o))
  BY <1>2 DEF UpdateRow
<1>3. QED
  BY <1>1, <1>2

LEMMA InsertWrites ==
  ASSUME CInv, DataOK, NEW o \in Instance, NEW a \in Aliases, o = held, InsertRow(o, a)
  PROVE  UNCHANGED data \/ \E new : Writes(o, a, {}, new)
<1> DEFINE id == IF o.id = 0 THEN serial[o.kind][a] + 1 ELSE o.id
           owner == Stamp(o, a)
           new == Written(o, id, a, owner)
           free == ~\E r \in rows : r.kind = o.kind /\ r.at = a /\ r.id = id
           done == free /\ (HasPolicy(o.kind) => new.owner # NoTenant)
                   /\ Admits(a, o.kind, new.owner) /\ ParentThere(a, o)
<1>1. CASE done
  <2>t. /\ tenant \in Scope /\ exposed \in BOOLEAN /\ conn[a].var \in Scope
        /\ o.kind \in Kinds /\ o.id \in 0..MaxId /\ serial[o.kind][a] \in 0..MaxId
        /\ MaxId \in Nat
    BY PinAssumption
       DEF CInv, DataOK, Worker!IInv, Worker!TypeOK, Worker!Scope, Scope, Worker!Connection,
           Instance
  <2>i. id \in Ids
    BY <2>t DEF InsertRow, Ids
  <2>o. owner \in Scope
    BY <2>t DEF Stamp, Instance, Scope, Kinds
  <2>r. /\ rows' = rows \cup {new}
        /\ serial' = IF o.id = 0 THEN [serial EXCEPT ![o.kind][a] = id] ELSE serial
        /\ held' = [o EXCEPT !.id = id, !.owner = IF o.kind = "column" THEN new.owner ELSE @,
                             !.home = IF @ = HomeFor(o.kind) THEN @ ELSE NoTenant]
    BY <1>1 DEF InsertRow
  <2>f. \A r \in rows : ~(r.kind = o.kind /\ r.at = a /\ r.id = id)
    BY <1>1
  <2>a. Admits(a, o.kind, new.owner) /\ ParentThere(a, o)
    BY <1>1
  <2>d. o.kind = "column" => owner = IF o.owner = NoTenant THEN tenant ELSE o.owner
    BY DEF Stamp
  <2> HIDE DEF id, owner, free, done
  <2>w. /\ new \in Row /\ new.kind = o.kind /\ new.id = id /\ new.at = a
        /\ new.owner = owner /\ new.parent = o.parent
        /\ new.plain => /\ override = NoPin /\ tenant # NoTenant /\ ~Bypassed(a) /\ ~exposed
                        /\ HasPolicy(o.kind) \/ o.home = tenant
    BY <2>t, <2>i, <2>o, WrittenFacts
  <2> HIDE DEF new
  <2>h. /\ held' \in Instance /\ held'.kind = o.kind /\ held'.id = id
        /\ held'.parent = o.parent
        /\ held'.owner = IF o.kind = "column" THEN new.owner ELSE o.owner
        /\ held'.home \in {o.home, NoTenant}
        /\ held'.home # NoTenant => o.home = HomeFor(o.kind)
    <3> DEFINE ow == IF o.kind = "column" THEN new.owner ELSE o.owner
               ho == IF o.home = HomeFor(o.kind) THEN o.home ELSE NoTenant
    <3>1. ow \in Scope /\ ho \in Scope /\ id \in 0..MaxId
      BY <2>w, <2>o, <2>i, <2>t DEF Instance, Ids, Scope
    <3>2. held' = [o EXCEPT !.id = id, !.owner = ow, !.home = ho]
      BY <2>r
    <3>3. ho \in {o.home, NoTenant} /\ (ho # NoTenant => o.home = HomeFor(o.kind))
      OBVIOUS
    <3> HIDE DEF ho
    <3>4. held' \in Instance /\ held'.kind = o.kind /\ held'.id = id
          /\ held'.parent = o.parent /\ held'.owner = ow /\ held'.home = ho
      BY <3>1, <3>2 DEF Instance
    <3>5. QED
      BY <3>3, <3>4
  <2>s. serial' \in [Kinds -> [Aliases -> 0..MaxId]]
    <3>1. id \in 0..MaxId
      BY <2>i, <2>t DEF Ids
    <3>2. QED
      BY <2>r, <2>t, <3>1 DEF DataOK
  <2>q. Writes(o, a, {}, new)
    BY <2>w, <2>r, <2>a, <2>d, <2>f, <2>h, <2>s DEF Writes
  <2>z. QED
    BY <2>q
<1>2. CASE ~done
  BY <1>2 DEF InsertRow
<1>3. QED
  BY <1>1, <1>2

\* A save() leaves the data alone or writes one row.
LEMMA SaveWrites ==
  ASSUME CInv, DataOK, Save
  PROVE  /\ held \in Instance /\ Runs(Route(held.kind)) /\ UNCHANGED <<override, pins, exposed>>
         /\ UNCHANGED data \/ \E gone, new : Writes(held, Route(held.kind), gone, new)
<1> DEFINE a == Route(held.kind)
           old == {r \in Seen(a, held.kind) : r.id = held.id}
<1>1. held \in Instance /\ Runs(a) /\ UNCHANGED <<override, pins, exposed>>
  BY DEF Save, DataOK
<1>2. IF old = {} THEN InsertRow(held, a) ELSE \E r \in old : UpdateRow(held, a, r)
  BY DEF Save
<1>3. a \in Aliases
  BY RouteIsAlias
<1> HIDE DEF a
<1>4. CASE old = {}
  BY <1>1, <1>2, <1>3, <1>4, InsertWrites DEF a
<1>5. CASE old # {}
  <2>1. PICK r \in old : UpdateRow(held, a, r)
    BY <1>2, <1>5
  <2>2. r \in Seen(a, held.kind) /\ r.id = held.id /\ r \in rows
    BY <2>1 DEF Seen
  <2>3. UNCHANGED data \/ \E new : Writes(held, a, {r}, new)
    BY <1>1, <1>3, <2>1, <2>2, UpdateWrites
  <2>4. QED
    BY <1>1, <2>3 DEF a
<1>6. QED
  BY <1>4, <1>5

\* A write keeps keys unique and references in place.
LEMMA WriteKeeps ==
  ASSUME DataOK, NEW a \in Aliases, NEW gone, NEW new, Writes(held, a, gone, new),
         UNCHANGED <<override, pins, exposed>>
  PROVE  DataOK'
<1>k. \A r \in gone : r \in rows /\ r.kind = held.kind /\ r.at = a /\ r.id = new.id
  BY DEF Writes, Seen
<1>n. new \in Row /\ new.kind = held.kind /\ new.at = a /\ new.parent = held.parent
  BY DEF Writes
<1>r. rows' = (rows \ gone) \cup {new}
  BY DEF Writes
<1>u. \A r \in rows \ gone : ~(r.kind = held.kind /\ r.at = a /\ r.id = new.id)
  BY DEF Writes
<1>1. rows' \subseteq Row
  BY <1>n, <1>r DEF DataOK
<1>2. \A r, s \in rows' : r.kind = s.kind /\ r.at = s.at /\ r.id = s.id => r = s
  BY <1>n, <1>r, <1>u DEF DataOK
<1>3. ASSUME NEW p \in rows
      PROVE  \E q \in rows' : q.kind = p.kind /\ q.at = p.at /\ q.id = p.id
  BY <1>k, <1>n, <1>r
<1>4. ASSUME NEW r \in rows', r.kind = "child"
      PROVE  \E p \in rows' : p.kind = "column" /\ p.at = r.at /\ p.id = r.parent
  <2>1. \E p \in rows : p.kind = "column" /\ p.at = r.at /\ p.id = r.parent
    <3>1. CASE r = new
      BY <1>4, <1>n, <3>1 DEF Writes, ParentThere
    <3>2. CASE r # new
      BY <1>4, <1>r, <3>2 DEF DataOK, ParentThere
    <3>3. QED
      BY <3>1, <3>2
  <2>2. QED
    BY <2>1, <1>3
<1>5. \A r \in rows' : ParentThere(r.at, r)'
  BY <1>4 DEF ParentThere
<1>6. serial' \in [Kinds -> [Aliases -> 0..MaxId]] /\ held' \in Instance
  BY DEF Writes
<1>7. QED
  BY <1>1, <1>2, <1>5, <1>6 DEF DataOK

\* A delete() takes the children along.
LEMMA DeleteKeeps ==
  ASSUME DataOK, Delete
  PROVE  DataOK'
<1> DEFINE a == Route(held.kind)
           children == {r \in rows : /\ held.kind = "column" /\ r.kind = "child"
                                     /\ r.at = a /\ r.parent = held.id}
           own == {r \in Seen(a, held.kind) : r.id = held.id}
<1>r. rows' = rows \ (children \cup own) /\ held' = Nothing
      /\ UNCHANGED <<override, pins, serial, exposed>>
  BY DEF Delete
<1>1. rows' \subseteq rows
  BY <1>r
<1>2. ASSUME NEW r \in rows', r.kind = "child"
      PROVE  \E p \in rows' : p.kind = "column" /\ p.at = r.at /\ p.id = r.parent
  <2>1. r \in rows /\ r \notin children
    BY <1>r
  <2>2. PICK p \in rows : p.kind = "column" /\ p.at = r.at /\ p.id = r.parent
    BY <1>2, <2>1 DEF DataOK, ParentThere
  <2>3. p \notin children
    BY <2>2
  <2>4. p \notin own
    BY <1>2, <2>1, <2>2 DEF Seen
  <2>5. QED
    BY <1>r, <2>2, <2>3, <2>4
<1>3. \A r \in rows' : ParentThere(r.at, r)'
  BY <1>2 DEF ParentThere
<1>4. QED
  BY <1>r, <1>1, <1>3 DEF DataOK

\* Entering or leaving a pin moves override along the chain of tokens.
LEMMA PinKeeps ==
  ASSUME DataOK, PinsChain,
         \/ \E key \in Pins : PinEnter(key)
         \/ PinExit
  PROVE  DataOK' /\ PinsChain'
<1> DEFINE P == Pins \cup {NoPin}
<1>0. pins \in Seq(P) /\ override \in P /\ MaxPins \in Nat /\ Len(pins) <= MaxPins
  BY PinAssumption DEF DataOK
<1>1. Len(pins) \in Nat
  BY <1>0
<1>2. ASSUME NEW key \in Pins, PinEnter(key)
      PROVE  /\ pins' \in Seq(P) /\ override' \in P /\ Len(pins') <= MaxPins /\ PinsChain'
             /\ UNCHANGED <<data, exposed>>
  <2>1. pins' = Append(pins, override) /\ Len(pins) < MaxPins /\ override' = key
        /\ UNCHANGED <<data, exposed>>
    BY <1>2 DEF PinEnter
  <2>2. pins' \in Seq(P) /\ Len(pins') = Len(pins) + 1
    BY <1>0, <2>1
  <2>3. pins' # <<>> /\ pins'[1] = IF pins = <<>> THEN override ELSE pins[1]
    BY <1>0, <2>1
  <2>4. QED
    BY <1>0, <1>1, <2>1, <2>2, <2>3 DEF PinsChain
<1>3. ASSUME PinExit
      PROVE  /\ pins' \in Seq(P) /\ override' \in P /\ Len(pins') <= MaxPins /\ PinsChain'
             /\ UNCHANGED <<data, exposed>>
  <2>1. pins # <<>> /\ override' = pins[Len(pins)] /\ pins' = SubSeq(pins, 1, Len(pins) - 1)
        /\ UNCHANGED <<data, exposed>>
    BY <1>3 DEF PinExit
  <2> DEFINE n == Len(pins)
  <2>2. n \in Nat /\ n >= 1 /\ n - 1 \in Int /\ pins # <<>>
    BY <1>0, <1>1, <2>1, EmptySeq
  <2>3. \A i \in 1..n : pins[i] \in P
    BY <1>0, LenProperties
  <2> HIDE DEF n, P
  <2>4. \A i \in 1..(n - 1) : pins[i] \in P
    BY <2>2, <2>3
  <2>5. /\ pins' \in Seq(P)
        /\ Len(pins') = IF 1 <= n - 1 THEN n - 1 - 1 + 1 ELSE 0
        /\ \A i \in 1..(n - 1 - 1 + 1) : pins'[i] = pins[1 + i - 1]
    BY <1>0, <2>1, <2>2, <2>4, SubSeqProperties DEF n
  <2>6. Len(pins') = n - 1 /\ (n > 1 => pins'[1] = pins[1])
    BY <2>2, <2>5
  <2>7. override' \in P /\ override' = pins[n] /\ pins[1] = NoPin
    BY <2>1, <2>2, <2>3 DEF PinsChain, n
  <2>8. PinsChain'
    <3>1. CASE n = 1
      <4>1. pins' = <<>>
        BY <2>5, <2>6, <3>1, EmptySeq
      <4>2. QED
        BY <2>7, <3>1, <4>1 DEF PinsChain
    <3>2. CASE n > 1
      <4>1. pins' # <<>>
        BY <2>2, <2>6, <3>2, EmptySeq
      <4>2. QED
        BY <2>6, <2>7, <3>2, <4>1 DEF PinsChain
    <3>3. QED
      BY <2>2, <3>1, <3>2
  <2>9. Len(pins') <= MaxPins
    BY <1>0, <2>2, <2>6 DEF n
  <2>10. QED
    BY <2>1, <2>5, <2>7, <2>8, <2>9
<1>4. QED
  BY <1>2, <1>3 DEF DataOK, data, ParentThere

\* Every step keeps the types.
LEMMA DataStep == CInv /\ DataOK /\ PinsChain /\ [Next]_vars => DataOK' /\ PinsChain'
<1> SUFFICES ASSUME CInv, DataOK, PinsChain, [Next]_vars PROVE DataOK' /\ PinsChain'
  OBVIOUS
<1>q. ASSUME UNCHANGED <<override, pins, data>>, exposed' \in BOOLEAN
      PROVE  DataOK' /\ PinsChain'
  BY <1>q DEF DataOK, PinsChain, data, ParentThere
<1>h. ASSUME UNCHANGED <<override, pins, rows, serial, exposed>>, held' \in Instance
      PROVE  DataOK' /\ PinsChain'
  BY <1>h DEF DataOK, PinsChain, ParentThere
<1>0. exposed \in BOOLEAN /\ tenant \in Scope /\ MaxId \in Nat
  BY PinAssumption DEF DataOK, CInv, Worker!IInv, Worker!TypeOK, Worker!Scope, Scope
<1>f. \A k : HomeFor(k) \in Scope
  BY <1>0 DEF HomeFor, Scope
<1>1. CASE ScopeStep
  <2>1. exposed' \in BOOLEAN /\ UNCHANGED <<override, pins, data>>
    BY <1>1 DEF ScopeStep
  <2>2. QED
    BY <1>q, <2>1
<1>2. CASE (\E key \in Pins : PinEnter(key)) \/ PinExit
  BY <1>2, PinKeeps
<1>3. ASSUME NEW k \in Kinds, NEW t \in Scope, NEW p \in 0..MaxId, Construct(k, t, p)
      PROVE  DataOK' /\ PinsChain'
  <2>1. UNCHANGED <<override, pins, rows, serial, exposed>>
    BY <1>3 DEF Construct
  <2>2. held' = [kind |-> k, id |-> 0, owner |-> t, parent |-> p,
                 home |-> IF t \in {NoTenant, tenant} THEN HomeFor(k) ELSE NoTenant]
    BY <1>3 DEF Construct
  <2>3. (IF t \in {NoTenant, tenant} THEN HomeFor(k) ELSE NoTenant) \in Scope
    BY <1>f DEF Scope
  <2>4. held' \in Instance
    BY <1>0, <2>2, <2>3 DEF Instance
  <2>5. QED
    BY <1>h, <2>1, <2>4
<1>4. ASSUME NEW r \in rows, NEW home \in Scope PROVE InstanceOf(r, home) \in Instance
  <2>1. r \in Row
    BY DEF DataOK
  <2>2. QED
    BY <1>0, <2>1 DEF InstanceOf, Instance, Row, Scope, Ids
<1>5. ASSUME NEW r \in rows, Fetch(r) PROVE DataOK' /\ PinsChain'
  <2>1. UNCHANGED <<override, pins, rows, serial, exposed>>
    BY <1>5 DEF Fetch
  <2>2. held' = InstanceOf(r, IF OwnerOf(r) = tenant THEN HomeFor(r.kind) ELSE NoTenant)
    BY <1>5 DEF Fetch
  <2>3. (IF OwnerOf(r) = tenant THEN HomeFor(r.kind) ELSE NoTenant) \in Scope
    BY <1>f DEF Scope
  <2>4. QED
    BY <1>4, <1>h, <2>1, <2>2, <2>3
<1>6. ASSUME NEW r \in rows, FetchUnscoped(r) PROVE DataOK' /\ PinsChain'
  <2>1. UNCHANGED <<override, pins, rows, serial, exposed>> /\ held' = InstanceOf(r, NoTenant)
    BY <1>6 DEF FetchUnscoped
  <2>2. QED
    BY <1>4, <1>h, <2>1 DEF Scope
<1>7. CASE Save
  <2>1. /\ UNCHANGED <<override, pins, exposed>>
        /\ UNCHANGED data \/ \E gone, new : Writes(held, Route(held.kind), gone, new)
    BY <1>7, SaveWrites
  <2>2. CASE UNCHANGED data
    BY <1>0, <1>q, <2>1, <2>2
  <2>3. CASE \E gone, new : Writes(held, Route(held.kind), gone, new)
    <3>1. DataOK'
      BY <2>1, <2>3, RouteIsAlias, WriteKeeps
    <3>2. QED
      BY <2>1, <3>1 DEF PinsChain
  <2>4. QED
    BY <2>1, <2>2, <2>3
<1>8. CASE Delete
  <2>1. DataOK'
    BY <1>8, DeleteKeeps
  <2>2. QED
    BY <1>8, <2>1 DEF Delete, PinsChain
<1>9. CASE UNCHANGED vars
  BY <1>0, <1>9, <1>q DEF vars
<1>10. QED
  BY <1>1, <1>2, <1>3, <1>5, <1>6, <1>7, <1>8, <1>9 DEF Next

(***************************************************************************)
(* The instance the worker holds                                           *)
(***************************************************************************)

\* What it takes for the keys of an instance to lead home.
LEMMA LeadsColumn ==
  ASSUME NEW o, NEW rs, o.kind = "column", o.home \in Tenants,
         o.owner = o.home \/ (o.owner = NoTenant /\ o.id = 0),
         \A p \in rs : p.kind = "column" /\ p.at = HomeIn(o.home, "column") /\ p.id = o.id
                       => p.owner = o.home
  PROVE  LeadsHome(o, rs)
BY DEF LeadsHome

LEMMA LeadsChild ==
  ASSUME NEW o, NEW rs, o.kind = "child", o.home \in Tenants,
         \A p \in rs : p.kind = "column" /\ p.at = HomeIn(o.home, "column") /\ p.id = o.parent
                       => p.owner = o.home,
         \A r, p \in rs : /\ r.kind = "child" /\ r.at = HomeIn(o.home, "child") /\ r.id = o.id
                          /\ p.kind = "column" /\ p.at = HomeIn(o.home, "column")
                          /\ p.id = r.parent
                          => p.owner = o.home
  PROVE  LeadsHome(o, rs)
BY DEF LeadsHome

\* Where its keys lead.
LEMMA LeadsTo ==
  ASSUME NEW o, NEW rs, LeadsHome(o, rs)
  PROVE  /\ o.home \in Tenants /\ o.kind # "adopted"
         /\ o.kind = "column" =>
               /\ o.owner = o.home \/ (o.owner = NoTenant /\ o.id = 0)
               /\ \A p \in rs : p.kind = "column" /\ p.at = HomeIn(o.home, "column")
                                /\ p.id = o.id => p.owner = o.home
         /\ o.kind = "child" =>
               /\ \A p \in rs : p.kind = "column" /\ p.at = HomeIn(o.home, "column")
                                /\ p.id = o.parent => p.owner = o.home
               /\ \A r, p \in rs : /\ r.kind = "child" /\ r.at = HomeIn(o.home, "child")
                                   /\ r.id = o.id /\ p.kind = "column"
                                   /\ p.at = HomeIn(o.home, "column") /\ p.id = r.parent
                                   => p.owner = o.home
BY DEF LeadsHome

\* All rows a child may belong to are one.
LEMMA OwnerOfChild ==
  ASSUME DataOK, NEW r \in rows, r.kind = "child", NEW p \in rows,
         p.kind = "column", p.at = r.at, p.id = r.parent
  PROVE  OwnerOf(r) = p.owner
<1> DEFINE up == {q \in rows : q.kind = "column" /\ q.at = r.at /\ q.id = r.parent}
<1>1. \A q \in up : q = p
  BY DEF DataOK
<1>2. up # {}
  OBVIOUS
<1>3. (CHOOSE q \in up : TRUE) \in up
  BY <1>2
<1>4. QED
  BY <1>1, <1>2, <1>3 DEF OwnerOf

\* A path-scoped row is routed and at home where the rows with a tenant column are.
LEMMA ChildrenAreBeside ==
  ASSUME NEW t PROVE HomeIn(t, "child") = HomeIn(t, "column")
BY DEF HomeIn

\* Constructing an instance: a new one has no key, and its parent was looked
\* up among the tenant's own rows.
LEMMA ConstructHome ==
  ASSUME CInv, DataOK, NEW k \in Kinds, NEW t \in Scope, NEW p \in 0..MaxId,
         Construct(k, t, p)
  PROVE  HeldHome'
<1> DEFINE home == IF t \in {NoTenant, tenant} THEN HomeFor(k) ELSE NoTenant
<1>1. held' = [kind |-> k, id |-> 0, owner |-> t, parent |-> p, home |-> home] /\ rows' = rows
  BY DEF Construct
<1>0. tenant \in Scope /\ \A r \in rows : r.id # 0
  BY PinAssumption
     DEF CInv, DataOK, Worker!IInv, Worker!TypeOK, Worker!Scope, Scope, Row, Ids
<1>2. SUFFICES ASSUME home # NoTenant PROVE LeadsHome(held', rows)
  BY <1>1 DEF HeldHome
<1>3. home = tenant /\ tenant \in Tenants /\ override = NoPin /\ k # "adopted"
      /\ t \in {NoTenant, tenant}
  BY <1>0, <1>2 DEF HomeFor, Scope
<1>g. (t # NoTenant => k = "column")
      /\ (k = "child" => \E q \in Filtered(Route("column"), "column") : q.id = p)
  BY DEF Construct
<1> HIDE DEF home
<1>4. /\ held'.kind = k /\ held'.id = 0 /\ held'.owner = t /\ held'.parent = p
      /\ held'.home = tenant
  BY <1>1, <1>3
<1>5. CASE k = "column"
  BY <1>0, <1>3, <1>4, <1>5, LeadsColumn
<1>6. CASE k = "child"
  <2>1. Route("column") = HomeIn(tenant, "column")
    BY <1>3, RouteIsHome
  <2>2. PICK q \in Filtered(Route("column"), "column") : q.id = p
    BY <1>6, <1>g
  <2>3. q \in rows /\ q.kind = "column" /\ q.at = HomeIn(tenant, "column") /\ q.owner = tenant
    BY <2>1, <2>2 DEF Filtered, Seen
  <2>4. \A r \in rows : r.kind = "column" /\ r.at = HomeIn(tenant, "column") /\ r.id = p
                        => r.owner = tenant
    BY <2>2, <2>3 DEF DataOK
  <2>5. QED
    BY <1>0, <1>3, <1>4, <1>6, <2>4, LeadsChild
<1>7. QED
  BY <1>3, <1>5, <1>6 DEF Kinds

\* Fetching one: the row is where its tenant's rows are.
LEMMA FetchHome ==
  ASSUME CInv, DataOK, NEW r \in rows, Fetch(r)
  PROVE  HeldHome'
<1> DEFINE home == IF OwnerOf(r) = tenant THEN HomeFor(r.kind) ELSE NoTenant
<1>1. held' = InstanceOf(r, home) /\ rows' = rows
  BY DEF Fetch
<1>0. tenant \in Scope /\ r.kind \in Kinds
  BY DEF CInv, DataOK, Worker!IInv, Worker!TypeOK, Worker!Scope, Scope, Row
<1>2. SUFFICES ASSUME home # NoTenant PROVE LeadsHome(held', rows)
  BY <1>1 DEF HeldHome, InstanceOf
<1>3. /\ home = tenant /\ tenant \in Tenants /\ override = NoPin /\ r.kind # "adopted"
      /\ OwnerOf(r) = tenant
  BY <1>0, <1>2 DEF HomeFor, Scope
<1>4. r.at = HomeIn(tenant, r.kind)
  <2>1. r.at = Route(r.kind)
    BY DEF Fetch, Filtered, Seen
  <2>2. QED
    BY <1>3, <2>1, RouteIsHome
<1> HIDE DEF home
<1>5. /\ held'.kind = r.kind /\ held'.id = r.id /\ held'.parent = r.parent
      /\ held'.home = tenant
      /\ held'.owner = IF r.kind = "column" THEN r.owner ELSE NoTenant
  BY <1>1, <1>3 DEF InstanceOf
<1>6. CASE r.kind = "column"
  <2>1. r.owner = tenant
    BY <1>3, <1>6 DEF OwnerOf
  <2>2. \A p \in rows : p.kind = "column" /\ p.at = HomeIn(tenant, "column") /\ p.id = r.id
                        => p.owner = tenant
    BY <1>4, <1>6, <2>1 DEF DataOK
  <2>3. QED
    BY <1>3, <1>5, <1>6, <2>1, <2>2, LeadsColumn
<1>7. CASE r.kind = "child"
  <2>1. r.at = HomeIn(tenant, "column")
    BY <1>4, <1>7, ChildrenAreBeside
  <2>2. \A p \in rows : p.kind = "column" /\ p.at = HomeIn(tenant, "column") /\ p.id = r.parent
                        => p.owner = tenant
    BY <1>3, <1>7, <2>1, OwnerOfChild
  <2>3. \A s \in rows : s.kind = "child" /\ s.at = HomeIn(tenant, "child") /\ s.id = r.id
                        => s = r
    BY <1>4, <1>7 DEF DataOK
  <2>4. QED
    BY <1>3, <1>5, <1>7, <2>2, <2>3, LeadsChild
<1>8. QED
  BY <1>0, <1>3, <1>6, <1>7 DEF Kinds

\* Writing it: the row written is the home tenant's, and an inserted row lies
\* where the instance belongs, or the instance is at home no more.
LEMMA WriteHome ==
  ASSUME CInv, DataOK, HeldHome, held \in Instance, NEW gone, NEW new,
         Writes(held, Route(held.kind), gone, new)
  PROVE  HeldHome'
<1> DEFINE a == Route(held.kind)
           t == held.home
<1>1. SUFFICES ASSUME held'.home # NoTenant PROVE LeadsHome(held', rows')
  BY DEF HeldHome
<1>n. /\ new.kind = held.kind /\ new.at = a /\ new.parent = held.parent
      /\ held'.kind = held.kind /\ held'.id = new.id /\ held'.parent = held.parent
      /\ held'.owner = IF held.kind = "column" THEN new.owner ELSE held.owner
      /\ held'.home = t /\ t # NoTenant
      /\ rows' = (rows \ gone) \cup {new}
  BY <1>1 DEF Writes
<1>u. /\ \A r \in rows \ gone : ~(r.kind = held.kind /\ r.at = a /\ r.id = new.id)
      /\ gone # {} => held.id = new.id /\ held.id # 0
  <2>1. gone # {} => held.id = new.id /\ new.id # 0
    BY PinAssumption DEF Writes, Row, Ids
  <2>2. QED
    BY <2>1 DEF Writes
<1>2. held # Nothing
  BY DEF Nothing, Instance, Kinds
<1>3. LeadsHome(held, rows)
  BY <1>2, <1>n DEF HeldHome
<1>4. t \in Tenants /\ held.kind # "adopted" /\ held.kind \in Kinds
  BY <1>3, LeadsTo DEF Instance
<1>5. gone = {} => t = tenant /\ a = HomeIn(t, held.kind)
  <2>1. gone = {} => t = HomeFor(held.kind)
    BY <1>n DEF Writes
  <2>2. gone = {} => t = tenant /\ override = NoPin
    BY <1>n, <2>1 DEF HomeFor
  <2>3. QED
    BY <1>4, <2>2, RouteIsHome
<1> HIDE DEF a, t
<1>6. CASE held.kind = "column"
  <2>1. /\ held.owner = t \/ (held.owner = NoTenant /\ held.id = 0)
        /\ \A p \in rows : p.kind = "column" /\ p.at = HomeIn(t, "column") /\ p.id = held.id
                           => p.owner = t
    BY <1>3, <1>6, LeadsTo DEF t
  <2>2. new.owner = t
    <3>1. new.owner = IF held.owner = NoTenant THEN tenant ELSE held.owner
      BY <1>6, <1>n DEF Writes
    <3>2. QED
      BY <1>5, <1>n, <1>u, <2>1, <3>1
  <2>3. \A p \in rows' : p.kind = "column" /\ p.at = HomeIn(t, "column") /\ p.id = new.id
                         => p.owner = t
    <3> SUFFICES ASSUME NEW p \in rows', p.kind = "column", p.at = HomeIn(t, "column"),
                        p.id = new.id
                 PROVE  p.owner = t
      OBVIOUS
    <3>1. CASE p = new
      BY <2>2, <3>1
    <3>2. CASE p # new
      <4>1. p \in rows \ gone
        BY <1>n, <3>2
      <4>2. gone # {}
        BY <1>5, <1>6, <1>u, <4>1
      <4>3. QED
        BY <1>u, <2>1, <4>1, <4>2
    <3>3. QED
      BY <3>1, <3>2
  <2>4. QED
    BY <1>4, <1>6, <1>n, <2>2, <2>3, LeadsColumn
<1>7. CASE held.kind = "child"
  <2>1. /\ \A p \in rows : p.kind = "column" /\ p.at = HomeIn(t, "column")
                           /\ p.id = held.parent => p.owner = t
        /\ \A r, p \in rows : /\ r.kind = "child" /\ r.at = HomeIn(t, "child")
                              /\ r.id = held.id /\ p.kind = "column"
                              /\ p.at = HomeIn(t, "column") /\ p.id = r.parent
                              => p.owner = t
    BY <1>3, <1>7, LeadsTo DEF t
  <2>2. \A p \in rows' : p.kind = "column" => p \in rows
    BY <1>7, <1>n
  <2>3. ASSUME NEW r \in rows', NEW p \in rows',
               r.kind = "child", r.at = HomeIn(t, "child"), r.id = new.id,
               p.kind = "column", p.at = HomeIn(t, "column"), p.id = r.parent
        PROVE  p.owner = t
    <3>1. CASE r = new
      BY <1>n, <2>1, <2>2, <2>3, <3>1
    <3>2. CASE r # new
      <4>1. r \in rows \ gone
        BY <1>n, <3>2
      <4>2. gone # {}
        BY <1>5, <1>7, <1>u, <2>3, <4>1
      <4>3. QED
        BY <1>u, <2>1, <2>2, <2>3, <4>1, <4>2
    <3>3. QED
      BY <3>1, <3>2
  <2>4. \A p \in rows' : p.kind = "column" /\ p.at = HomeIn(t, "column") /\ p.id = held.parent
                         => p.owner = t
    BY <2>1, <2>2
  <2>5. QED
    BY <1>4, <1>7, <1>n, <2>3, <2>4, LeadsChild
<1>8. QED
  BY <1>4, <1>6, <1>7 DEF Kinds

\* Every step leaves it so.
LEMMA HomeStep == CInv /\ DataOK /\ HeldHome /\ [Next]_vars => HeldHome'
<1> SUFFICES ASSUME CInv, DataOK, HeldHome, [Next]_vars PROVE HeldHome'
  OBVIOUS
<1>q. ASSUME UNCHANGED data PROVE HeldHome'
  BY <1>q DEF HeldHome, data
<1>1. CASE ScopeStep \/ (\E key \in Pins : PinEnter(key)) \/ PinExit
  BY <1>1, <1>q DEF ScopeStep, PinEnter, PinExit
<1>2. ASSUME NEW r \in rows, FetchUnscoped(r) PROVE HeldHome'
  BY <1>2 DEF FetchUnscoped, InstanceOf, HeldHome
<1>3. CASE Save
  <2>1. /\ held \in Instance
        /\ UNCHANGED data \/ \E gone, new : Writes(held, Route(held.kind), gone, new)
    BY <1>3, SaveWrites
  <2>2. QED
    BY <1>q, <2>1, WriteHome
<1>4. CASE Delete
  BY <1>4 DEF Delete, HeldHome
<1>5. CASE UNCHANGED vars
  BY <1>5, <1>q DEF vars
<1>6. QED
  BY <1>1, <1>2, <1>3, <1>4, <1>5, ConstructHome, FetchHome DEF Next

(***************************************************************************)
(* The rows written plainly                                                *)
(***************************************************************************)

\* Where every routed database has policies, a plain write is admitted in the
\* active tenant's name, or is of a row that was plain before.
LEMMA WritePlain ==
  ASSUME CInv, DataOK, RowsHome, PostgresRoutes,
         NEW gone, NEW new, Runs(Route(held.kind)),
         Writes(held, Route(held.kind), gone, new)
  PROVE  RowsHome'
<1> DEFINE a == Route(held.kind)
<1>n. /\ new.kind = held.kind /\ new.at = a /\ rows' = (rows \ gone) \cup {new}
      /\ Admits(a, new.kind, new.owner)
  BY DEF Writes
<1>0. tenant \in Scope
  BY DEF CInv, Worker!IInv, Worker!TypeOK, Worker!Scope, Scope
<1>1. ASSUME new.plain, HasPolicy(new.kind)
      PROVE  new.owner \in Tenants /\ new.at = HomeIn(new.owner, new.kind)
  <2>1. override = NoPin /\ tenant \in Tenants /\ ~Bypassed(a) /\ ~exposed
    BY <1>0, <1>1 DEF Writes, Scope
  <2>2. new.owner = tenant
    BY <1>1, <1>n, <2>1, AdmittedIsOwn
  <2>3. a = HomeIn(tenant, held.kind)
    BY <2>1, RouteIsHome
  <2>4. QED
    BY <1>n, <2>1, <2>2, <2>3
<1> HIDE DEF a
<1>2. ASSUME NEW r \in rows', r.plain, HasPolicy(r.kind)
      PROVE  r.owner \in Tenants /\ r.at = HomeIn(r.owner, r.kind)
  BY <1>1, <1>2, <1>n DEF RowsHome
<1>3. QED
  BY <1>2 DEF RowsHome

LEMMA RowsStep ==
  ASSUME PostgresRoutes
  PROVE  CInv /\ DataOK /\ RowsHome /\ [Next]_vars => RowsHome'
<1> SUFFICES ASSUME CInv, DataOK, RowsHome, [Next]_vars PROVE RowsHome'
  OBVIOUS
<1>q. ASSUME rows' \subseteq rows PROVE RowsHome'
  BY <1>q DEF RowsHome
<1>1. CASE Save
  <2>1. /\ Runs(Route(held.kind))
        /\ UNCHANGED data \/ \E gone, new : Writes(held, Route(held.kind), gone, new)
    BY <1>1, SaveWrites
  <2>2. CASE UNCHANGED data
    BY <1>q, <2>2 DEF data
  <2>3. QED
    BY <2>1, <2>2, WritePlain
<1>2. CASE ~Save
  <2>1. ScopeStep \/ (\E key \in Pins : PinEnter(key)) \/ PinExit \/ UNCHANGED vars
           => rows' \subseteq rows
    BY DEF ScopeStep, PinEnter, PinExit, vars, data
  <2>2. \A k \in Kinds, t \in Scope, p \in 0..MaxId : Construct(k, t, p) => rows' \subseteq rows
    BY DEF Construct
  <2>3. \A r \in rows : Fetch(r) \/ FetchUnscoped(r) => rows' \subseteq rows
    BY DEF Fetch, FetchUnscoped
  <2>4. Delete => rows' \subseteq rows
    BY DEF Delete
  <2>5. QED
    BY <1>2, <1>q, <2>1, <2>2, <2>3, <2>4 DEF Next
<1>3. QED
  BY <1>1, <1>2

(***************************************************************************)
(* The inductive invariant                                                 *)
(***************************************************************************)

OInv == CInv /\ DataOK /\ PinsChain /\ HeldHome

LEMMA OInvInit == Init => OInv /\ RowsHome
<1> SUFFICES ASSUME Init PROVE OInv /\ RowsHome
  OBVIOUS
<1>1. CInv
  BY InitContext
<1>2. DataOK
  <2>1. 0 \in 0..MaxId /\ <<>> \in Seq(Pins \cup {NoPin}) /\ Len(<<>>) <= MaxPins
    BY PinAssumption
  <2>2. serial \in [Kinds -> [Aliases -> 0..MaxId]]
    BY <2>1 DEF Init
  <2>3. QED
    BY <2>1, <2>2 DEF Init, DataOK
<1>3. PinsChain /\ HeldHome /\ RowsHome
  BY DEF Init, PinsChain, HeldHome, RowsHome
<1>4. QED
  BY <1>1, <1>2, <1>3 DEF OInv

LEMMA OInvStep == OInv /\ [Next]_vars => OInv'
BY ContextStep, DataStep, HomeStep DEF OInv

LEMMA OInvariance == Spec => []OInv
<1>1. Init => OInv
  BY OInvInit
<1>2. QED
  BY <1>1, OInvStep, PTL DEF Spec

\* The variables have their types, for any regions, pins and settings: whatever
\* scopes and pins nest, the override is a key or none, and what save() writes
\* and leaves in the instance is a row and an instance.
THEOREM TypeCorrect == Spec => []TypeOK
<1>1. OInv => TypeOK
  <2> SUFFICES ASSUME OInv PROVE TypeOK
    OBVIOUS
  <2>1. Ctx!TypeOK
    BY DEF OInv, CInv, Worker!IInv, Worker!TypeOK, Ctx!TypeOK, Worker!Scope, Ctx!Scope,
           Worker!Frame, Ctx!Frame, Worker!Kinds, Ctx!Kinds, Worker!Connection, Ctx!Connection
  <2>2. QED
    BY <2>1 DEF OInv, DataOK, TypeOK
<1>2. QED
  BY <1>1, OInvariance, PTL

\* No pin is open, so there is no override.
LEMMA NoPinsNoOverride == PinsChain /\ pins = <<>> => override = NoPin
BY DEF PinsChain

\* Where every routed database is PostgreSQL, a statement the router sends
\* anywhere while a tenant is active sees that tenant's rows and no other's
\* (RegionalRouter._route against TenantContext._target_aliases).
THEOREM ReadsHold ==
  ASSUME PostgresRoutes
  PROVE  Spec => []ReadsStayHome
<1>1. OInv => ReadsStayHome
  <2> SUFFICES ASSUME OInv, PlainScope, NEW k \in {"column", "adopted"},
                      Runs(Route(k)), ~Bypassed(Route(k)), NEW r \in Seen(Route(k), k)
               PROVE  r.owner = tenant
    BY DEF ReadsStayHome
  <2>1. tenant \in Tenants
    BY DEF OInv, CInv, Worker!IInv, Worker!TypeOK, Worker!Scope, PlainScope
  <2>2. override = NoPin /\ ~exposed
    BY NoPinsNoOverride DEF OInv, PlainScope
  <2>3. HasPolicy(k) /\ Admits(Route(k), k, r.owner)
    BY DEF HasPolicy, Seen
  <2>4. QED
    BY <2>1, <2>2, <2>3, AdmittedIsOwn DEF OInv
<1>2. QED
  BY <1>1, OInvariance, PTL

\* Inside using() the active tenant is in force wherever it is routed to.
LEMMA UsingInForce ==
  ASSUME CInv, PostgresRoutes, tenant \in Tenants, override = NoPin, ~exposed,
         InUsing, WrapAtomic, SetDbSessionVar, NEW k, Runs(Route(k))
  PROVE  conn[Route(k)].var = tenant
<1> DEFINE a == Route(k)
<1>1. a \in Aliases \cap Postgres /\ a \in Worker!TargetAliases(tenant) /\ ~conn[a].aborted
  BY RouteIsAlias, RouteIsHome DEF Runs, PostgresRoutes
<1> HIDE DEF a
<1>2. Ctx!Setter = Worker!Setter
  BY DEF Ctx!Setter, Worker!Setter
<1>3. Worker!Setter > 0 /\ frames[Worker!Setter].kind = "using"
  BY <1>2 DEF InUsing
<1>4. Worker!IInv /\ Worker!ForceOn(Aliases) /\ tenant # NoTenant /\ Aliases \in SUBSET Aliases
  BY WorkerAssumptions DEF CInv, Worker!TenantAssumption
<1>5. a \in IF frames[Worker!Setter].kind = "using"
            THEN Worker!TargetAliases(tenant) ELSE {Default}
  BY <1>1, <1>3
<1>6. conn[a].inTx /\ (Worker!Usable(conn[a]) => conn[a].var = tenant)
  BY <1>1, <1>3, <1>4, <1>5, WorkerAssumptions, Worker!BodyInForce
<1>7. QED
  BY <1>1, <1>6 DEF Worker!Usable, a

\* Where every routed database is PostgreSQL, the body of using() finds
\* whatever its tenant wrote through the default manager in an earlier scope
\* (RegionalRouter._route, TenantContext._target_aliases and
\* TenantManager.get_queryset agree from one scope to the next).
THEOREM UsingFinds ==
  ASSUME PostgresRoutes
  PROVE  Spec => []UsingFindsItsRows
<1>1. OInv /\ RowsHome => UsingFindsItsRows
  <2> SUFFICES ASSUME OInv, RowsHome, PlainScope, InUsing, WrapAtomic, SetDbSessionVar,
                      NEW r \in rows, Plain(r), OwnerOf(r) = tenant, Runs(Route(r.kind))
               PROVE  r \in Filtered(Route(r.kind), r.kind)
    BY DEF UsingFindsItsRows
  <2>1. tenant \in Tenants /\ tenant # NoTenant /\ r.kind \in Kinds
    BY DEF OInv, CInv, DataOK, Worker!IInv, Worker!TypeOK, Worker!Scope, PlainScope, Row
  <2>2. override = NoPin /\ ~exposed
    BY NoPinsNoOverride DEF OInv, PlainScope
  <2>3. ASSUME NEW p \in rows, HasPolicy(p.kind), p.plain, p.owner = tenant,
               Runs(Route(p.kind))
        PROVE  p \in Seen(Route(p.kind), p.kind)
    <3>1. p.at = Route(p.kind)
      BY <2>1, <2>2, <2>3, RouteIsHome DEF RowsHome
    <3>2. conn[Route(p.kind)].var = tenant
      BY <2>1, <2>2, <2>3, UsingInForce DEF OInv
    <3>3. QED
      BY <2>1, <2>3, <3>1, <3>2 DEF Seen, Admits
  <2>4. CASE r.kind \in {"column", "adopted"}
    <3>1. r.owner = tenant /\ r.plain /\ HasPolicy(r.kind)
      BY <2>4 DEF OwnerOf, Plain, HasPolicy
    <3>2. r \in Seen(Route(r.kind), r.kind)
      BY <2>3, <3>1
    <3>3. QED
      BY <2>4, <3>1, <3>2 DEF Filtered
  <2>5. CASE r.kind = "child"
    <3>1. PICK p \in rows : p.kind = "column" /\ p.at = r.at /\ p.id = r.parent
      BY <2>5 DEF OInv, DataOK, ParentThere
    <3>2. p.owner = tenant /\ p.plain /\ HasPolicy(p.kind)
      BY <2>5, <3>1, OwnerOfChild DEF OInv, Plain, HasPolicy
    <3>3. Route("child") = Route("column")
      BY DEF Route
    <3>4. p \in Seen(Route("column"), "column")
      BY <2>3, <2>5, <3>1, <3>2, <3>3
    <3>5. r \in Seen(Route("child"), "child")
      BY <2>5, <3>1, <3>3, <3>4 DEF Seen, Admits, HasPolicy
    <3>6. QED
      BY <2>5, <3>1, <3>3, <3>4, <3>5 DEF Filtered
  <2>6. QED
    BY <2>1, <2>4, <2>5 DEF Kinds
<1>2. OInv /\ RowsHome /\ [Next]_vars => OInv' /\ RowsHome'
  BY OInvStep, RowsStep DEF OInv
<1>3. QED
  BY <1>1, <1>2, OInvInit, PTL DEF Spec

(***************************************************************************)
(* Data residency                                                          *)
(***************************************************************************)

\* The tenant of a row among the rows rs.
OwnerIn(rs, r) ==
    IF r.kind # "child" THEN r.owner
    ELSE LET up == {p \in rs : p.kind = "column" /\ p.at = r.at /\ p.id = r.parent}
         IN  IF up = {} THEN NoTenant ELSE (CHOOSE p \in up : TRUE).owner

LEMMA OwnerNow == \A r : OwnerOf(r) = OwnerIn(rows, r)
BY DEF OwnerOf, OwnerIn

LEMMA OwnerNext == \A r : (OwnerOf(r))' = OwnerIn(rows', r)
BY DEF OwnerOf, OwnerIn

LEMMA OwnerInChild ==
  ASSUME NEW rs, \A p, q \in rs : p.kind = q.kind /\ p.at = q.at /\ p.id = q.id => p = q,
         NEW r, r.kind = "child", NEW p \in rs, p.kind = "column", p.at = r.at,
         p.id = r.parent
  PROVE  OwnerIn(rs, r) = p.owner
<1> DEFINE up == {q \in rs : q.kind = "column" /\ q.at = r.at /\ q.id = r.parent}
<1>1. \A q \in up : q = p
  OBVIOUS
<1>2. up # {}
  OBVIOUS
<1>3. (CHOOSE q \in up : TRUE) \in up
  BY <1>2
<1>4. QED
  BY <1>1, <1>2, <1>3 DEF OwnerIn

\* What a step may change while tenant is active and unpinned: row r of the
\* rows rs.
StaysHome(r, rs) == r.at = HomeOf(r.kind) /\ OwnerIn(rs, r) = tenant

\* A child row that the home instance's key, or its reference, leads to.
LEMMA ChildStaysHome ==
  ASSUME tenant \in Tenants,
         NEW rs, \A p, q \in rs : p.kind = q.kind /\ p.at = q.at /\ p.id = q.id => p = q,
         NEW r, r.kind = "child", r.at = HomeIn(tenant, "child"),
         \E p \in rs : p.kind = "column" /\ p.at = r.at /\ p.id = r.parent,
         \A p \in rs : p.kind = "column" /\ p.at = HomeIn(tenant, "column") /\ p.id = r.parent
                       => p.owner = tenant
  PROVE  StaysHome(r, rs)
<1>1. PICK p \in rs : p.kind = "column" /\ p.at = r.at /\ p.id = r.parent
  OBVIOUS
<1>2. p.owner = tenant
  BY <1>1, ChildrenAreBeside
<1>3. OwnerIn(rs, r) = p.owner
  BY <1>1, OwnerInChild
<1>4. QED
  BY <1>2, <1>3 DEF StaysHome, HomeOf

\* A row of a model with policies, on the routed alias.
LEMMA PolicyStaysHome ==
  ASSUME CInv, PostgresRoutes, tenant \in Tenants, override = NoPin, ~exposed,
         NEW rs, NEW r, HasPolicy(r.kind), r.at = Route(r.kind), Runs(r.at), ~Bypassed(r.at),
         Admits(r.at, r.kind, r.owner)
  PROVE  StaysHome(r, rs)
<1>1. r.owner = tenant
  BY AdmittedIsOwn
<1>2. r.at = HomeIn(tenant, r.kind)
  BY RouteIsHome
<1>3. QED
  BY <1>1, <1>2 DEF StaysHome, OwnerIn, HasPolicy, HomeOf

\* What a save() changes: the row it replaces and the row it writes.
LEMMA WriteStaysHome ==
  ASSUME OInv, DataOK', PostgresRoutes, tenant \in Tenants, override = NoPin, ~exposed,
         held \in Instance, Runs(Route(held.kind)), NEW gone, NEW new,
         Writes(held, Route(held.kind), gone, new),
         NEW r, ~Bypassed(r.at), HasPolicy(r.kind) \/ held.home = tenant
  PROVE  /\ r \in gone => StaysHome(r, rows)
         /\ r = new => StaysHome(r, rows')
<1> DEFINE a == Route(held.kind)
<1>k. /\ \A s \in gone : s \in rows /\ s.kind = held.kind /\ s.at = a /\ s.id = held.id
                         /\ Admits(a, held.kind, s.owner)
      /\ new.kind = held.kind /\ new.at = a /\ new.parent = held.parent
      /\ Admits(a, held.kind, new.owner) /\ ParentThere(a, held)
      /\ rows' = (rows \ gone) \cup {new}
  BY DEF Writes, Seen
<1>1. CASE HasPolicy(held.kind)
  BY <1>1, <1>k, PolicyStaysHome DEF OInv
<1>2. CASE ~HasPolicy(held.kind)
  <2>1. SUFFICES ASSUME r \in gone \/ r = new
                 PROVE  /\ r \in gone => StaysHome(r, rows)
                        /\ r = new => StaysHome(r, rows')
    OBVIOUS
  <2>2. held.kind = "child" /\ r.kind = "child" /\ r.at = a /\ held.home = tenant
    BY <1>2, <1>k, <2>1 DEF HasPolicy
  <2>3. a = HomeIn(tenant, "child")
    BY <2>2, RouteIsHome
  <2>4. tenant # NoTenant /\ held # Nothing
    BY WorkerAssumptions DEF Worker!TenantAssumption, Nothing, Instance, Kinds
  <2>5. LeadsHome(held, rows)
    BY <2>2, <2>4 DEF OInv, HeldHome
  <2> HIDE DEF a
  <2>6. /\ \A p \in rows : p.kind = "column" /\ p.at = HomeIn(tenant, "column")
                           /\ p.id = held.parent => p.owner = tenant
        /\ \A s, p \in rows : /\ s.kind = "child" /\ s.at = HomeIn(tenant, "child")
                              /\ s.id = held.id /\ p.kind = "column"
                              /\ p.at = HomeIn(tenant, "column") /\ p.id = s.parent
                              => p.owner = tenant
    BY <2>2, <2>5, LeadsTo
  <2>7. /\ \A p, q \in rows : p.kind = q.kind /\ p.at = q.at /\ p.id = q.id => p = q
        /\ \A p, q \in rows' : p.kind = q.kind /\ p.at = q.at /\ p.id = q.id => p = q
    BY DEF OInv, DataOK
  <2>8. ASSUME r \in gone PROVE StaysHome(r, rows)
    <3>1. r \in rows /\ r.id = held.id
      BY <1>k, <2>8
    <3>2. \E p \in rows : p.kind = "column" /\ p.at = r.at /\ p.id = r.parent
      BY <2>2, <3>1 DEF OInv, DataOK, ParentThere
    <3>3. \A p \in rows : p.kind = "column" /\ p.at = HomeIn(tenant, "column")
                          /\ p.id = r.parent => p.owner = tenant
      BY <2>2, <2>3, <2>6, <3>1
    <3>4. QED
      BY <2>2, <2>3, <2>7, <3>2, <3>3, ChildStaysHome
  <2>9. ASSUME r = new PROVE StaysHome(r, rows')
    <3>1. r.parent = held.parent
      BY <1>k, <2>9
    <3>2. \A p : p.kind = "column" => (p \in rows <=> p \in rows')
      BY <1>k, <2>2
    <3>3. \E p \in rows : p.kind = "column" /\ p.at = r.at /\ p.id = r.parent
      BY <1>k, <2>2, <3>1 DEF ParentThere, a
    <3>4. \E p \in rows' : p.kind = "column" /\ p.at = r.at /\ p.id = r.parent
      BY <3>2, <3>3
    <3>5. \A p \in rows' : p.kind = "column" /\ p.at = HomeIn(tenant, "column")
                           /\ p.id = r.parent => p.owner = tenant
      BY <2>6, <3>1, <3>2
    <3>6. QED
      BY <2>2, <2>3, <2>7, <3>4, <3>5, ChildStaysHome
  <2>10. QED
    BY <2>8, <2>9
<1>3. QED
  BY <1>1, <1>2

\* What a delete() removes: the row, and the children found beside it.
LEMMA DeleteStaysHome ==
  ASSUME OInv, PostgresRoutes, tenant \in Tenants, override = NoPin, ~exposed, Delete,
         NEW r \in rows, r \notin rows', ~Bypassed(r.at),
         HasPolicy(r.kind) \/ held.home = tenant
  PROVE  StaysHome(r, rows)
<1> DEFINE a == Route(held.kind)
           children == {s \in rows : /\ held.kind = "column" /\ s.kind = "child"
                                     /\ s.at = a /\ s.parent = held.id}
           own == {s \in Seen(a, held.kind) : s.id = held.id}
<1>1. Runs(a) /\ r \in children \cup own /\ held # Nothing
  BY DEF Delete
<1>2. r.at = a /\ r.kind \in {held.kind, "child"}
  BY <1>1 DEF Seen
<1>3. CASE HasPolicy(r.kind)
  <2>1. r \in own
    BY <1>1, <1>3 DEF HasPolicy
  <2>2. r.kind = held.kind /\ Admits(a, r.kind, r.owner)
    BY <2>1 DEF Seen
  <2>3. QED
    BY <1>1, <1>2, <1>3, <2>2, PolicyStaysHome DEF OInv
<1>4. CASE ~HasPolicy(r.kind)
  <2>1. r.kind = "child" /\ held.home = tenant /\ tenant # NoTenant
    BY <1>4, WorkerAssumptions DEF HasPolicy, Worker!TenantAssumption
  <2>2. LeadsHome(held, rows)
    BY <1>1, <2>1 DEF OInv, HeldHome
  <2>3. r.at = HomeIn(tenant, "child")
    BY <1>1, <1>2, <2>1, RouteIsHome, ChildrenAreBeside DEF Seen
  <2>4. \E p \in rows : p.kind = "column" /\ p.at = r.at /\ p.id = r.parent
    BY <2>1 DEF OInv, DataOK, ParentThere
  <2>5. \A p \in rows : p.kind = "column" /\ p.at = HomeIn(tenant, "column")
                        /\ p.id = r.parent => p.owner = tenant
    <3>1. CASE r \in children
      <4>1. held.kind = "column" /\ r.parent = held.id
        BY <3>1
      <4>2. QED
        BY <2>1, <2>2, <4>1, LeadsTo
    <3>2. CASE r \in own
      <4>1. held.kind = "child" /\ r.id = held.id
        BY <2>1, <3>2 DEF Seen
      <4>2. QED
        BY <2>1, <2>2, <2>3, <4>1, LeadsTo
    <3>3. QED
      BY <1>1, <3>1, <3>2
  <2>6. \A p, q \in rows : p.kind = q.kind /\ p.at = q.at /\ p.id = q.id => p = q
    BY DEF OInv, DataOK
  <2>7. QED
    BY <2>1, <2>3, <2>4, <2>5, <2>6, ChildStaysHome
<1>5. QED
  BY <1>3, <1>4

\* Where every routed database is PostgreSQL, what a write changes while a
\* tenant is active is that tenant's and lies in its region, wherever the
\* instance written came from (save() and delete() through RegionalRouter).
THEOREM ChangesHold ==
  ASSUME PostgresRoutes
  PROVE  Spec => ChangesStayHome
<1> DEFINE A == PlainScope =>
              \A r \in (rows \cup rows') \ (rows \cap rows') :
                 ~Bypassed(r.at) /\ (HasPolicy(r.kind) \/ held.home = tenant) =>
                    /\ r.at = HomeOf(r.kind)
                    /\ IF r \in rows THEN OwnerOf(r) = tenant ELSE (OwnerOf(r))' = tenant
<1>1. OInv /\ OInv' /\ [Next]_vars => [A]_rows
  <2> SUFFICES ASSUME OInv, OInv', [Next]_vars, rows' # rows, PlainScope,
                      NEW r \in (rows \cup rows') \ (rows \cap rows'),
                      ~Bypassed(r.at), HasPolicy(r.kind) \/ held.home = tenant
               PROVE  IF r \in rows THEN StaysHome(r, rows) ELSE StaysHome(r, rows')
    BY OwnerNow, OwnerNext DEF StaysHome
  <2>1. tenant \in Tenants /\ override = NoPin /\ ~exposed /\ DataOK'
    BY NoPinsNoOverride
       DEF OInv, CInv, Worker!IInv, Worker!TypeOK, Worker!Scope, PlainScope
  <2>2. Save \/ Delete
    BY DEF Next, ScopeStep, PinEnter, PinExit, Construct, Fetch, FetchUnscoped, vars, data
  <2>3. CASE Delete
    <3>1. rows' \subseteq rows
      BY <2>3 DEF Delete
    <3>2. QED
      BY <2>1, <2>3, <3>1, DeleteStaysHome
  <2>4. CASE Save
    <3>1. /\ held \in Instance /\ Runs(Route(held.kind))
          /\ UNCHANGED data \/ \E gone, new : Writes(held, Route(held.kind), gone, new)
      BY <2>4, SaveWrites DEF OInv
    <3>2. PICK gone, new : Writes(held, Route(held.kind), gone, new)
      BY <3>1 DEF data
    <3>3. (r \in gone /\ r \in rows) \/ (r = new /\ r \notin rows)
      BY <3>2 DEF Writes, Seen
    <3>4. QED
      BY <2>1, <3>1, <3>2, <3>3, WriteStaysHome
  <2>5. QED
    BY <2>2, <2>3, <2>4
<1>2. QED
  BY <1>1, OInvariance, PTL DEF Spec, ChangesStayHome
=============================================================================
