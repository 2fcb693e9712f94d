-------------------------- MODULE OrmIsolationProofs --------------------------
(***************************************************************************)
(* What OrmIsolation's runs check of the managers and of save(), for any   *)
(* number of workers, tenants, keys and rows.                              *)
(*                                                                         *)
(* The inductive invariant says what a worker is doing as a set of         *)
(* records, and adds that neither a row nor an instance has a primary key  *)
(* the sequence has not given out yet.                                     *)
(***************************************************************************)
EXTENDS OrmIsolation, TLAPS

\* What a worker can be doing.
Work ==
    {Idle} \cup [pc : {"held"}, obj : Instance]
           \cup [pc : {"get", "create", "retry"}, call : Call]

IInv ==
    /\ ctx \in [Workers -> Scope]
    /\ rows \in [Ids -> Row \cup {Absent}]
    /\ serial \in 0..MaxRows
    /\ shared \in Scope
    /\ work \in [Workers -> Work]
    /\ \A id \in Present : id <= serial
    /\ \A w \in Workers : Holds(w) => Obj(w).pk <= serial

-----------------------------------------------------------------------------
(* The records *)

LEMMA WorkCases ==
    ASSUME NEW s \in Work
    PROVE  \/ s = Idle /\ s.pc = "idle"
           \/ s.pc = "held" /\ s.obj \in Instance /\ s = Holding(s.obj)
           \/ s.pc \in {"get", "create", "retry"} /\ s.call \in Call /\ s = Calling(s.pc, s.call)
  <1>1. CASE s = Idle
    BY <1>1 DEF Idle
  <1>2. CASE s \in [pc : {"held"}, obj : Instance]
    BY <1>2 DEF Holding
  <1>3. CASE s \in [pc : {"get", "create", "retry"}, call : Call]
    BY <1>3 DEF Calling
  <1>4. QED
    BY <1>1, <1>2, <1>3 DEF Work

LEMMA Held ==
    ASSUME NEW o \in Instance
    PROVE  Holding(o) \in Work /\ Holding(o).pc = "held" /\ Holding(o).obj = o
  BY DEF Work, Holding

LEMMA Called ==
    ASSUME NEW c \in Call, NEW pc \in {"get", "create", "retry"}
    PROVE  Calling(pc, c) \in Work /\ Calling(pc, c).pc = pc /\ Calling(pc, c).call = c
  BY DEF Work, Calling

LEMMA IdleWork == Idle \in Work /\ Idle.pc = "idle"
  BY DEF Work, Idle

\* What a worker holds or calls.
LEMMA Busy ==
    ASSUME IInv, NEW w \in Workers
    PROVE  /\ Holds(w) => Obj(w) \in Instance /\ work[w] = Holding(Obj(w))
           /\ ~Free(w) => /\ work[w].pc \in {"get", "create", "retry"} /\ work[w].call \in Call
                          /\ work[w] = Calling(work[w].pc, work[w].call)
           /\ work[w].pc \in {"get", "create", "retry"} => ~Free(w)
           /\ Holds(w) => Free(w)
  <1>1. work[w] \in Work
    BY DEF IInv
  <1>2. QED
    BY <1>1, WorkCases DEF Holds, Obj, Free

LEMMA InstanceFields ==
    ASSUME NEW o \in Instance
    PROVE  /\ o.pk \in 0..MaxRows /\ o.tenant \in Scope /\ o.key \in Keys
           /\ o.skip \in BOOLEAN /\ o.clean \in Scope
  BY DEF Instance

\* The statements' versions of an instance are instances.
LEMMA InstanceUpdates ==
    ASSUME NEW o \in Instance, NEW t \in Scope, NEW id \in 0..MaxRows, NEW b \in BOOLEAN
    PROVE  /\ [o EXCEPT !.tenant = t] \in Instance
           /\ [o EXCEPT !.tenant = t].pk = o.pk
           /\ [o EXCEPT !.tenant = t].tenant = t
           /\ [o EXCEPT !.tenant = t].key = o.key
           /\ [o EXCEPT !.clean = t] \in Instance
           /\ [o EXCEPT !.clean = t].pk = o.pk
           /\ [o EXCEPT !.clean = t].tenant = o.tenant
           /\ [o EXCEPT !.clean = t].clean = t
           /\ [o EXCEPT !.skip = b] \in Instance
           /\ [o EXCEPT !.skip = b].pk = o.pk
           /\ [o EXCEPT !.skip = b].tenant = o.tenant
           /\ [o EXCEPT !.pk = id, !.clean = t] \in Instance
           /\ [o EXCEPT !.pk = id, !.clean = t].pk = id
           /\ [o EXCEPT !.pk = id, !.clean = t].clean = t
  BY DEF Instance

\* A row that is there is a row, and its instance is one.
LEMMA RowFacts ==
    ASSUME IInv, NEW id \in Present
    PROVE  /\ id \in Ids /\ id <= serial /\ id \in 0..MaxRows
           /\ rows[id] \in Row /\ rows[id].tenant \in Scope /\ rows[id].key \in Keys
           /\ InstanceOf(id) \in Instance
           /\ InstanceOf(id).pk = id /\ InstanceOf(id).tenant = rows[id].tenant
           /\ InstanceOf(id).clean = None
  <1>1. id \in Ids /\ rows[id] # Absent /\ id <= serial
    BY DEF IInv, Present
  <1>2. rows[id] \in Row
    BY <1>1 DEF IInv
  <1>3. rows[id].tenant \in Scope /\ rows[id].key \in Keys
    BY <1>2 DEF Row
  <1>4. id \in 0..MaxRows /\ None \in Scope
    BY <1>1, OrmAssumption DEF Ids, Scope
  <1>5. /\ InstanceOf(id) \in Instance
        /\ InstanceOf(id).pk = id /\ InstanceOf(id).tenant = rows[id].tenant
        /\ InstanceOf(id).clean = None
    BY <1>3, <1>4 DEF InstanceOf, Instance
  <1>6. QED
    BY <1>1, <1>2, <1>3, <1>4, <1>5

-----------------------------------------------------------------------------
(* The invariant *)

\* What every step amounts to: one worker goes on to s, the sequence may have
\* given out keys, and no row lies beyond it.
LEMMA Keeps ==
    ASSUME IInv, NEW w \in Workers, NEW s \in Work,
           work' = [work EXCEPT ![w] = s] \/ work' = work,
           s.pc = "held" /\ work' # work => s.obj.pk <= serial',
           ctx' \in [Workers -> Scope], shared' \in Scope,
           serial' \in 0..MaxRows, serial <= serial',
           rows' \in [Ids -> Row \cup {Absent}],
           \A id \in Ids : rows'[id] # Absent => id <= serial'
    PROVE  IInv'
  <1>1. work' \in [Workers -> Work]
    BY DEF IInv
  <1>2. ASSUME NEW v \in Workers, work'[v].pc = "held"
        PROVE  work'[v].obj.pk <= serial'
    <2>1. CASE work' = work \/ v # w
      <3>1. work'[v] = work[v]
        BY <2>1 DEF IInv
      <3>2. Obj(v) \in Instance /\ Obj(v).pk <= serial
        BY <1>2, <3>1, Busy DEF IInv, Holds
      <3>3. Obj(v).pk \in Nat /\ serial \in Nat /\ serial' \in Nat
        BY <3>2, InstanceFields DEF IInv
      <3>4. QED
        BY <3>1, <3>2, <3>3 DEF Obj
    <2>2. CASE work' # work /\ v = w
      BY <1>2, <2>2 DEF IInv
    <2>3. QED
      BY <2>1, <2>2
  <1>3. QED
    BY <1>1, <1>2 DEF IInv, Present, Holds, Obj, Ids, Row, Absent, Scope

\* A step that writes at most one row, one the sequence has given out.
LEMMA OneRow ==
    ASSUME IInv, NEW id \in Ids, NEW r \in Row, serial' \in 0..MaxRows, serial <= serial',
           id <= serial', rows' = [rows EXCEPT ![id] = r]
    PROVE  /\ rows' \in [Ids -> Row \cup {Absent}]
           /\ \A i \in Ids : rows'[i] # Absent => i <= serial'
  <1>1. rows' \in [Ids -> Row \cup {Absent}]
    BY DEF IInv
  <1>2. ASSUME NEW i \in Ids, rows'[i] # Absent
        PROVE  i <= serial'
    <2>1. CASE i = id
      BY <2>1
    <2>2. CASE i # id
      <3>1. rows[i] # Absent
        BY <1>2, <2>2 DEF IInv
      <3>2. i <= serial
        BY <3>1 DEF IInv, Present
      <3>3. QED
        BY <3>2 DEF IInv, Ids
    <2>3. QED
      BY <2>1, <2>2
  <1>3. QED
    BY <1>1, <1>2

LEMMA NoRow ==
    ASSUME IInv, serial' \in 0..MaxRows, serial <= serial', rows' = rows
    PROVE  /\ rows' \in [Ids -> Row \cup {Absent}]
           /\ \A i \in Ids : rows'[i] # Absent => i <= serial'
  BY DEF IInv, Present, Ids

\* The row an instance is written as, and the instance after its INSERT.
RowOf(o) == [tenant |-> o.tenant, key |-> o.key]
Inserted(o, id) == [o EXCEPT !.pk = id, !.clean = None]

LEMMA InsertedFacts ==
    ASSUME NEW o \in Instance, NEW id \in Ids
    PROVE  /\ RowOf(o) \in Row /\ RowOf(o).tenant = o.tenant /\ RowOf(o).key = o.key
           /\ Inserted(o, id) \in Instance
           /\ Inserted(o, id).pk = id /\ Inserted(o, id).clean = None
  <1>1. id \in 0..MaxRows /\ None \in Scope
    BY DEF Ids, Scope
  <1>2. RowOf(o) \in Row /\ RowOf(o).tenant = o.tenant /\ RowOf(o).key = o.key
    BY InstanceFields DEF RowOf, Row
  <1>3. /\ Inserted(o, id) \in Instance
        /\ Inserted(o, id).pk = id /\ Inserted(o, id).clean = None
    BY <1>1 DEF Inserted, Instance
  <1>4. QED
    BY <1>2, <1>3

\* The INSERT of an instance: a new row under a key not in use, and the
\* instance has the key; or nothing but the instance is kept.
LEMMA InsertFacts ==
    ASSUME IInv, NEW w \in Workers, NEW o \in Instance, o.pk <= serial, Insert(w, o)
    PROVE  \/ /\ UNCHANGED <<rows, serial>>
              /\ work' = [work EXCEPT ![w] = Holding(o)]
           \/ \E id \in Ids :
                 /\ id <= serial' /\ serial <= serial' /\ serial' \in 0..MaxRows
                 /\ id \notin Present
                 /\ rows' = [rows EXCEPT ![id] = RowOf(o)]
                 /\ work' = [work EXCEPT ![w] = Holding(Inserted(o, id))]
  <1> DEFINE id == IF o.pk = 0 THEN serial + 1 ELSE o.pk
  <1>1. /\ id \in Ids
        /\ \/ /\ rows[id] = Absent /\ rows' = [rows EXCEPT ![id] = RowOf(o)]
              /\ serial' = IF o.pk = 0 THEN id ELSE serial
              /\ work' = [work EXCEPT ![w] = Holding(Inserted(o, id))]
           \/ work' = [work EXCEPT ![w] = Holding(o)] /\ UNCHANGED <<rows, serial>>
    BY DEF Insert, RowOf, Inserted
  <1>2. RowOf(o) \in Row /\ o.pk \in 0..MaxRows
    BY InstanceFields DEF Row, RowOf
  <1>3. serial \in 0..MaxRows /\ MaxRows \in Nat
    BY OrmAssumption DEF IInv
  <1>4. id \in 1..MaxRows
    BY <1>1 DEF Ids
  <1>5. ASSUME serial' = IF o.pk = 0 THEN id ELSE serial
        PROVE  id <= serial' /\ serial <= serial' /\ serial' \in 0..MaxRows
    BY <1>2, <1>3, <1>4, <1>5
  <1> HIDE DEF id
  <1>6. CASE /\ rows[id] = Absent /\ rows' = [rows EXCEPT ![id] = RowOf(o)]
             /\ serial' = IF o.pk = 0 THEN id ELSE serial
             /\ work' = [work EXCEPT ![w] = Holding(Inserted(o, id))]
    <2>1. id \notin Present
      BY <1>6 DEF Present
    <2>2. QED
      BY <1>1, <1>2, <1>5, <1>6, <2>1
  <1>7. QED
    BY <1>1, <1>6

\* The UPDATE of an instance: its row is written, or nothing is.
LEMMA UpdateFacts ==
    ASSUME IInv, NEW w \in Workers, NEW o \in Instance, o.pk \in Present, Update(w, o)
    PROVE  /\ serial' = serial
           /\ RowOf(o) \in Row
           /\ \/ /\ rows' = rows
                 /\ work' = [work EXCEPT ![w] = Holding(o)]
              \/ /\ rows' = [rows EXCEPT ![o.pk] = RowOf(o)]
                 /\ work' = [work EXCEPT ![w] = Holding([o EXCEPT !.clean = None])]
  <1>1. RowOf(o) \in Row
    BY InstanceFields DEF Row, RowOf
  <1>2. QED
    BY <1>1 DEF Update, RowOf

LEMMA InsertKeeps ==
    ASSUME IInv, NEW w \in Workers, NEW o \in Instance, o.pk <= serial, Insert(w, o),
           ctx' = ctx, shared' = shared
    PROVE  IInv'
  <1>1. ctx' \in [Workers -> Scope] /\ shared' \in Scope /\ serial \in 0..MaxRows /\ None \in Scope
    BY DEF IInv, Scope
  <1>2. CASE UNCHANGED <<rows, serial>> /\ work' = [work EXCEPT ![w] = Holding(o)]
    <2>1. serial' \in 0..MaxRows /\ serial <= serial' /\ rows' = rows
      BY <1>1, <1>2
    <2>2. QED
      BY <1>1, <1>2, <2>1, NoRow, Held, Keeps
  <1>3. ASSUME NEW id \in Ids,
               id <= serial', serial <= serial', serial' \in 0..MaxRows,
               rows' = [rows EXCEPT ![id] = RowOf(o)],
               work' = [work EXCEPT ![w] = Holding(Inserted(o, id))]
        PROVE  IInv'
    <2>1. Inserted(o, id) \in Instance /\ Inserted(o, id).pk = id /\ RowOf(o) \in Row
      BY InsertedFacts
    <2>2. /\ rows' \in [Ids -> Row \cup {Absent}]
          /\ \A i \in Ids : rows'[i] # Absent => i <= serial'
      BY <1>3, <2>1, OneRow
    <2>3. Holding(Inserted(o, id)) \in Work /\ Holding(Inserted(o, id)).obj.pk <= serial'
      BY <1>3, <2>1, Held
    <2>4. QED
      BY <1>1, <1>3, <2>2, <2>3, Keeps
  <1>4. QED
    BY <1>2, <1>3, InsertFacts

LEMMA UpdateKeeps ==
    ASSUME IInv, NEW w \in Workers, NEW o \in Instance, o.pk \in Present, Update(w, o),
           ctx' = ctx, shared' = shared
    PROVE  IInv'
  <1>1. /\ ctx' \in [Workers -> Scope] /\ shared' \in Scope /\ None \in Scope
        /\ serial' \in 0..MaxRows /\ serial <= serial' /\ o.pk \in Ids /\ o.pk <= serial'
    <2>1. serial' = serial
      BY DEF Update
    <2>2. o.pk \in Ids /\ o.pk <= serial
      BY RowFacts
    <2>3. QED
      BY <2>1, <2>2 DEF IInv, Scope
  <1>2. CASE rows' = rows /\ work' = [work EXCEPT ![w] = Holding(o)]
    BY <1>1, <1>2, NoRow, Held, Keeps
  <1>3. CASE /\ rows' = [rows EXCEPT ![o.pk] = RowOf(o)]
             /\ work' = [work EXCEPT ![w] = Holding([o EXCEPT !.clean = None])]
    <2>1. [o EXCEPT !.clean = None] \in Instance /\ [o EXCEPT !.clean = None].pk = o.pk
      BY <1>1, InstanceUpdates, InstanceFields DEF Ids
    <2>2. /\ rows' \in [Ids -> Row \cup {Absent}]
          /\ \A i \in Ids : rows'[i] # Absent => i <= serial'
      BY <1>1, <1>3, UpdateFacts, OneRow
    <2>3. /\ Holding([o EXCEPT !.clean = None]) \in Work
          /\ Holding([o EXCEPT !.clean = None]).obj.pk <= serial'
      BY <1>1, <2>1, Held
    <2>4. QED
      BY <1>1, <1>3, <2>2, <2>3, Keeps
  <1>4. QED
    BY <1>2, <1>3, UpdateFacts

LEMMA WriteKeeps ==
    ASSUME IInv, NEW w \in Workers, NEW o \in Instance, o.pk <= serial, Write(w, o),
           ctx' = ctx, shared' = shared
    PROVE  IInv'
  BY InsertKeeps, UpdateKeeps DEF Write

\* The worker only goes on to s.
LEMMA WorkKeeps ==
    ASSUME IInv, NEW w \in Workers, NEW s \in Work, s.pc = "held" => s.obj.pk <= serial,
           work' = [work EXCEPT ![w] = s], UNCHANGED <<ctx, rows, serial, shared>>
    PROVE  IInv'
  <1>1. /\ ctx' \in [Workers -> Scope] /\ shared' \in Scope
        /\ serial' \in 0..MaxRows /\ serial <= serial' /\ rows' = rows
    BY DEF IInv
  <1>2. /\ rows' \in [Ids -> Row \cup {Absent}]
        /\ \A i \in Ids : rows'[i] # Absent => i <= serial'
    BY <1>1, NoRow
  <1>3. s.pc = "held" => s.obj.pk <= serial'
    OBVIOUS
  <1>4. QED
    BY <1>1, <1>2, <1>3, Keeps

\* What a saved or bulk-created instance is stamped with.
LEMMA SaveFacts ==
    ASSUME IInv, NEW w \in Workers, Save(w)
    PROVE  \E o \in Instance :
              /\ Write(w, o) /\ o.pk = Obj(w).pk /\ o.pk <= serial
              /\ o = Obj(w) \/ (Obj(w).tenant = None /\ o.clean = Obj(w).clean)
              /\ UNCHANGED <<ctx, shared>>
  <1>1. Obj(w) \in Instance /\ Obj(w).pk <= serial
    BY Busy DEF Save, IInv
  <1>2. ctx[w] \in Scope
    BY DEF IInv
  <1>3. CASE Obj(w).tenant = None /\ ~Obj(w).skip
    <2>1. Write(w, [Obj(w) EXCEPT !.tenant = ctx[w]])
      BY <1>3 DEF Save
    <2>2. /\ [Obj(w) EXCEPT !.tenant = ctx[w]] \in Instance
          /\ [Obj(w) EXCEPT !.tenant = ctx[w]].pk = Obj(w).pk
          /\ [Obj(w) EXCEPT !.tenant = ctx[w]].clean = Obj(w).clean
      BY <1>1, <1>2, OrmAssumption, InstanceUpdates DEF Instance
    <2>3. QED
      BY <1>1, <1>3, <2>1, <2>2 DEF Save
  <1>4. CASE ~(Obj(w).tenant = None /\ ~Obj(w).skip)
    BY <1>1, <1>4 DEF Save
  <1>5. QED
    BY <1>3, <1>4

LEMMA BulkCreateFacts ==
    ASSUME IInv, NEW w \in Workers, BulkCreate(w)
    PROVE  \E o \in Instance :
              /\ Insert(w, o) /\ o.pk <= serial
              /\ Obj(w).tenant = None => o.tenant = ctx[w]
              /\ o = Obj(w) \/ (Obj(w).tenant = None /\ o.clean = Obj(w).clean)
              /\ UNCHANGED <<ctx, shared>>
  <1>1. Obj(w) \in Instance /\ Obj(w).pk <= serial
    BY Busy DEF BulkCreate, IInv
  <1>2. ctx[w] \in Scope
    BY DEF IInv
  <1>3. CASE Obj(w).tenant = None
    <2>1. Insert(w, [Obj(w) EXCEPT !.tenant = ctx[w]]) /\ UNCHANGED <<ctx, shared>>
      BY <1>3 DEF BulkCreate
    <2>2. /\ [Obj(w) EXCEPT !.tenant = ctx[w]] \in Instance
          /\ [Obj(w) EXCEPT !.tenant = ctx[w]].pk = Obj(w).pk
          /\ [Obj(w) EXCEPT !.tenant = ctx[w]].tenant = ctx[w]
          /\ [Obj(w) EXCEPT !.tenant = ctx[w]].clean = Obj(w).clean
      BY <1>1, <1>2 DEF Instance
    <2>3. QED
      BY <1>1, <1>3, <2>1, <2>2
  <1>4. CASE Obj(w).tenant # None
    <2>1. [Obj(w) EXCEPT !.tenant = Obj(w).tenant] = Obj(w)
      BY <1>1 DEF Instance
    <2>2. Insert(w, Obj(w)) /\ UNCHANGED <<ctx, shared>>
      BY <1>4, <2>1 DEF BulkCreate
    <2>3. QED
      BY <1>1, <1>4, <2>2
  <1>5. QED
    BY <1>3, <1>4

\* A call that found its row returns it, possibly saved with the defaults.
LEMMA FoundFacts ==
    ASSUME IInv, NEW w \in Workers, NEW c \in Call, NEW id \in Present, Found(w, c, id)
    PROVE  /\ UNCHANGED <<ctx, serial, shared>>
           /\ \/ rows' = rows /\ work' = [work EXCEPT ![w] = Holding(InstanceOf(id))]
              \/ rows' = rows /\ work' = [work EXCEPT ![w] = Idle]
              \/ \E r \in Row, o \in Instance :
                    /\ r.tenant = IF c.default = None THEN rows[id].tenant ELSE c.default
                    /\ rows' = [rows EXCEPT ![id] = r]
                    /\ o.pk = id /\ o.clean = None
                    /\ work' = [work EXCEPT ![w] = Holding(o)]
  <1> DEFINE t == IF c.default = None THEN rows[id].tenant ELSE c.default
             r == [rows[id] EXCEPT !.tenant = IF c.default = None THEN @ ELSE c.default]
             o == [InstanceOf(id) EXCEPT !.tenant = r.tenant]
  <1>1. t \in Scope /\ rows[id] \in Row
    BY RowFacts DEF Call
  <1>2. r \in Row /\ r.tenant = t
    BY <1>1 DEF Row
  <1>3. \/ rows' = rows /\ work' = [work EXCEPT ![w] = Holding(InstanceOf(id))]
        \/ rows' = rows /\ work' = [work EXCEPT ![w] = Idle]
        \/ rows' = [rows EXCEPT ![id] = r] /\ work' = [work EXCEPT ![w] = Holding(o)]
    BY DEF Found
  <1>4. UNCHANGED <<ctx, serial, shared>>
    BY DEF Found
  <1> HIDE DEF r
  <1>5. o \in Instance /\ o.pk = id /\ o.clean = None
    BY <1>1, <1>2, RowFacts DEF Instance
  <1> HIDE DEF o
  <1>6. QED
    BY <1>2, <1>3, <1>4, <1>5

LEMMA FoundKeeps ==
    ASSUME IInv, NEW w \in Workers, NEW c \in Call, NEW id \in Present, Found(w, c, id)
    PROVE  IInv'
  <1>1. /\ ctx' \in [Workers -> Scope] /\ shared' \in Scope
        /\ serial' = serial /\ serial' \in 0..MaxRows /\ serial <= serial'
        /\ UNCHANGED <<ctx, serial, shared>>
    BY FoundFacts DEF IInv
  <1>2. id \in Ids /\ id <= serial' /\ InstanceOf(id) \in Instance /\ InstanceOf(id).pk = id
    BY <1>1, RowFacts
  <1>3. CASE rows' = rows /\ work' = [work EXCEPT ![w] = Holding(InstanceOf(id))]
    <2>1. /\ Holding(InstanceOf(id)) \in Work
          /\ Holding(InstanceOf(id)).pc = "held" => Holding(InstanceOf(id)).obj.pk <= serial
      BY <1>1, <1>2, Held
    <2>2. QED
      BY <1>1, <1>3, <2>1, WorkKeeps
  <1>4. CASE rows' = rows /\ work' = [work EXCEPT ![w] = Idle]
    BY <1>1, <1>4, IdleWork, WorkKeeps
  <1>5. ASSUME NEW r \in Row, NEW o \in Instance, rows' = [rows EXCEPT ![id] = r], o.pk = id,
               work' = [work EXCEPT ![w] = Holding(o)]
        PROVE  IInv'
    <2>1. /\ rows' \in [Ids -> Row \cup {Absent}]
          /\ \A i \in Ids : rows'[i] # Absent => i <= serial'
      BY <1>1, <1>2, <1>5, OneRow
    <2>2. Holding(o) \in Work /\ Holding(o).obj.pk <= serial'
      BY <1>2, <1>5, Held
    <2>3. QED
      BY <1>1, <1>5, <2>1, <2>2, Keeps
  <1>6. QED
    BY <1>3, <1>4, <1>5, FoundFacts

\* The two lookups of a call.
LEMMA LookupFacts ==
    ASSUME IInv, NEW w \in Workers, Get(w) \/ GetAgain(w)
    PROVE  /\ work[w].pc \in {"get", "retry"} /\ work[w].call \in Call
           /\ \/ \E s \in Work : /\ s.pc \in {"create", "idle"}
                                 /\ work' = [work EXCEPT ![w] = s]
                                 /\ UNCHANGED <<ctx, rows, serial, shared>>
              \/ \E id \in Matches(w, work[w].call) : Found(w, work[w].call, id)
  <1> DEFINE c == work[w].call
  <1>1. /\ work[w].pc \in {"get", "retry"} /\ c \in Call
        /\ work[w] = Calling(work[w].pc, c)
    BY Busy DEF Get, GetAgain
  <1>2. CASE GetAgain(w)
    BY <1>1, <1>2, IdleWork DEF GetAgain
  <1>3. CASE Get(w) /\ Matches(w, c) = {}
    <2>1. work' = [work EXCEPT ![w].pc = "create"] /\ UNCHANGED <<ctx, rows, serial, shared>>
      BY <1>3 DEF Get
    <2>2. [work[w] EXCEPT !.pc = "create"] = Calling("create", c)
      BY <1>1 DEF Calling
    <2>3. work' = [work EXCEPT ![w] = Calling("create", c)]
      BY <2>1, <2>2
    <2>4. Calling("create", c) \in Work /\ Calling("create", c).pc = "create"
      BY <1>1, Called
    <2>5. QED
      BY <1>1, <2>1, <2>3, <2>4
  <1>4. CASE Get(w) /\ Matches(w, c) # {}
    BY <1>1, <1>4 DEF Get
  <1>5. QED
    BY <1>2, <1>3, <1>4

\* The rows a lookup finds.
LEMMA Found1 ==
    ASSUME NEW w, NEW c, NEW id \in Matches(w, c)
    PROVE  /\ id \in Present /\ rows[id].tenant = c.tenant
           /\ ctx[w] # None => rows[id].tenant = ctx[w]
  BY DEF Matches, Filtered

\* The INSERT of a call: the row it asked for, under a new key, or a refusal.
LEMMA CreateFacts ==
    ASSUME IInv, NEW w \in Workers, Create(w)
    PROVE  /\ work[w].pc = "create" /\ work[w].call \in Call
           /\ UNCHANGED <<ctx, shared>>
           /\ LET c == work[w].call
                  r == [tenant |-> IF c.default = None THEN c.tenant ELSE c.default, key |-> c.key]
              IN  /\ r \in Row
                  /\ \/ /\ Accepted(serial + 1, r)
                        /\ serial + 1 \in Ids /\ serial' = serial + 1 /\ serial' \in 0..MaxRows
                        /\ rows' = [rows EXCEPT ![serial + 1] = r]
                        /\ \E o \in Instance : /\ o.pk = serial + 1 /\ o.clean = None
                                               /\ work' = [work EXCEPT ![w] = Holding(o)]
                     \/ /\ ~Accepted(serial + 1, r)
                        /\ UNCHANGED <<rows, serial>>
                        /\ work' = [work EXCEPT ![w] = Calling("retry", c)]
  <1> DEFINE c == work[w].call
             r == [tenant |-> IF c.default = None THEN c.tenant ELSE c.default, key |-> c.key]
             o == [pk |-> serial', tenant |-> r.tenant, key |-> r.key, skip |-> FALSE,
                   clean |-> None]
  <1>1. work[w].pc = "create" /\ c \in Call /\ work[w] = Calling(work[w].pc, c)
        /\ UNCHANGED <<ctx, shared>>
    BY Busy DEF Create
  <1>2. r \in Row
    BY <1>1 DEF Call, Row, Scope
  <1>3. CASE Accepted(serial + 1, r)
    <2>1. /\ serial < MaxRows /\ serial' = serial + 1
          /\ rows' = [rows EXCEPT ![serial'] = r]
          /\ work' = [work EXCEPT ![w] = Holding(o)]
      BY <1>3 DEF Create
    <2>2. serial + 1 \in Ids /\ serial' \in 0..MaxRows
      BY <2>1, OrmAssumption DEF IInv, Ids
    <2> HIDE DEF r, c
    <2>3. o \in Instance /\ o.pk = serial + 1 /\ o.clean = None
      BY <1>2, <2>1, <2>2 DEF Row, Instance, Scope
    <2> HIDE DEF o
    <2>4. /\ Accepted(serial + 1, r)
          /\ serial + 1 \in Ids /\ serial' = serial + 1 /\ serial' \in 0..MaxRows
          /\ rows' = [rows EXCEPT ![serial + 1] = r]
          /\ \E q \in Instance : /\ q.pk = serial + 1 /\ q.clean = None
                                 /\ work' = [work EXCEPT ![w] = Holding(q)]
      BY <1>3, <2>1, <2>2, <2>3
    <2>5. QED
      BY <1>1, <1>2, <2>4 DEF c, r
  <1>4. CASE ~Accepted(serial + 1, r)
    <2>1. work' = [work EXCEPT ![w].pc = "retry"] /\ UNCHANGED <<rows, serial>>
      BY <1>4 DEF Create
    <2>2. [work[w] EXCEPT !.pc = "retry"] = Calling("retry", c)
      BY <1>1 DEF Calling
    <2>3. work' = [work EXCEPT ![w] = Calling("retry", c)]
      BY <2>1, <2>2
    <2>4. QED
      BY <1>1, <1>2, <1>4, <2>1, <2>3
  <1>5. QED
    BY <1>3, <1>4

\* A call begins with the active tenant, or the one it names, in its lookup.
LEMMA BeginFacts ==
    ASSUME IInv, NEW w \in Workers, NEW k \in Keys, NEW t \in Scope, NEW d \in BOOLEAN,
           NEW u \in BOOLEAN, BeginCall(w, k, t, d, u)
    PROVE  \E c \in Call :
              /\ work' = [work EXCEPT ![w] = Calling("get", c)]
              /\ ctx[w] # None /\ UNCHANGED <<ctx, rows, serial>> /\ shared' \in Scope
              /\ ~SharedDefaults => c.default \in {None, ctx[w]}
  <1> DEFINE c == [key |-> k, tenant |-> IF t = None THEN ctx[w] ELSE t,
                   default |-> IF d THEN Inject(w) ELSE None, update |-> u]
  <1>1. ctx[w] \in Tenants /\ shared \in Scope /\ None \in Scope
    BY DEF BeginCall, IInv, Scope
  <1>2. Inject(w) \in Scope /\ (~SharedDefaults => Inject(w) = ctx[w])
    BY <1>1 DEF Inject, Scope
  <1>3. c \in Call
    BY <1>1, <1>2 DEF Call, Scope
  <1>4. work' = [work EXCEPT ![w] = Calling("get", c)]
    BY DEF BeginCall
  <1>5. c.default \in {None, Inject(w)}
    OBVIOUS
  <1> HIDE DEF c
  <1>6. QED
    BY <1>1, <1>2, <1>3, <1>4, <1>5 DEF BeginCall

\* What worker w can do.
Act(w) ==
    \/ \E t \in Scope : Switch(w, t)
    \/ \E pk \in 0..MaxRows, t \in Scope, k \in Keys : Construct(w, pk, t, k)
    \/ \E id \in Ids : Fetch(w, id)
    \/ \E id \in Ids : FetchUnscoped(w, id)
    \/ \E ref \in Ids : Clean(w, ref)
    \/ Save(w)
    \/ BulkCreate(w)
    \/ BulkUpdate(w)
    \/ \E t \in Scope, k \in Keys : UnscopedCreate(w, t, k)
    \/ UnscopedBulkCreate(w)
    \/ DeleteAll(w)
    \/ \E k \in Keys, t \in Scope, d, u \in BOOLEAN : BeginCall(w, k, t, d, u)
    \/ Get(w)
    \/ Create(w)
    \/ GetAgain(w)

LEMMA InitKeeps == Init => IInv
  <1> SUFFICES ASSUME Init PROVE IInv
    OBVIOUS
  <1>1. Present = {}
    BY DEF Init, Present
  <1>2. \A w \in Workers : work[w] = Idle /\ ~Holds(w)
    BY IdleWork DEF Init, Holds
  <1>3. QED
    BY <1>1, <1>2, IdleWork, OrmAssumption DEF Init, IInv, Scope

LEMMA NextStep == IInv /\ [Next]_vars => IInv'
  <1> SUFFICES ASSUME IInv, [Next]_vars PROVE IInv'
    OBVIOUS
  <1>0. None \in Scope /\ MaxRows \in Nat /\ serial \in 0..MaxRows
    BY OrmAssumption DEF IInv, Scope
  <1>1. CASE UNCHANGED vars
    BY <1>1 DEF vars, IInv, Present, Holds, Obj, Ids, Row, Absent, Scope
  <1> SUFFICES ASSUME NEW w \in Workers, Act(w) PROVE IInv'
    BY <1>1 DEF Next, Act
  <1>2. ASSUME NEW t \in Scope, Switch(w, t) PROVE IInv'
    <2>1. ctx' \in [Workers -> Scope] /\ UNCHANGED <<rows, serial, work, shared>>
      BY <1>2 DEF Switch, IInv
    <2>2. QED
      BY <2>1 DEF IInv, Present, Holds, Obj, Ids, Row, Absent, Scope
  <1>3. ASSUME NEW pk \in 0..MaxRows, NEW t \in Scope, NEW k \in Keys, Construct(w, pk, t, k)
        PROVE  IInv'
    <2> DEFINE o == [pk |-> pk, tenant |-> t, key |-> k, skip |-> FALSE, clean |-> None]
    <2>1. o \in Instance /\ o.pk = pk
      BY <1>0 DEF Instance
    <2>2. /\ pk <= serial /\ work' = [work EXCEPT ![w] = Holding(o)]
          /\ UNCHANGED <<ctx, rows, serial, shared>>
      BY <1>3 DEF Construct
    <2> HIDE DEF o
    <2>3. QED
      BY <2>1, <2>2, Held, WorkKeeps
  <1>4. ASSUME NEW id \in Present, work' = [work EXCEPT ![w] = Holding(InstanceOf(id))],
               UNCHANGED <<ctx, rows, serial, shared>>
        PROVE  IInv'
    <2>1. InstanceOf(id) \in Instance /\ InstanceOf(id).pk <= serial
      BY RowFacts
    <2>2. QED
      BY <1>4, <2>1, Held, WorkKeeps
  <1>5. ASSUME NEW ref \in Ids, Clean(w, ref) PROVE IInv'
    <2> DEFINE t == rows[ref].tenant
    <2>1. Holds(w) /\ Obj(w) \in Instance /\ work[w] = Holding(Obj(w)) /\ Obj(w).pk <= serial
      BY <1>5, Busy DEF Clean, IInv
    <2>2. t \in Scope
      BY <1>5, RowFacts DEF Clean
    <2>3. work' = [work EXCEPT ![w].obj.clean = t] /\ UNCHANGED <<ctx, rows, serial, shared>>
      BY <1>5 DEF Clean
    <2> HIDE DEF t
    <2>4. [work[w] EXCEPT !.obj.clean = t] = Holding([Obj(w) EXCEPT !.clean = t])
      BY <2>1 DEF Holding
    <2>5. work' = [work EXCEPT ![w] = Holding([Obj(w) EXCEPT !.clean = t])]
      BY <2>3, <2>4
    <2>6. [Obj(w) EXCEPT !.clean = t] \in Instance /\ [Obj(w) EXCEPT !.clean = t].pk <= serial
      BY <2>1, <2>2 DEF Instance
    <2>7. QED
      BY <2>3, <2>5, <2>6, Held, WorkKeeps
  <1>6. CASE Save(w)
    BY <1>6, SaveFacts, WriteKeeps
  <1>7. CASE BulkCreate(w)
    BY <1>7, BulkCreateFacts, InsertKeeps
  <1>8. ASSUME NEW id \in Present, NEW r \in Row, rows' = [rows EXCEPT ![id] = r],
               UNCHANGED <<ctx, serial, work, shared>>
        PROVE  IInv'
    <2>1. id \in Ids /\ id <= serial' /\ serial' \in 0..MaxRows /\ serial <= serial'
      BY <1>0, <1>8, RowFacts
    <2>2. /\ rows' \in [Ids -> Row \cup {Absent}]
          /\ \A i \in Ids : rows'[i] # Absent => i <= serial'
      BY <1>8, <2>1, OneRow
    <2>3. ctx' \in [Workers -> Scope] /\ shared' \in Scope
      BY <1>8 DEF IInv
    <2>4. QED
      BY <1>8, <2>1, <2>2, <2>3, IdleWork, Keeps
  <1>9. ASSUME NEW t \in Scope, NEW k \in Keys, UnscopedCreate(w, t, k) PROVE IInv'
    <2> DEFINE o == [pk |-> 0, tenant |-> t, key |-> k, skip |-> TRUE, clean |-> None]
    <2>1. o \in Instance /\ o.pk <= serial
      BY <1>0 DEF Instance
    <2>2. Insert(w, o) /\ UNCHANGED <<ctx, shared>>
      BY <1>9 DEF UnscopedCreate
    <2> HIDE DEF o
    <2>3. QED
      BY <2>1, <2>2, InsertKeeps
  <1>10. CASE UnscopedBulkCreate(w)
    <2>1. Obj(w) \in Instance /\ Obj(w).pk <= serial
      BY <1>10, Busy DEF UnscopedBulkCreate, IInv
    <2>2. [Obj(w) EXCEPT !.skip = TRUE] \in Instance /\ [Obj(w) EXCEPT !.skip = TRUE].pk = Obj(w).pk
      BY <2>1 DEF Instance
    <2>3. QED
      BY <1>10, <2>1, <2>2, InsertKeeps DEF UnscopedBulkCreate
  <1>11. CASE DeleteAll(w)
    <2>1. /\ rows' = [id \in Ids |-> IF id \in Filtered(w) THEN Absent ELSE rows[id]]
          /\ UNCHANGED <<ctx, serial, work, shared>>
      BY <1>11 DEF DeleteAll
    <2>2. rows' \in [Ids -> Row \cup {Absent}]
      BY <2>1 DEF IInv
    <2>3. \A id \in Ids : rows'[id] # Absent => id <= serial'
      BY <2>1 DEF IInv, Present
    <2>4. ctx' \in [Workers -> Scope] /\ shared' \in Scope /\ serial' \in 0..MaxRows
          /\ serial <= serial'
      BY <1>0, <2>1 DEF IInv
    <2>5. QED
      BY <2>1, <2>2, <2>3, <2>4, IdleWork, Keeps
  <1>12. ASSUME NEW k \in Keys, NEW t \in Scope, NEW d \in BOOLEAN, NEW u \in BOOLEAN,
                BeginCall(w, k, t, d, u)
         PROVE  IInv'
    <2>1. PICK c \in Call : /\ work' = [work EXCEPT ![w] = Calling("get", c)]
                            /\ UNCHANGED <<ctx, rows, serial>> /\ shared' \in Scope
      BY <1>12, BeginFacts
    <2>2. Calling("get", c) \in Work /\ Calling("get", c).pc = "get"
      BY Called
    <2>3. ctx' \in [Workers -> Scope] /\ serial' \in 0..MaxRows /\ serial <= serial'
          /\ rows' \in [Ids -> Row \cup {Absent}]
          /\ \A id \in Ids : rows'[id] # Absent => id <= serial'
      BY <1>0, <2>1 DEF IInv, Present
    <2>4. QED
      BY <2>1, <2>2, <2>3, Keeps
  <1>13. CASE Get(w) \/ GetAgain(w)
    <2>1. CASE \E id \in Matches(w, work[w].call) : Found(w, work[w].call, id)
      BY <1>13, <2>1, LookupFacts, Found1, FoundKeeps
    <2>2. ASSUME NEW s \in Work, s.pc \in {"create", "idle"}, work' = [work EXCEPT ![w] = s],
                 UNCHANGED <<ctx, rows, serial, shared>>
          PROVE  IInv'
      BY <2>2, WorkKeeps
    <2>3. QED
      BY <1>13, <2>1, <2>2, LookupFacts
  <1>14. CASE Create(w)
    <2> DEFINE c == work[w].call
               r == [tenant |-> IF c.default = None THEN c.tenant ELSE c.default, key |-> c.key]
    <2>1. r \in Row /\ c \in Call /\ UNCHANGED <<ctx, shared>>
      BY <1>14, CreateFacts
    <2>2. \/ /\ serial + 1 \in Ids /\ serial' = serial + 1 /\ serial' \in 0..MaxRows
             /\ rows' = [rows EXCEPT ![serial + 1] = r]
             /\ \E o \in Instance : o.pk = serial + 1 /\ work' = [work EXCEPT ![w] = Holding(o)]
          \/ UNCHANGED <<rows, serial>> /\ work' = [work EXCEPT ![w] = Calling("retry", c)]
      BY <1>14, CreateFacts
    <2> HIDE DEF r, c
    <2>3. CASE UNCHANGED <<rows, serial>> /\ work' = [work EXCEPT ![w] = Calling("retry", c)]
      BY <2>1, <2>3, Called, WorkKeeps
    <2>4. ASSUME NEW o \in Instance, serial + 1 \in Ids, serial' = serial + 1,
                 serial' \in 0..MaxRows, rows' = [rows EXCEPT ![serial + 1] = r],
                 o.pk = serial + 1, work' = [work EXCEPT ![w] = Holding(o)]
          PROVE  IInv'
      <3>1. serial <= serial' /\ serial + 1 <= serial' /\ o.pk <= serial'
        BY <1>0, <2>4
      <3>2. /\ rows' \in [Ids -> Row \cup {Absent}]
            /\ \A i \in Ids : rows'[i] # Absent => i <= serial'
        BY <2>1, <2>4, <3>1, OneRow
      <3>3. Holding(o) \in Work /\ Holding(o).obj.pk <= serial'
        BY <3>1, Held
      <3>4. ctx' \in [Workers -> Scope] /\ shared' \in Scope
        BY <2>1 DEF IInv
      <3>5. QED
        BY <2>4, <3>1, <3>2, <3>3, <3>4, Keeps
    <2>5. QED
      BY <2>2, <2>3, <2>4
  <1>15. ASSUME NEW id \in Ids, Fetch(w, id) \/ FetchUnscoped(w, id) PROVE IInv'
    BY <1>4, <1>15 DEF Fetch, FetchUnscoped, Filtered
  <1>16. CASE BulkUpdate(w)
    <2>1. PICK id \in Present, k \in Keys : rows' = [rows EXCEPT ![id] = [rows[id] EXCEPT !.key = k]]
      BY <1>16, Busy, InstanceFields DEF BulkUpdate, Filtered
    <2>2. [rows[id] EXCEPT !.key = k] \in Row
      BY RowFacts DEF Row
    <2>3. QED
      BY <1>8, <1>16, <2>1, <2>2 DEF BulkUpdate
  <1>17. QED
    BY <1>2, <1>3, <1>5, <1>6, <1>7, <1>9, <1>10, <1>11, <1>12, <1>13, <1>14, <1>15, <1>16 DEF Act

\* Between any two statements of any worker the database keeps its own rules,
\* and each call under way holds what its earlier statements have shown it.
THEOREM Invariance == Spec => []IInv
  <1>1. QED
    BY InitKeeps, NextStep, PTL DEF Spec

\* Rows are rows and name primary keys the sequence has given out, workers hold
\* instances or are in a call (type correctness).
THEOREM TypeCorrect == Spec => []TypeOK
  <1>1. IInv => TypeOK
    <2> SUFFICES ASSUME IInv PROVE TypeOK
      OBVIOUS
    <2>1. ASSUME NEW w \in Workers
          PROVE  CASE work[w].pc = "idle" -> work[w] = Idle
                   [] work[w].pc = "held" -> Obj(w) \in Instance
                   [] OTHER -> work[w].pc \in {"get", "create", "retry"} /\ work[w].call \in Call
      <3>1. work[w] \in Work
        BY DEF IInv
      <3>2. QED
        BY <3>1, WorkCases DEF Obj
    <2>2. QED
      BY <2>1 DEF IInv, TypeOK
  <1>2. QED
    BY <1>1, Invariance, PTL

-----------------------------------------------------------------------------
(* Calls *)

\* A statement leaves its worker holding the instance it is about, which
\* full_clean() no longer vouches for when the statement succeeded.
LEMMA WriteHolds ==
    ASSUME IInv, NEW w \in Workers, NEW o \in Instance, o.pk <= serial, Write(w, o) \/ Insert(w, o)
    PROVE  \E q \in Instance : /\ work' = [work EXCEPT ![w] = Holding(q)]
                               /\ q = o \/ q.clean = None
  <1>1. None \in Scope
    BY DEF Scope
  <1>2. [o EXCEPT !.clean = None] \in Instance /\ [o EXCEPT !.clean = None].clean = None
    BY <1>1 DEF Instance
  <1>3. CASE Insert(w, o)
    <2>1. \/ work' = [work EXCEPT ![w] = Holding(o)]
          \/ \E id \in Ids : work' = [work EXCEPT ![w] = Holding(Inserted(o, id))]
      BY <1>3 DEF Insert, Inserted
    <2>2. QED
      BY <2>1, InsertedFacts
  <1>4. CASE Write(w, o) /\ ~Insert(w, o)
    <2>1. \/ work' = [work EXCEPT ![w] = Holding(o)]
          \/ work' = [work EXCEPT ![w] = Holding([o EXCEPT !.clean = None])]
      BY <1>4 DEF Write, Update
    <2>2. QED
      BY <1>2, <2>1
  <1>5. QED
    BY <1>3, <1>4

\* What a step of worker w does to the workers: nobody but w is touched, and w
\* is left outside a call, goes on with its call, or begins one.
LEMMA Turns ==
    ASSUME IInv, NEW w \in Workers, Act(w)
    PROVE  /\ \A v \in Workers \ {w} : work'[v] = work[v] /\ ctx'[v] = ctx[v]
           /\ \/ work'[w].pc \in {"idle", "held"}
              \/ ctx' = ctx /\ ~Free(w) /\ work'[w].call = work[w].call
              \/ \E k \in Keys, t \in Scope, d, u \in BOOLEAN : BeginCall(w, k, t, d, u)
  <1>0. work \in [Workers -> Work] /\ ctx \in [Workers -> Scope]
    BY DEF IInv
  <1> DEFINE Result == /\ \A v \in Workers \ {w} : work'[v] = work[v] /\ ctx'[v] = ctx[v]
                       /\ \/ work'[w].pc \in {"idle", "held"}
                          \/ ctx' = ctx /\ ~Free(w) /\ work'[w].call = work[w].call
                          \/ \E k \in Keys, t \in Scope, d, u \in BOOLEAN : BeginCall(w, k, t, d, u)
  <1>1. ASSUME ctx' = ctx, NEW s \in Work, work' = [work EXCEPT ![w] = s], s.pc \in {"idle", "held"}
        PROVE  Result
    BY <1>0, <1>1
  <1>2. ASSUME NEW t \in Scope, Switch(w, t) PROVE Result
    BY <1>0, <1>2 DEF Switch, Free
  <1>3. ASSUME NEW o, work' = [work EXCEPT ![w] = Holding(o)], ctx' = ctx
        PROVE  Result
    BY <1>0, <1>3 DEF Holding
  <1>4. ASSUME NEW pk \in 0..MaxRows, NEW t \in Scope, NEW k \in Keys, Construct(w, pk, t, k)
        PROVE  Result
    BY <1>3, <1>4 DEF Construct
  <1>5. ASSUME NEW id \in Ids, Fetch(w, id) \/ FetchUnscoped(w, id) PROVE Result
    BY <1>3, <1>5 DEF Fetch, FetchUnscoped
  <1>6. ASSUME NEW ref \in Ids, Clean(w, ref) PROVE Result
    <2>1. work[w] = Holding(Obj(w)) /\ work' = [work EXCEPT ![w].obj.clean = rows[ref].tenant]
          /\ ctx' = ctx
      BY <1>6, Busy DEF Clean
    <2>2. [work[w] EXCEPT !.obj.clean = rows[ref].tenant]
              = Holding([Obj(w) EXCEPT !.clean = rows[ref].tenant])
      BY <2>1 DEF Holding
    <2>3. QED
      BY <1>3, <2>1, <2>2
  <1>7. CASE Save(w) \/ BulkCreate(w)
    <2>1. \E o \in Instance : (Write(w, o) \/ Insert(w, o)) /\ o.pk <= serial /\ ctx' = ctx
      BY <1>7, SaveFacts, BulkCreateFacts
    <2>2. QED
      BY <1>3, <2>1, WriteHolds
  <1>8. ASSUME NEW t \in Scope, NEW k \in Keys, UnscopedCreate(w, t, k) PROVE Result
    <2> DEFINE o == [pk |-> 0, tenant |-> t, key |-> k, skip |-> TRUE, clean |-> None]
    <2>1. o \in Instance /\ o.pk <= serial
      BY OrmAssumption DEF Instance, Scope, IInv
    <2>2. Insert(w, o) /\ ctx' = ctx
      BY <1>8 DEF UnscopedCreate
    <2> HIDE DEF o
    <2>3. QED
      BY <1>3, <2>1, <2>2, WriteHolds
  <1>9. CASE UnscopedBulkCreate(w)
    <2>1. Obj(w) \in Instance /\ Obj(w).pk <= serial
      BY <1>9, Busy DEF UnscopedBulkCreate, IInv
    <2>2. [Obj(w) EXCEPT !.skip = TRUE] \in Instance /\ [Obj(w) EXCEPT !.skip = TRUE].pk = Obj(w).pk
      BY <2>1 DEF Instance
    <2>3. Insert(w, [Obj(w) EXCEPT !.skip = TRUE]) /\ ctx' = ctx
      BY <1>9 DEF UnscopedBulkCreate
    <2>4. QED
      BY <1>3, <2>1, <2>2, <2>3, WriteHolds
  <1>10. CASE BulkUpdate(w) \/ DeleteAll(w)
    <2>1. work' = work /\ ctx' = ctx
      BY <1>10 DEF BulkUpdate, DeleteAll
    <2>2. work[w].pc \in {"idle", "held"}
      BY <1>10 DEF BulkUpdate, DeleteAll, Holds, Free
    <2>3. QED
      BY <2>1, <2>2
  <1>11. ASSUME NEW k \in Keys, NEW t \in Scope, NEW d \in BOOLEAN, NEW u \in BOOLEAN,
                BeginCall(w, k, t, d, u)
         PROVE  Result
    BY <1>0, <1>11 DEF BeginCall
  <1>12. CASE Get(w) \/ GetAgain(w)
    <2>1. ~Free(w) /\ work[w] = Calling(work[w].pc, work[w].call) /\ work[w].call \in Call
      BY <1>12, LookupFacts, Busy
    <2>2. ASSUME NEW id \in Matches(w, work[w].call), Found(w, work[w].call, id) PROVE Result
      <3>1. ctx' = ctx /\ \/ \E o : work' = [work EXCEPT ![w] = Holding(o)]
                          \/ work' = [work EXCEPT ![w] = Idle]
        BY <2>1, <2>2, Found1, FoundFacts
      <3>2. QED
        BY <1>1, <1>3, <3>1, IdleWork
    <2>3. CASE GetAgain(w) /\ work' = [work EXCEPT ![w] = Idle] /\ ctx' = ctx
      BY <1>1, <2>3, IdleWork
    <2>4. CASE Get(w) /\ work' = [work EXCEPT ![w].pc = "create"] /\ ctx' = ctx
      <3>1. work'[w].call = work[w].call
        BY <1>0, <2>1, <2>4 DEF Calling
      <3>2. QED
        BY <1>0, <2>1, <2>4, <3>1
    <2>5. CASE Get(w) /\ Matches(w, work[w].call) # {}
      BY <2>2, <2>5 DEF Get
    <2>6. CASE GetAgain(w) /\ Matches(w, work[w].call) # {}
      BY <2>2, <2>6 DEF GetAgain
    <2>7. QED
      BY <1>12, <2>3, <2>4, <2>5, <2>6 DEF Get, GetAgain
  <1>13. CASE Create(w)
    <2>1. ~Free(w)
      BY <1>13, CreateFacts, Busy
    <2>2. CASE \E o \in Instance : work' = [work EXCEPT ![w] = Holding(o)]
      BY <1>3, <1>13, <2>2, CreateFacts
    <2>3. CASE work' = [work EXCEPT ![w] = Calling("retry", work[w].call)]
      BY <1>0, <1>13, <2>1, <2>3, CreateFacts DEF Calling
    <2>4. QED
      BY <1>13, <2>2, <2>3, CreateFacts
  <1>14. QED
    BY <1>2, <1>4, <1>5, <1>6, <1>7, <1>8, <1>9, <1>10, <1>11, <1>12, <1>13 DEF Act

\* A worker in a call goes on with it.
LEMMA InCall ==
    ASSUME NEW w \in Workers, Act(w), ~Free(w)
    PROVE  Get(w) \/ Create(w) \/ GetAgain(w)
  BY DEF Act, Free, Holds, Switch, Construct, Fetch, FetchUnscoped, Clean, Save, BulkCreate,
         BulkUpdate, UnscopedCreate, UnscopedBulkCreate, DeleteAll, BeginCall

\* A worker whose state changes has acted, so it went on with its call if it
\* was in one.
LEMMA CallMoves ==
    ASSUME IInv, [Next]_vars, NEW w \in Workers, ~Free(w), work'[w] # work[w]
    PROVE  Get(w) \/ Create(w) \/ GetAgain(w)
  <1>1. PICK v \in Workers : Act(v)
    BY DEF vars, Next, Act
  <1>2. v = w
    BY <1>1, Turns
  <1>3. QED
    BY <1>1, <1>2, InCall

\* When every call gets a defaults dictionary of its own: the context a call
\* began in is still that of its worker, and is what the defaults name.
CallsKeepTheirContext ==
    \A w \in Workers : ~Free(w) => ctx[w] # None /\ work[w].call.default \in {None, ctx[w]}

LEMMA ContextStep ==
    ASSUME ~SharedDefaults, IInv, CallsKeepTheirContext, [Next]_vars
    PROVE  CallsKeepTheirContext'
  <1> SUFFICES ASSUME NEW v \in Workers, work'[v].pc \notin {"idle", "held"}
               PROVE  ctx'[v] # None /\ work'[v].call.default \in {None, ctx'[v]}
    BY DEF CallsKeepTheirContext, Free
  <1>1. CASE work'[v] = work[v] /\ ctx'[v] = ctx[v]
    BY <1>1 DEF CallsKeepTheirContext, Free
  <1>2. CASE ~(work'[v] = work[v] /\ ctx'[v] = ctx[v])
    <2>1. PICK w \in Workers : Act(w)
      BY <1>2 DEF vars, Next, Act
    <2>2. v = w
      BY <1>2, <2>1, Turns
    <2>3. CASE ctx' = ctx /\ ~Free(v) /\ work'[v].call = work[v].call
      BY <2>3 DEF CallsKeepTheirContext
    <2>4. ASSUME NEW k \in Keys, NEW t \in Scope, NEW d \in BOOLEAN, NEW u \in BOOLEAN,
                 BeginCall(v, k, t, d, u)
          PROVE  ctx'[v] # None /\ work'[v].call.default \in {None, ctx'[v]}
      <3>1. PICK c \in Call : /\ work' = [work EXCEPT ![v] = Calling("get", c)]
                              /\ ctx[v] # None /\ ctx' = ctx /\ c.default \in {None, ctx[v]}
        BY <2>4, BeginFacts
      <3>2. work'[v].call = c
        BY <3>1, Called DEF IInv
      <3>3. QED
        BY <3>1, <3>2
    <2>5. QED
      BY <2>1, <2>2, <2>3, <2>4, Turns
  <1>3. QED
    BY <1>1, <1>2

LEMMA ContextInvariance == ASSUME ~SharedDefaults PROVE Spec => []CallsKeepTheirContext
  <1>1. Init => CallsKeepTheirContext
    BY DEF Init, CallsKeepTheirContext, Free, Idle
  <1>2. IInv /\ CallsKeepTheirContext /\ [Next]_vars => CallsKeepTheirContext'
    BY ContextStep
  <1>3. QED
    BY <1>1, <1>2, Invariance, PTL DEF Spec

-----------------------------------------------------------------------------
(* Scoped writes *)

\* A call that did not name another tenant writes its tenant's row, and
\* returns the one it wrote or found.
LEMMA CallOutcome ==
    ASSUME IInv, CallsKeepTheirContext, NEW w \in Workers, ScopedCall(w),
           Get(w) \/ Create(w) \/ GetAgain(w)
    PROVE  /\ \A id \in Ids : rows'[id] # rows[id] =>
                 {rows[id].tenant, rows'[id].tenant} \subseteq {None, ctx[w]}
           /\ work'[w].pc = "held" => rows'[work'[w].obj.pk].tenant = ctx[w]
  <1> DEFINE c == work[w].call
  <1>0. /\ ~Free(w) /\ c \in Call /\ c.tenant = ctx[w] /\ ctx[w] # None
        /\ c.default \in {None, ctx[w]}
        /\ work \in [Workers -> Work] /\ rows \in [Ids -> Row \cup {Absent}]
    BY Busy DEF ScopedCall, CallsKeepTheirContext, IInv
  <1> HIDE DEF c
  <1>1. ASSUME Get(w) \/ GetAgain(w), NEW s \in Work, s.pc \in {"create", "idle"},
               work' = [work EXCEPT ![w] = s], rows' = rows
        PROVE  rows' = rows /\ work'[w].pc # "held"
    BY <1>0, <1>1
  <1>2. ASSUME NEW id \in Matches(w, c), Found(w, c, id)
        PROVE  /\ \A i \in Ids : rows'[i] # rows[i] =>
                     {rows[i].tenant, rows'[i].tenant} \subseteq {None, ctx[w]}
               /\ work'[w].pc = "held" => rows'[work'[w].obj.pk].tenant = ctx[w]
    <2>1. id \in Present /\ rows[id].tenant = ctx[w] /\ id \in Ids
      BY <1>0, <1>2, Found1 DEF Present
    <2>2. CASE rows' = rows /\ work' = [work EXCEPT ![w] = Holding(InstanceOf(id))]
      <3>1. work'[w].obj.pk = id
        BY <1>0, <2>1, <2>2, RowFacts, Held
      <3>2. QED
        BY <2>1, <2>2, <3>1
    <2>3. CASE rows' = rows /\ work' = [work EXCEPT ![w] = Idle]
      BY <1>0, <2>3, IdleWork
    <2>4. ASSUME NEW r \in Row, NEW o \in Instance,
                 r.tenant = IF c.default = None THEN rows[id].tenant ELSE c.default,
                 rows' = [rows EXCEPT ![id] = r], o.pk = id, work' = [work EXCEPT ![w] = Holding(o)]
          PROVE  /\ \A i \in Ids : rows'[i] # rows[i] =>
                       {rows[i].tenant, rows'[i].tenant} \subseteq {None, ctx[w]}
                 /\ rows'[work'[w].obj.pk].tenant = ctx[w]
      <3>1. r.tenant = ctx[w]
        BY <1>0, <2>1, <2>4
      <3>2. rows'[id] = r /\ \A i \in Ids \ {id} : rows'[i] = rows[i]
        BY <1>0, <2>1, <2>4
      <3>3. work'[w].obj.pk = id
        BY <1>0, <2>4, Held
      <3>4. QED
        BY <2>1, <3>1, <3>2, <3>3
    <2>5. QED
      BY <1>0, <1>2, <2>1, <2>2, <2>3, <2>4, FoundFacts
  <1>3. CASE Get(w) \/ GetAgain(w)
    BY <1>1, <1>2, <1>3, LookupFacts DEF c
  <1>4. CASE Create(w)
    <2> DEFINE r == [tenant |-> IF c.default = None THEN c.tenant ELSE c.default, key |-> c.key]
    <2>1. r.tenant = ctx[w] /\ r \in Row
      BY <1>0, <1>4, CreateFacts DEF c
    <2>2. \/ /\ serial + 1 \in Ids /\ rows' = [rows EXCEPT ![serial + 1] = r]
             /\ \E o \in Instance : o.pk = serial + 1 /\ work' = [work EXCEPT ![w] = Holding(o)]
          \/ rows' = rows /\ work' = [work EXCEPT ![w] = Calling("retry", c)]
      BY <1>4, CreateFacts DEF c
    <2> HIDE DEF r
    <2>3. CASE rows' = rows /\ work' = [work EXCEPT ![w] = Calling("retry", c)]
      BY <1>0, <2>3 DEF Calling
    <2>4. ASSUME NEW o \in Instance, serial + 1 \in Ids, rows' = [rows EXCEPT ![serial + 1] = r],
                 o.pk = serial + 1, work' = [work EXCEPT ![w] = Holding(o)]
          PROVE  /\ \A i \in Ids : rows'[i] # rows[i] =>
                       {rows[i].tenant, rows'[i].tenant} \subseteq {None, ctx[w]}
                 /\ rows'[work'[w].obj.pk].tenant = ctx[w]
      <3>1. rows[serial + 1] = Absent
        BY <2>4 DEF IInv, Present, Ids
      <3>2. rows'[serial + 1] = r /\ \A i \in Ids \ {serial + 1} : rows'[i] = rows[i]
        BY <1>0, <2>4
      <3>3. work'[w].obj.pk = serial + 1
        BY <1>0, <2>4, Held
      <3>4. rows[serial + 1].tenant = None
        BY <3>1 DEF Absent
      <3>5. QED
        BY <2>1, <3>2, <3>3, <3>4
    <2>5. QED
      BY <2>2, <2>3, <2>4
  <1>5. QED
    BY <1>3, <1>4

\* A write through objects that leaves the tenant to the context touches rows
\* of the active tenant only, whatever other workers do between its
\* statements and wherever its instance comes from (TenantManager,
\* _inject_tenant_kwargs()), provided each call gets a dictionary of its own.
THEOREM ScopedWritesHold ==
    ASSUME ~SharedDefaults
    PROVE  Spec => ScopedWritesStayHome
  <1> DEFINE Home == \A id \in Ids : rows'[id] # rows[id] =>
                        \A w \in Workers : ScopedWrite(w) =>
                           {rows[id].tenant, rows'[id].tenant} \subseteq {None, ctx[w]}
  <1>1. ASSUME IInv, CallsKeepTheirContext, NEW id \in Ids, rows'[id] # rows[id],
               NEW w \in Workers, ScopedWrite(w)
        PROVE  {rows[id].tenant, rows'[id].tenant} \subseteq {None, ctx[w]}
    <2>0. rows \in [Ids -> Row \cup {Absent}] /\ Absent.tenant = None
      BY <1>1 DEF IInv, Absent
    <2>1. CASE Holds(w) /\ Obj(w).tenant = None /\ BulkCreate(w)
      <3>1. PICK o \in Instance : Insert(w, o) /\ o.pk <= serial /\ o.tenant = ctx[w]
        BY <1>1, <2>1, BulkCreateFacts
      <3>2. PICK i \in Ids : /\ i \notin Present
                             /\ rows' = [rows EXCEPT ![i] = RowOf(o)]
        BY <1>1, <3>1, InsertFacts
      <3>3. id = i /\ rows[i] = Absent
        BY <1>1, <2>0, <3>2 DEF Present
      <3>4. rows'[id] = RowOf(o)
        BY <2>0, <3>2, <3>3
      <3>5. QED
        BY <2>0, <3>1, <3>3, <3>4 DEF RowOf
    <2>2. CASE BulkUpdate(w)
      <3> DEFINE i == Obj(w).pk
      <3>1. /\ i \in Present /\ rows[i].tenant = ctx[w]
            /\ rows' = [rows EXCEPT ![i] = [rows[i] EXCEPT !.key = Obj(w).key]]
        BY <2>2 DEF BulkUpdate, Filtered
      <3> HIDE DEF i
      <3>2. id = i /\ rows'[id] = [rows[i] EXCEPT !.key = Obj(w).key]
        BY <1>1, <2>0, <3>1
      <3>3. rows[i] \in Row
        BY <1>1, <3>1, RowFacts
      <3>4. rows'[id].tenant = rows[i].tenant
        BY <3>2, <3>3 DEF Row
      <3>5. QED
        BY <3>1, <3>2, <3>4
    <2>3. CASE ctx[w] # None /\ DeleteAll(w)
      <3>1. rows'[id] = IF id \in Filtered(w) THEN Absent ELSE rows[id]
        BY <2>3 DEF DeleteAll
      <3>2. id \in Filtered(w) /\ rows'[id] = Absent
        BY <1>1, <3>1
      <3>3. rows[id].tenant = ctx[w]
        BY <2>3, <3>2 DEF Filtered
      <3>4. QED
        BY <2>0, <3>2, <3>3
    <2>4. CASE ScopedCall(w) /\ (Get(w) \/ Create(w) \/ GetAgain(w))
      BY <1>1, <2>4, CallOutcome
    <2>5. QED
      BY <1>1, <2>1, <2>2, <2>3, <2>4 DEF ScopedWrite
  <1>2. IInv /\ CallsKeepTheirContext /\ [Next]_vars => Home
    BY <1>1
  <1>3. QED
    BY <1>2, Invariance, ContextInvariance, PTL DEF Spec, ScopedWritesStayHome

\* get_or_create() and update_or_create() return a row of the active tenant,
\* whether it was found, created, or found after losing a race.
THEOREM CallsReturnOwn ==
    ASSUME ~SharedDefaults
    PROVE  Spec => CallsReturnOwnRows
  <1> DEFINE Own == \A w \in Workers : ScopedCall(w) /\ work'[w].pc = "held" =>
                       rows'[work'[w].obj.pk].tenant = ctx[w]
  <1>1. ASSUME IInv, CallsKeepTheirContext, [Next]_vars, NEW w \in Workers, ScopedCall(w),
               work'[w].pc = "held"
        PROVE  rows'[work'[w].obj.pk].tenant = ctx[w]
    <2>1. ~Free(w)
      BY <1>1 DEF ScopedCall, Free
    <2>2. work'[w] # work[w]
      BY <1>1 DEF ScopedCall
    <2>3. QED
      BY <1>1, <2>1, <2>2, CallMoves, CallOutcome
  <1>2. IInv /\ CallsKeepTheirContext /\ [Next]_vars => Own
    BY <1>1
  <1>3. QED
    BY <1>2, Invariance, ContextInvariance, PTL DEF Spec, CallsReturnOwnRows

-----------------------------------------------------------------------------
(* Uniqueness *)

\* The constraint that reaches the database is the author's fields with the
\* tenant column prepended once, though it is resolved twice on the way.
LEMMA ResolvedOnce ==
    /\ 1 \in DOMAIN UniqueFields /\ UniqueFields[1] = "tenant"
    /\ \A i \in DOMAIN Declared : /\ i + 1 \in DOMAIN UniqueFields
                                  /\ UniqueFields[i + 1] = Declared[i]
  <1> DEFINE once == <<"tenant">> \o Declared
  <1>1. Declared \in Seq({"tenant", "key"})
    BY OrmAssumption
  <1>2. /\ Len(once) = Len(Declared) + 1 /\ once \in Seq({"tenant", "key"})
        /\ Len(Declared) \in Nat
        /\ once[1] = "tenant" /\ \A i \in 1..Len(Declared) : once[i + 1] = Declared[i]
    BY <1>1
  <1>3. once # Declared
    BY <1>2
  <1>4. UniqueFields = once
    BY <1>3 DEF UniqueFields, Resolve
  <1> HIDE DEF once
  <1>5. DOMAIN once = 1..(Len(Declared) + 1) /\ DOMAIN Declared = 1..Len(Declared)
    BY <1>1, <1>2
  <1>6. 1 \in DOMAIN once /\ \A i \in DOMAIN Declared : i + 1 \in DOMAIN once
    BY <1>2, <1>5
  <1>7. QED
    BY <1>2, <1>4, <1>5, <1>6

\* A create is refused only for a row with its own tenant and key, so another
\* tenant's key never blocks it (BR-ORM-015), whatever fields the author puts
\* beside the key.
THEOREM KeysBlockOwn ==
    ASSUME \E i \in DOMAIN Declared : Declared[i] = "key"
    PROVE  Spec => KeysBlockOnlyTheirTenant
  <1> DEFINE Blocked == \A w \in Workers : work[w].pc = "create" /\ work'[w].pc = "retry" =>
                           \E id \in Present :
                              /\ rows[id].tenant \in {work[w].call.tenant, work[w].call.default}
                              /\ rows[id].key = work[w].call.key
  <1>1. ASSUME IInv, [Next]_vars, NEW w \in Workers, work[w].pc = "create", work'[w].pc = "retry"
        PROVE  \E id \in Present :
                  /\ rows[id].tenant \in {work[w].call.tenant, work[w].call.default}
                  /\ rows[id].key = work[w].call.key
    <2> DEFINE c == work[w].call
               t == IF c.default = None THEN c.tenant ELSE c.default
               r == [tenant |-> t, key |-> c.key]
    <2>1. Create(w) /\ c \in Call
      <3>1. ~Free(w) /\ work'[w] # work[w]
        BY <1>1 DEF Free
      <3>2. Get(w) \/ Create(w) \/ GetAgain(w)
        BY <1>1, <3>1, CallMoves
      <3>3. QED
        BY <1>1, <3>1, <3>2, Busy DEF Get, GetAgain
    <2>2. c.tenant \in Tenants /\ c.default \in Scope /\ t \in Tenants /\ t # None
      BY <2>1, OrmAssumption DEF Call, Scope
    <2>3. ~Accepted(serial + 1, r)
      <3>1. \/ ~Accepted(serial + 1, r)
            \/ \E o \in Instance : work' = [work EXCEPT ![w] = Holding(o)]
        BY <1>1, <2>1, CreateFacts
      <3>2. ASSUME NEW o \in Instance, work' = [work EXCEPT ![w] = Holding(o)] PROVE FALSE
        BY <1>1, <3>2, Held DEF IInv
      <3>3. QED
        BY <3>1, <3>2
    <2>4. r.tenant = t /\ r.key = c.key
      OBVIOUS
    <2> HIDE DEF c, t, r
    <2>5. PICK id \in Present : Clash(rows[id], r)
      BY <2>2, <2>3, <2>4 DEF Accepted
    <2>6. rows[id].tenant = r.tenant
      BY <2>5, ResolvedOnce DEF Clash
    <2>7. rows[id].key = r.key
      BY <2>5, ResolvedOnce DEF Clash
    <2>8. t \in {c.tenant, c.default}
      BY DEF t
    <2>9. QED
      BY <2>4, <2>6, <2>7, <2>8 DEF c
  <1>2. IInv /\ [Next]_vars => Blocked
    BY <1>1
  <1>3. QED
    BY <1>2, Invariance, PTL DEF Spec, KeysBlockOnlyTheirTenant
==============================================================================
