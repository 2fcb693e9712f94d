------------------------- MODULE AdoptTenantAppProofs -------------------------
(***************************************************************************)
(* Proofs about AdoptTenantApp. At any moment a table has a committed      *)
(* version and perhaps one the open transaction has made; what is claimed  *)
(* of tables is proved of every version.                                   *)
(***************************************************************************)
EXTENDS AdoptTenantApp, FiniteSetTheorems, TLAPS

-----------------------------------------------------------------------------
(* The invariants *)

PassTwo == {"column", "unique", "rls"}
Forward == {"validate"} \cup PassTwo
PlanRecord == [table : Tables, count : Nat]
Cursor == [pc : Forward \cup {"idle", "undo"}, at : Nat, plans : Seq(PlanRecord)]

\* Tables are tables whose rows can be counted.
VersionsOK ==
    /\ db \in [Tables -> Table]
    /\ DOMAIN work \subseteq Tables /\ work \in [DOMAIN work -> Table]
    /\ \A t \in Tables : IsFiniteSet(db[t].rows)
    /\ \A t \in DOMAIN work : IsFiniteSet(work[t].rows)

\* The cursor is inside its lists, and nothing is uncommitted before pass two.
CursorOK ==
    /\ mig \in Cursor
    /\ applied \in 0..Len(Ops)
    /\ mig.pc \in {"idle", "validate"} \/ ~Op.atomic => DOMAIN work = {}
    /\ mig.pc \in Forward => applied < Len(Ops) /\ Len(mig.plans) <= Len(Op.tables)
    /\ mig.pc = "undo" => applied > 0 /\ Len(mig.plans) = 0
    /\ mig.pc \in {"validate", "undo"} => /\ mig.at \in 1..(Len(Op.tables) + 1)
                                          /\ Len(mig.plans) < mig.at
    /\ mig.pc \in PassTwo => mig.at \in 1..(Len(mig.plans) + 1)
    /\ mig.pc \in {"unique", "rls"} => mig.at <= Len(mig.plans)

IInv == VersionsOK /\ CursorOK /\ born \subseteq RowIds

\* A plan that found rows has an owner for them.
Backed ==
    mig.pc \in Forward =>
        \A j \in DOMAIN mig.plans : mig.plans[j].count # 0 => Backfill # None

HasOwners(x) == x.column = "ours" /\ \A r \in x.rows : r.tenant # None
PerTenant(x) == HasOwners(x) /\ \A c \in x.unique : c.lead
Adopted(x) == PerTenant(x) /\ x.rls /\ x.policies
Unadopted(x) ==
    x.column # "ours" /\ ~x.rls /\ ~x.policies /\ \A c \in x.unique : ~c.lead

\* What the open transaction has made of a table: all but the one under way
\* are done.
UnderWayAt(t) == mig.pc \in {"unique", "rls"} /\ t = mig.plans[mig.at].table
WorkInStage ==
    /\ mig.pc \in PassTwo => \A t \in DOMAIN work : UnderWayAt(t) \/ Adopted(work[t])
    /\ mig.pc = "undo" => \A t \in DOMAIN work : Unadopted(work[t])
    /\ \A t \in Tables : UnderWayAt(t) =>
          /\ t \in DOMAIN work
          /\ IF mig.pc = "unique" THEN HasOwners(work[t]) ELSE PerTenant(work[t])

WInv == WholeOrNothing /\ Backed /\ WorkInStage

\* The rows of a version have the owners the migrations and writers gave them.
Owned(x) ==
    \A r \in x.rows : r.tenant # None =>
        IF r.before THEN r.tenant \in {Ops[i].backfill : i \in DOMAIN Ops} ELSE r.tenant = r.writer
OInv == (\A t \in Tables : Owned(db[t])) /\ (\A t \in DOMAIN work : Owned(work[t]))

\* The latest version of a table, as a function of the variables' values.
Latest(w, d, t) == IF t \in DOMAIN w THEN w[t] ELSE d[t]

\* Each table is planned once, before the cursor, and does not have the
\* column until the cursor comes to it again.
PlansDistinct ==
    \A j, k \in DOMAIN mig.plans : mig.plans[j].table = mig.plans[k].table => j = k
PlansPassed ==
    mig.pc = "validate" =>
        \A j \in DOMAIN mig.plans : \E k \in 1..(mig.at - 1) : mig.plans[j].table = Op.tables[k]
Pending(j) == j > mig.at \/ mig.pc = "validate" \/ (j = mig.at /\ mig.pc = "column")
PlansPending ==
    \A j \in DOMAIN mig.plans :
        Pending(j) => Latest(work, db, mig.plans[j].table).column = "none"
UnderWay ==
    mig.pc \in {"unique", "rls"} => Latest(work, db, mig.plans[mig.at].table).column = "ours"
Planned == mig.pc \in Forward => PlansDistinct /\ PlansPassed /\ PlansPending /\ UnderWay

\* A version of a table keeps apart what the app's own constraints would
\* for rows of one tenant, with the column or without.
Keyed(t, x) ==
    /\ \A c \in Original[t] : \E d \in x.unique : d.on = c.on
    /\ x.column # "ours" => \A d \in x.unique : ~d.lead
    /\ \A d \in x.unique : ~Clash(x.rows, d)
KInv == /\ \A t \in Tables : Keyed(t, db[t])
        /\ \A t \in DOMAIN work : Keyed(t, work[t])

\* The constraints of a version are the app's own or their composites, and
\* only what can be recreated is planned.
Leading(cs) == {Rewritten(c) : c \in cs}
AllPlain(t) == \A c \in Original[t] : c.form = "plain"
Faithful(t, x) ==
    /\ x.column # "ours" => x.unique = Global(Original[t])
    /\ x.column = "ours" => AllPlain(t) /\ x.unique \in {Global(Original[t]), Leading(Original[t])}
PlansPlain == mig.pc \in Forward => \A j \in DOMAIN mig.plans : AllPlain(mig.plans[j].table)
RInv == /\ \A t \in Tables : Faithful(t, db[t])
        /\ \A t \in DOMAIN work : Faithful(t, work[t])

\* Every admitted table the cursor has passed has the column or a plan.
Covered(w, d, m, t) ==
    \/ Latest(w, d, t).column = "ours"
    \/ \E j \in DOMAIN m.plans :
          (m.pc = "validate" \/ j >= m.at) /\ m.plans[j].table = t
AInv ==
    /\ mig.pc \in PassTwo => \A t \in Admitted(applied + 1) : Covered(work, db, mig, t)
    /\ mig.pc = "validate" =>
         \A k \in 1..(mig.at - 1) : Op.tables[k] \in Allowed => Covered(work, db, mig, Op.tables[k])

\* A table with a constraint that cannot be rewritten stays as it was, so no
\* operation with such a table comes to pass two.
Unrewritable(t) == \E c \in Original[t] : c.form \in Refused
Doomed(i) == \E t \in Admitted(i) : Unrewritable(t)
AsItWas(x, t) == x.column # "ours" /\ x.unique = Global(Original[t])
DInv ==
    /\ \A t \in Tables : Unrewritable(t) => t \notin DOMAIN work /\ AsItWas(db[t], t)
    /\ mig.pc \in Forward => \A j \in DOMAIN mig.plans : ~Unrewritable(mig.plans[j].table)
    /\ mig.pc \in PassTwo => ~Doomed(applied + 1)
    /\ \A i \in 1..applied : ~Doomed(i)

-----------------------------------------------------------------------------
(* Operators *)

LEMMA TableFacts ==
  ASSUME NEW x \in Table
  PROVE  /\ x.column \in {"none", "ours", "foreign"}
         /\ x.unique \in SUBSET Unique
         /\ x.rls \in BOOLEAN /\ x.policies \in BOOLEAN
         /\ x.rows \in SUBSET Row
  BY DEF Table

LEMMA RowFacts ==
  ASSUME NEW r \in Row
  PROVE  /\ r.id \in RowIds
         /\ r.vals \in [Cols -> Vals]
         /\ r.tenant \in Tenants \cup {None} /\ r.writer \in Tenants \cup {None}
         /\ r.before \in BOOLEAN
  BY DEF Row

LEMMA UniqueFacts ==
  ASSUME NEW c \in Unique
  PROVE  c.on \in Cols /\ c.form \in Rewritable \cup Refused /\ c.lead \in BOOLEAN
  BY DEF Unique

LEMMA ImageIsFinite ==
  ASSUME NEW S, IsFiniteSet(S), NEW T, NEW f \in [S -> T]
  PROVE  IsFiniteSet({f[x] : x \in S})
  <1>1. f \in Surjection(S, {f[x] : x \in S})
    BY DEF Surjection
  <1>2. QED
    BY <1>1, FS_Surjection

\* A row with its owner replaced.
Reowned(r, who, old) == [r EXCEPT !.tenant = who, !.before = old]

LEMMA ReownedFacts ==
  ASSUME NEW r \in Row, NEW who \in Tenants \cup {None}, NEW old \in BOOLEAN
  PROVE  /\ Reowned(r, who, old) \in Row
         /\ Reowned(r, who, old).id = r.id
         /\ Reowned(r, who, old).vals = r.vals
         /\ Reowned(r, who, old).writer = r.writer
         /\ Reowned(r, who, old).tenant = who
         /\ Reowned(r, who, old).before = old
  BY DEF Row, Reowned

ReownedRows(rows, who, old) == {Reowned(r, who, old) : r \in rows}

LEMMA ReownedRowsFacts ==
  ASSUME NEW rows \in SUBSET Row, NEW who \in Tenants \cup {None}, NEW old \in BOOLEAN
  PROVE  /\ ReownedRows(rows, who, old) \in SUBSET Row
         /\ IsFiniteSet(rows) => IsFiniteSet(ReownedRows(rows, who, old))
         /\ \A s \in ReownedRows(rows, who, old) :
               /\ s.tenant = who /\ s.before = old
               /\ \E r \in rows : s.id = r.id /\ s.vals = r.vals /\ s.writer = r.writer
  <1>1. ReownedRows(rows, who, old) \in SUBSET Row
    BY ReownedFacts DEF ReownedRows
  <1>2. ASSUME IsFiniteSet(rows)
        PROVE  IsFiniteSet(ReownedRows(rows, who, old))
    <2> DEFINE f == [r \in rows |-> Reowned(r, who, old)]
    <2>1. f \in [rows -> Row]
      BY ReownedFacts
    <2>2. {f[r] : r \in rows} = ReownedRows(rows, who, old)
      BY DEF ReownedRows
    <2> HIDE DEF f
    <2>3. QED
      BY <1>2, <2>1, <2>2, ImageIsFinite
  <1>3. ASSUME NEW s \in ReownedRows(rows, who, old)
        PROVE  /\ s.tenant = who /\ s.before = old
               /\ \E r \in rows : s.id = r.id /\ s.vals = r.vals /\ s.writer = r.writer
    <2>1. PICK r \in rows : s = Reowned(r, who, old)
      BY DEF ReownedRows
    <2>2. r \in Row
      OBVIOUS
    <2>3. QED
      BY <2>1, <2>2, ReownedFacts
  <1>4. QED
    BY <1>1, <1>2, <1>3

\* The four things a migration makes of a table.
LEMMA StampedFacts ==
  ASSUME NEW x \in Table, NEW who \in Tenants \cup {None}
  PROVE  /\ Stamped(x, who) \in Table
         /\ Stamped(x, who).column = "ours"
         /\ Stamped(x, who).unique = x.unique
         /\ Stamped(x, who).rls = x.rls /\ Stamped(x, who).policies = x.policies
         /\ Stamped(x, who).rows = ReownedRows(x.rows, who, TRUE)
  <1>1. ReownedRows(x.rows, who, TRUE) \in SUBSET Row
    BY TableFacts, ReownedRowsFacts
  <1>2. Stamped(x, who) = [x EXCEPT !.column = "ours", !.rows = ReownedRows(x.rows, who, TRUE)]
    BY DEF Stamped, ReownedRows, Reowned, Table
  <1>3. QED
    BY <1>1, <1>2 DEF Table

LEMMA CompositeFacts ==
  ASSUME NEW x \in Table
  PROVE  /\ Composite(x) \in Table
         /\ Composite(x).column = x.column
         /\ Composite(x).unique = {Rewritten(c) : c \in x.unique}
         /\ Composite(x).rls = x.rls /\ Composite(x).policies = x.policies
         /\ Composite(x).rows = x.rows
  <1>1. \A c \in Unique : Rewritten(c) \in Unique
    BY DEF Unique, Rewritten, Rewritable
  <1>2. {Rewritten(c) : c \in x.unique} \in SUBSET Unique
    BY <1>1, TableFacts
  <1>3. QED
    BY <1>2 DEF Composite, Table

LEMMA SecuredFacts ==
  ASSUME NEW x \in Table
  PROVE  /\ Secured(x) \in Table
         /\ Secured(x).column = x.column /\ Secured(x).unique = x.unique
         /\ Secured(x).rls = TRUE /\ Secured(x).policies = TRUE
         /\ Secured(x).rows = x.rows
  BY DEF Secured, Table

LEMMA ViewInTable ==
  ASSUME IInv, NEW t \in Tables
  PROVE  View(t) \in Table /\ IsFiniteSet(View(t).rows)
  BY DEF IInv, VersionsOK, View

LEMMA StrippedFacts ==
  ASSUME IInv, NEW t \in Tables
  PROVE  /\ Stripped(t) \in Table
         /\ Stripped(t).column = "none"
         /\ Stripped(t).unique = Restored(t)
         /\ Stripped(t).rls = FALSE /\ Stripped(t).policies = FALSE
         /\ Stripped(t).rows = ReownedRows(View(t).rows, None, FALSE)
  <1>1. View(t) \in Table
    BY ViewInTable
  <1>2. ReownedRows(View(t).rows, None, FALSE) \in SUBSET Row
    BY <1>1, TableFacts, ReownedRowsFacts
  <1>3. Restored(t) \in SUBSET Unique
    <2>1. \A c \in View(t).unique : c \in Unique
      BY <1>1, TableFacts
    <2>2. \A c \in Unique : [on |-> c.on, form |-> "plain", lead |-> FALSE] \in Unique
      BY DEF Unique, Rewritable
    <2>3. QED
      BY <2>1, <2>2 DEF Restored
  <1>4. Stripped(t) = [column |-> "none", unique |-> Restored(t), rls |-> FALSE,
                       policies |-> FALSE, rows |-> ReownedRows(View(t).rows, None, FALSE)]
    BY DEF Stripped, ReownedRows, Reowned
  <1> DEFINE rows == ReownedRows(View(t).rows, None, FALSE)
             unique == Restored(t)
             x == [column |-> "none", unique |-> unique, rls |-> FALSE,
                   policies |-> FALSE, rows |-> rows]
  <1>5. rows \in SUBSET Row /\ unique \in SUBSET Unique /\ Stripped(t) = x
    BY <1>2, <1>3, <1>4
  <1> HIDE DEF rows, unique
  <1>6. x \in Table
    BY <1>5 DEF Table
  <1>7. x.column = "none" /\ x.unique = unique /\ x.rls = FALSE /\ x.policies = FALSE /\ x.rows = rows
    OBVIOUS
  <1> HIDE DEF x
  <1>8. QED
    BY <1>5, <1>6, <1>7 DEF rows, unique

\* A table with a row inserted or deleted.
WithRows(x, rows) == [x EXCEPT !.rows = rows]

LEMMA WithRowsFacts ==
  ASSUME NEW x \in Table, NEW rows \in SUBSET Row
  PROVE  /\ WithRows(x, rows) \in Table
         /\ WithRows(x, rows).column = x.column /\ WithRows(x, rows).unique = x.unique
         /\ WithRows(x, rows).rls = x.rls /\ WithRows(x, rows).policies = x.policies
         /\ WithRows(x, rows).rows = rows
  BY DEF WithRows, Table

LEMMA NewRowFacts ==
  ASSUME IInv, NEW t \in Tables, NEW id \in RowIds, NEW v \in [Cols -> Vals], NEW who \in Writers
  PROVE  /\ NewRow(t, id, v, who) \in Row
         /\ NewRow(t, id, v, who).writer = who /\ NewRow(t, id, v, who).before = FALSE
         /\ NewRow(t, id, v, who).tenant = IF db[t].column = "ours" THEN who ELSE None
  <1>1. who \in Tenants \cup {None}
    BY AdoptAssumption
  <1>2. QED
    BY <1>1 DEF NewRow, Row

-----------------------------------------------------------------------------
(* What the actions do to the versions of a table *)

\* A statement makes one new version, of the table it names.
LEMMA AlterFrame ==
  ASSUME IInv, mig.pc # "idle", NEW t \in Tables, NEW x \in Table, Alter(t, x)
  PROVE  /\ db' \in [Tables -> Table]
         /\ \A u \in Tables : db'[u] = db[u] \/ (u = t /\ db'[u] = x)
         /\ DOMAIN work \subseteq DOMAIN work' /\ DOMAIN work' \subseteq DOMAIN work \cup {t}
         /\ work' \in [DOMAIN work' -> Table]
         /\ \A u \in DOMAIN work' : (u \in DOMAIN work /\ work'[u] = work[u]) \/ (u = t /\ work'[u] = x)
         /\ Op.atomic => t \in DOMAIN work' /\ work'[t] = x /\ db' = db
         /\ ~Op.atomic => DOMAIN work' = {}
         /\ Latest(work', db', t) = x
         /\ \A u \in Tables : u # t => Latest(work', db', u) = Latest(work, db, u)
  <1> USE DEF IInv, VersionsOK, CursorOK
  <1>1. CASE Op.atomic
    <2>1. work' = Put(work, t, x) /\ db' = db
      BY <1>1 DEF Alter
    <2>2. DOMAIN work' = DOMAIN work \cup {t}
      BY <2>1 DEF Put
    <2>3. work'[t] = x
      BY <2>1 DEF Put
    <2>4. \A u \in DOMAIN work : u # t => work'[u] = work[u]
      BY <2>1 DEF Put
    <2>5. work' = [u \in DOMAIN work' |-> work'[u]]
      BY <2>1 DEF Put
    <2>6. work' \in [DOMAIN work' -> Table]
      <3>1. \A u \in DOMAIN work' : work'[u] \in Table
        BY <2>2, <2>3, <2>4
      <3>2. QED
        BY <3>1, <2>5
    <2>7. Latest(work', db', t) = x
      BY <2>2, <2>3 DEF Latest
    <2>8. \A u \in Tables : u # t => Latest(work', db', u) = Latest(work, db, u)
      BY <2>1, <2>2, <2>4 DEF Latest
    <2>9. QED
      BY <1>1, <2>1, <2>2, <2>3, <2>4, <2>6, <2>7, <2>8
  <1>2. CASE ~Op.atomic
    <2>1. db' = [db EXCEPT ![t] = x] /\ work' = work /\ DOMAIN work = {}
      BY <1>2 DEF Alter
    <2>2. db' \in [Tables -> Table] /\ db'[t] = x
      BY <2>1
    <2>3. \A u \in Tables : u # t => db'[u] = db[u]
      BY <2>1
    <2>4. Latest(work', db', t) = x
      BY <2>1, <2>2 DEF Latest
    <2>5. \A u \in Tables : u # t => Latest(work', db', u) = Latest(work, db, u)
      BY <2>1, <2>3 DEF Latest
    <2>6. QED
      BY <1>2, <2>1, <2>2, <2>3, <2>4, <2>5
  <1>3. QED
    BY <1>1, <1>2

\* A commit makes the uncommitted versions the committed ones.
LEMMA FinishFrame ==
  ASSUME IInv, NEW n, Finish(n)
  PROVE  /\ db' \in [Tables -> Table]
         /\ \A u \in Tables : db'[u] = View(u)
         /\ \A u \in Tables : db'[u] = db[u] \/ (u \in DOMAIN work /\ db'[u] = work[u])
         /\ DOMAIN work' = {} /\ work' \in [DOMAIN work' -> Table]
         /\ mig' = NoMigration /\ applied' = n
  <1>1. db' = [u \in Tables |-> View(u)] /\ mig' = NoMigration /\ applied' = n /\ work' = <<>>
    BY DEF Finish
  <1>2. DOMAIN work' = {} /\ work' \in [DOMAIN work' -> Table]
    BY <1>1
  <1>3. \A u \in Tables : db'[u] = View(u) /\ View(u) \in Table
    BY <1>1, ViewInTable
  <1>4. db' \in [Tables -> Table]
    BY <1>1, <1>3
  <1>5. QED
    BY <1>1, <1>2, <1>3, <1>4 DEF View

LEMMA AbortFrame ==
  ASSUME Abort
  PROVE  /\ DOMAIN work' = {} /\ work' \in [DOMAIN work' -> Table]
         /\ mig' = NoMigration /\ db' = db /\ applied' = applied
  BY DEF Abort

\* The application replaces the rows of one committed version that the
\* transaction has not touched.
LEMMA WriteFrame ==
  ASSUME IInv, NEW t \in Tables, t \notin DOMAIN work, work' = work,
         NEW rows \in SUBSET Row, db' = [db EXCEPT ![t].rows = rows]
  PROVE  /\ db' \in [Tables -> Table]
         /\ db'[t] = WithRows(db[t], rows) /\ Latest(work', db', t) = db'[t] /\ Latest(work, db, t) = db[t]
         /\ \A u \in Tables : u # t => db'[u] = db[u] /\ Latest(work', db', u) = Latest(work, db, u)
         /\ \A u \in Tables : Latest(work', db', u).column = Latest(work, db, u).column
  <1> USE DEF IInv, VersionsOK, CursorOK
  <1>1. db' = [db EXCEPT ![t] = WithRows(db[t], rows)]
    BY DEF WithRows
  <1>2. WithRows(db[t], rows) \in Table /\ WithRows(db[t], rows).column = db[t].column
    BY WithRowsFacts
  <1>3. db' \in [Tables -> Table] /\ db'[t] = WithRows(db[t], rows)
    BY <1>1, <1>2
  <1>4. \A u \in Tables : u # t => db'[u] = db[u] /\ Latest(work', db', u) = Latest(work, db, u)
    BY <1>1 DEF Latest
  <1>5. Latest(work', db', t) = db'[t] /\ Latest(work, db, t) = db[t]
    BY DEF Latest
  <1>6. QED
    BY <1>2, <1>3, <1>4, <1>5

\* The row the application adds, and what its statements do to a table the
\* transaction has not touched.
MayEnter(row, x, rows) ==
    /\ row \in Row /\ row.before = FALSE
    /\ x.column = "ours" => row.tenant = row.writer /\ row.tenant # None
    /\ x.column # "ours" => row.tenant = None
    /\ rows = x.rows \cup {row}
    /\ \A c \in x.unique : ~Clash(rows, c)

AppWrites(t, rows) ==
    /\ t \notin DOMAIN work /\ work' = work /\ mig' = mig /\ applied' = applied
    /\ db' = [db EXCEPT ![t].rows = rows]
    /\ IsFiniteSet(rows) /\ born' \subseteq RowIds

AppStep ==
    \E t \in Tables, rows \in SUBSET Row :
        /\ AppWrites(t, rows)
        /\ rows \subseteq db[t].rows \/ \E row \in Row : MayEnter(row, db[t], rows)

LEMMA InsertWrites ==
  ASSUME IInv, NEW t \in Tables, NEW id \in RowIds, NEW v \in [Cols -> Vals], NEW who \in Writers,
         Insert(t, id, v, who)
  PROVE  AppStep
  <1> DEFINE row == NewRow(t, id, v, who)
             rows == db[t].rows \cup {row}
  <1>1. db[t] \in Table /\ IsFiniteSet(db[t].rows) /\ born \subseteq RowIds
    BY DEF IInv, VersionsOK
  <1>2. /\ row \in Row /\ row.writer = who /\ row.before = FALSE
        /\ row.tenant = IF db[t].column = "ours" THEN who ELSE None
    BY NewRowFacts
  <1>3. /\ t \notin DOMAIN work /\ work' = work /\ mig' = mig /\ applied' = applied
        /\ db' = [db EXCEPT ![t].rows = rows]
        /\ \A c \in db[t].unique : ~Clash(rows, c)
        /\ db[t].column = "ours" => who # None
        /\ born' = born \cup {id}
    BY DEF Insert, MayTouch
  <1> HIDE DEF row
  <1>4. rows \in SUBSET Row
    BY <1>1, <1>2, TableFacts
  <1>5. IsFiniteSet(rows)
    BY <1>1, FS_AddElement
  <1>6. MayEnter(row, db[t], rows)
    BY <1>2, <1>3 DEF MayEnter
  <1> HIDE DEF rows
  <1>7. AppWrites(t, rows)
    BY <1>1, <1>3, <1>5 DEF AppWrites
  <1>8. QED
    BY <1>2, <1>4, <1>6, <1>7 DEF AppStep

LEMMA RemoveWrites ==
  ASSUME IInv, NEW t \in Tables, NEW who \in Writers, NEW r \in db[t].rows, Remove(t, r, who)
  PROVE  AppStep
  <1> DEFINE rows == db[t].rows \ {r}
  <1>1. db[t] \in Table /\ IsFiniteSet(db[t].rows) /\ born \subseteq RowIds
    BY DEF IInv, VersionsOK
  <1>2. rows \in SUBSET Row /\ rows \subseteq db[t].rows
    BY <1>1, TableFacts
  <1>3. IsFiniteSet(rows)
    BY <1>1, FS_RemoveElement
  <1>4. /\ t \notin DOMAIN work /\ work' = work /\ mig' = mig /\ applied' = applied
        /\ db' = [db EXCEPT ![t].rows = rows] /\ born' = born
    BY DEF Remove, MayTouch
  <1> HIDE DEF rows
  <1>5. AppWrites(t, rows)
    BY <1>1, <1>3, <1>4 DEF AppWrites
  <1>6. QED
    BY <1>2, <1>5 DEF AppStep

-----------------------------------------------------------------------------
(* Types *)

LEMMA OpsFacts ==
  ASSUME NEW i \in 1..Len(Ops)
  PROVE  /\ i \in DOMAIN Ops
         /\ Ops[i].tables \in Seq(Tables) /\ Len(Ops[i].tables) \in Nat
         /\ Ops[i].backfill \in Tenants \cup {None}
         /\ Ops[i].atomic \in BOOLEAN
  <1> DEFINE OpRecord == [tables : Seq(Tables), backfill : Tenants \cup {None}, atomic : BOOLEAN]
  <1>1. Ops \in Seq(OpRecord)
    BY AdoptAssumption
  <1> HIDE DEF OpRecord
  <1>2. Ops[i] \in OpRecord /\ i \in DOMAIN Ops
    BY <1>1
  <1>3. Ops[i].tables \in Seq(Tables) /\ Ops[i].backfill \in Tenants \cup {None} /\ Ops[i].atomic \in BOOLEAN
    BY <1>2 DEF OpRecord
  <1>4. QED
    BY <1>2, <1>3

LEMMA OpFacts ==
  ASSUME IInv, mig.pc # "idle"
  PROVE  /\ Op.tables \in Seq(Tables) /\ Len(Op.tables) \in Nat
         /\ Op.backfill \in Tenants \cup {None}
         /\ Op.atomic \in BOOLEAN
         /\ mig.pc # "undo" => Op = Ops[applied + 1] /\ Backfill = Op.backfill /\ applied + 1 \in DOMAIN Ops
         /\ mig.pc = "undo" => Op = Ops[applied] /\ applied \in DOMAIN Ops
  <1>1. mig.pc \in Forward \/ mig.pc = "undo"
    BY DEF IInv, CursorOK, Cursor
  <1>2. applied \in 0..Len(Ops) /\ Len(Ops) \in Nat
    BY AdoptAssumption DEF IInv, CursorOK
  <1>5. mig.pc # "undo" => Op = Ops[applied + 1] /\ applied + 1 \in 1..Len(Ops)
    BY <1>1, <1>2 DEF Op, IInv, CursorOK, Forward, PassTwo
  <1>6. mig.pc = "undo" => Op = Ops[applied] /\ applied \in 1..Len(Ops)
    BY <1>1, <1>2 DEF Op, IInv, CursorOK
  <1>7. QED
    BY <1>1, <1>5, <1>6, OpsFacts DEF Backfill

LEMMA TargetFacts ==
  ASSUME IInv, mig.pc \in {"validate", "undo"}, mig.at <= Len(Op.tables)
  PROVE  Target \in Tables /\ mig.at \in 1..Len(Op.tables)
  <1>1. Op.tables \in Seq(Tables) /\ Len(Op.tables) \in Nat
    BY OpFacts
  <1>2. mig.at \in 1..Len(Op.tables)
    BY <1>1 DEF IInv, CursorOK
  <1>3. QED
    BY <1>1, <1>2 DEF Target

LEMMA PlanFacts ==
  ASSUME IInv, NEW j \in DOMAIN mig.plans
  PROVE  /\ mig.plans[j] \in PlanRecord
         /\ mig.plans[j].table \in Tables /\ mig.plans[j].count \in Nat
  <1>1. mig.plans \in Seq(PlanRecord)
    BY DEF IInv, CursorOK, Cursor
  <1>2. mig.plans[j] \in PlanRecord
    BY <1>1
  <1>3. QED
    BY <1>2 DEF PlanRecord

LEMMA PlanUnderWay ==
  ASSUME IInv, mig.pc \in PassTwo, mig.at <= Len(mig.plans)
  PROVE  /\ mig.at \in DOMAIN mig.plans
         /\ Plan.table \in Tables /\ Plan.count \in Nat
  <1>1. mig.at \in DOMAIN mig.plans
    BY DEF IInv, CursorOK
  <1>2. QED
    BY <1>1, PlanFacts DEF Plan

LEMMA SameOp ==
  ASSUME applied' = applied, mig'.pc = "undo" <=> mig.pc = "undo"
  PROVE  Op' = Op
  BY DEF Op

LEMMA AlterVersions ==
  ASSUME IInv, mig.pc # "idle", NEW t \in Tables, NEW x \in Table, IsFiniteSet(x.rows), Alter(t, x)
  PROVE  VersionsOK' /\ (~Op.atomic => DOMAIN work' = {})
  <1>1. /\ db' \in [Tables -> Table]
        /\ \A u \in Tables : db'[u] = db[u] \/ (u = t /\ db'[u] = x)
        /\ DOMAIN work' \subseteq DOMAIN work \cup {t}
        /\ work' \in [DOMAIN work' -> Table]
        /\ \A u \in DOMAIN work' : (u \in DOMAIN work /\ work'[u] = work[u]) \/ (u = t /\ work'[u] = x)
        /\ ~Op.atomic => DOMAIN work' = {}
    BY AlterFrame
  <1>2. VersionsOK
    BY DEF IInv
  <1>3. QED
    BY <1>1, <1>2 DEF VersionsOK

LEMMA FinishKeeps ==
  ASSUME IInv, NEW n \in 0..Len(Ops), Finish(n), born' = born
  PROVE  IInv'
  <1>1. /\ db' \in [Tables -> Table]
        /\ \A u \in Tables : db'[u] = View(u)
        /\ DOMAIN work' = {} /\ work' \in [DOMAIN work' -> Table]
        /\ mig' = NoMigration /\ applied' = n
    BY FinishFrame
  <1>2. VersionsOK'
    BY <1>1, ViewInTable DEF VersionsOK
  <1>3. mig' \in Cursor /\ mig'.pc = "idle"
    BY <1>1 DEF NoMigration, Cursor
  <1>4. CursorOK'
    BY <1>1, <1>3 DEF CursorOK, Forward, PassTwo
  <1>5. QED
    BY <1>2, <1>4 DEF IInv

LEMMA AbortKeeps ==
  ASSUME IInv, Abort, born' = born
  PROVE  IInv'
  <1>1. /\ DOMAIN work' = {} /\ work' \in [DOMAIN work' -> Table]
        /\ mig' = NoMigration /\ db' = db /\ applied' = applied
    BY AbortFrame
  <1>2. VersionsOK'
    BY <1>1 DEF VersionsOK, IInv
  <1>3. mig' \in Cursor /\ mig'.pc = "idle"
    BY <1>1 DEF NoMigration, Cursor
  <1>4. CursorOK'
    BY <1>1, <1>3 DEF CursorOK, Forward, PassTwo, IInv
  <1>5. QED
    BY <1>2, <1>4 DEF IInv

LEMMA WriteKeeps ==
  ASSUME IInv, AppStep
  PROVE  IInv'
  <1>0. PICK t \in Tables, rows \in SUBSET Row : AppWrites(t, rows)
    BY DEF AppStep
  <1>1. /\ db' \in [Tables -> Table]
        /\ db'[t] = WithRows(db[t], rows)
        /\ \A u \in Tables : u # t => db'[u] = db[u]
    BY <1>0, WriteFrame DEF AppWrites
  <1>2. db[t] \in Table
    BY DEF IInv, VersionsOK
  <1>3. IsFiniteSet(db'[t].rows)
    BY <1>0, <1>1, <1>2, WithRowsFacts DEF AppWrites
  <1>4. VersionsOK'
    BY <1>0, <1>1, <1>3 DEF VersionsOK, IInv, AppWrites
  <1>5. Op' = Op
    BY <1>0, SameOp DEF AppWrites
  <1>6. CursorOK'
    BY <1>0, <1>5 DEF CursorOK, IInv, AppWrites
  <1>7. QED
    BY <1>0, <1>4, <1>6 DEF IInv, AppWrites

LEMMA BeginKeeps ==
  ASSUME IInv, Begin
  PROVE  IInv'
  <1>1. mig.pc = "idle" /\ applied \in 0..Len(Ops) /\ applied < Len(Ops) /\ born' = born /\ Len(Ops) \in Nat
    BY AdoptAssumption DEF Begin, IInv, CursorOK
  <1>2. CASE Finish(applied + 1)
    BY <1>1, <1>2, FinishKeeps
  <1>3. CASE /\ mig' = Started("validate")
             /\ UNCHANGED <<db, work, applied>>
    <2>0. mig' = [pc |-> "validate", at |-> 1, plans |-> <<>>]
      BY <1>3 DEF Started
    <2>1. mig'.pc = "validate" /\ mig'.at = 1 /\ mig'.plans = <<>> /\ mig' \in Cursor
      BY <2>0 DEF Cursor, Forward
    <2>2. Op' = Ops[applied + 1]
      BY <1>3, <2>1 DEF Op
    <2>3. Len(Op'.tables) \in Nat
      BY <1>1, <2>2, OpsFacts
    <2>4. DOMAIN work = {}
      BY <1>1 DEF IInv, CursorOK
    <2>5. CursorOK'
      BY <1>1, <1>3, <2>1, <2>3, <2>4 DEF CursorOK, Forward, PassTwo
    <2>6. QED
      BY <1>1, <1>3, <2>5 DEF IInv, VersionsOK
  <1>4. QED
    BY <1>2, <1>3 DEF Begin

LEMMA BeginReverseKeeps ==
  ASSUME IInv, BeginReverse
  PROVE  IInv'
  <1>1. mig.pc = "idle" /\ applied \in 0..Len(Ops) /\ applied > 0 /\ born' = born /\ Len(Ops) \in Nat
    BY AdoptAssumption DEF BeginReverse, IInv, CursorOK
  <1>2. CASE Finish(applied - 1)
    BY <1>1, <1>2, FinishKeeps
  <1>3. CASE /\ mig' = Started("undo")
             /\ UNCHANGED <<db, work, applied>>
    <2>0. mig' = [pc |-> "undo", at |-> 1, plans |-> <<>>]
      BY <1>3 DEF Started
    <2>1. mig'.pc = "undo" /\ mig'.at = 1 /\ mig'.plans = <<>> /\ mig' \in Cursor
      BY <2>0 DEF Cursor, Forward
    <2>2. Op' = Ops[applied]
      BY <1>3, <2>1 DEF Op
    <2>3. Len(Op'.tables) \in Nat
      BY <1>1, <2>2, OpsFacts
    <2>4. DOMAIN work = {}
      BY <1>1 DEF IInv, CursorOK
    <2>5. CursorOK'
      BY <1>1, <1>3, <2>1, <2>3, <2>4 DEF CursorOK, Forward, PassTwo
    <2>6. QED
      BY <1>1, <1>3, <2>5 DEF IInv, VersionsOK
  <1>4. QED
    BY <1>2, <1>3 DEF BeginReverse

LEMMA CursorMoves ==
  ASSUME IInv, NEW p \in Forward \cup {"undo"}, NEW n \in Nat, NEW q \in Seq(PlanRecord),
         \/ mig' = [mig EXCEPT !.pc = p, !.at = n] /\ q = mig.plans
         \/ mig' = [mig EXCEPT !.pc = p] /\ n = mig.at /\ q = mig.plans
         \/ mig' = [mig EXCEPT !.at = n, !.plans = q] /\ p = mig.pc
         \/ mig' = [mig EXCEPT !.at = n] /\ p = mig.pc /\ q = mig.plans
  PROVE  mig' \in Cursor /\ mig'.pc = p /\ mig'.at = n /\ mig'.plans = q
  <1>1. mig = [pc |-> mig.pc, at |-> mig.at, plans |-> mig.plans]
    BY DEF IInv, CursorOK, Cursor
  <1>2. mig' = [pc |-> p, at |-> n, plans |-> q]
    BY <1>1
  <1>3. QED
    BY <1>2 DEF Cursor

LEMMA RowCountFacts ==
  ASSUME NEW x \in Table, IsFiniteSet(x.rows)
  PROVE  RowCount(x) \in Nat /\ (Cardinality(Seen(x, Session)) = 0 => Seen(x, Session) = {})
  <1>1. Seen(x, Session) \in SUBSET x.rows
    BY DEF Seen
  <1>2. IsFiniteSet(Seen(x, Session))
    BY <1>1, FS_Subset
  <1>3. QED
    BY <1>2, FS_CardinalityType, FS_EmptySet DEF RowCount

\* What Validate does to the cursor when it goes on.
Skips == Target \notin Allowed \/ db[Target].column = "ours"

LEMMA ValidateFacts ==
  ASSUME IInv, Validate
  PROVE  /\ mig.pc = "validate" /\ Target \in Tables /\ mig.at \in 1..Len(Op.tables)
         /\ Abort \/ (/\ mig' \in Cursor /\ mig'.pc = "validate" /\ mig'.at = mig.at + 1
                      /\ db' = db /\ work' = work /\ applied' = applied
                      /\ Skips => mig'.plans = mig.plans
                      /\ ~Skips => /\ mig'.plans = Append(mig.plans, [table |-> Target, count |-> RowCount(db[Target])])
                                   /\ [table |-> Target, count |-> RowCount(db[Target])] \in PlanRecord
                                   /\ ~Refusal(db[Target]))
         /\ born' = born
  <1>1. mig.pc = "validate" /\ mig.at <= Len(Op.tables) /\ born' = born
    BY DEF Validate, MoreTables
  <1>2. Target \in Tables /\ mig.at \in 1..Len(Op.tables)
    BY <1>1, TargetFacts
  <1>3. ASSUME ~Abort
        PROVE  /\ mig' \in Cursor /\ mig'.pc = "validate" /\ mig'.at = mig.at + 1
               /\ db' = db /\ work' = work /\ applied' = applied
               /\ Skips => mig'.plans = mig.plans
               /\ ~Skips => /\ mig'.plans = Append(mig.plans, [table |-> Target, count |-> RowCount(db[Target])])
                            /\ [table |-> Target, count |-> RowCount(db[Target])] \in PlanRecord
                            /\ ~Refusal(db[Target])
    <2> DEFINE plan == [table |-> Target, count |-> RowCount(db[Target])]
               q == IF Skips THEN mig.plans ELSE Append(mig.plans, plan)
    <2>1. RowCount(db[Target]) \in Nat
      BY <1>2, RowCountFacts DEF IInv, VersionsOK
    <2>2. plan \in PlanRecord
      BY <1>2, <2>1 DEF PlanRecord
    <2>3. mig.plans \in Seq(PlanRecord) /\ mig.at \in Nat
      BY DEF IInv, CursorOK, Cursor
    <2>4. ~(Target \in Allowed /\ Refusal(db[Target]))
      BY <1>3 DEF Validate
    <2>5. mig' = [mig EXCEPT !.at = mig.at + 1, !.plans = q]
      BY <2>4 DEF Validate, Skips
    <2>6. db' = db /\ work' = work /\ applied' = applied
      BY <2>4 DEF Validate
    <2> HIDE DEF plan
    <2>7. q \in Seq(PlanRecord)
      BY <2>2, <2>3
    <2> HIDE DEF q
    <2>8. mig' \in Cursor /\ mig'.pc = "validate" /\ mig'.at = mig.at + 1 /\ mig'.plans = q
      <3>1. mig \in Cursor
        BY DEF IInv, CursorOK
      <3>2. mig.at + 1 \in Nat
        BY <2>3
      <3>3. QED
        BY <1>1, <2>5, <2>7, <3>1, <3>2 DEF Cursor
    <2>9. ~Skips => ~Refusal(db[Target])
      BY <2>4 DEF Skips
    <2>10. QED
      BY <2>2, <2>6, <2>8, <2>9 DEF q, plan
  <1>4. QED
    BY <1>1, <1>2, <1>3

LEMMA ValidateKeeps ==
  ASSUME IInv, Validate
  PROVE  IInv'
  <1>1. mig.pc = "validate" /\ mig.at \in 1..Len(Op.tables) /\ born' = born
    BY ValidateFacts
  <1>2. CASE Abort
    BY <1>1, <1>2, AbortKeeps
  <1>3. CASE ~Abort
    <2>1. /\ mig' \in Cursor /\ mig'.pc = "validate" /\ mig'.at = mig.at + 1
          /\ db' = db /\ work' = work /\ applied' = applied
      BY <1>3, ValidateFacts
    <2>2. Op' = Op
      BY <1>1, <2>1, SameOp
    <2>3. mig.plans \in Seq(PlanRecord) /\ Len(mig.plans) \in Nat /\ mig.at \in Nat
      BY DEF IInv, CursorOK, Cursor
    <2>4. Len(mig'.plans) \in {Len(mig.plans), Len(mig.plans) + 1}
      <3>1. CASE Skips
        BY <1>3, <2>3, <3>1, ValidateFacts
      <3>2. CASE ~Skips
        BY <1>3, <2>3, <3>2, ValidateFacts
      <3>3. QED
        BY <3>1, <3>2
    <2>5. Len(mig.plans) < mig.at /\ Len(Op.tables) \in Nat
      BY <1>1, OpFacts DEF IInv, CursorOK
    <2>6. CursorOK'
      BY <1>1, <2>1, <2>2, <2>3, <2>4, <2>5 DEF IInv, CursorOK, Forward, PassTwo
    <2>7. QED
      BY <1>1, <2>1, <2>6 DEF IInv, VersionsOK
  <1>4. QED
    BY <1>2, <1>3

LEMMA StartFacts ==
  ASSUME IInv, StartPassTwo
  PROVE  /\ mig.pc = "validate" /\ mig.at > Len(Op.tables)
         /\ mig' \in Cursor /\ mig'.pc = "column" /\ mig'.at = 1 /\ mig'.plans = mig.plans
         /\ db' = db /\ work' = work /\ applied' = applied /\ born' = born
         /\ Op' = Op
  <1>1. mig.plans \in Seq(PlanRecord)
    BY DEF IInv, CursorOK, Cursor
  <1>2. /\ mig.pc = "validate" /\ mig.at > Len(Op.tables)
        /\ mig' = [mig EXCEPT !.pc = "column", !.at = 1]
        /\ db' = db /\ work' = work /\ applied' = applied /\ born' = born
    BY DEF StartPassTwo, NoMoreTables
  <1>3. mig' \in Cursor /\ mig'.pc = "column" /\ mig'.at = 1 /\ mig'.plans = mig.plans
    BY <1>1, <1>2, CursorMoves DEF Forward, PassTwo
  <1>4. QED
    BY <1>2, <1>3, SameOp

LEMMA StartKeeps ==
  ASSUME IInv, StartPassTwo
  PROVE  IInv'
  <1>1. /\ mig.pc = "validate"
        /\ mig' \in Cursor /\ mig'.pc = "column" /\ mig'.at = 1 /\ mig'.plans = mig.plans
        /\ db' = db /\ work' = work /\ applied' = applied /\ born' = born
        /\ Op' = Op
    BY StartFacts
  <1>2. Len(mig.plans) \in Nat
    BY DEF IInv, CursorOK, Cursor
  <1>3. CursorOK'
    BY <1>1, <1>2 DEF IInv, CursorOK, Forward, PassTwo
  <1>4. QED
    BY <1>1, <1>3 DEF IInv, VersionsOK

\* The version each statement of pass two makes, and where it leaves the cursor.
Owner == IF Plan.count = 0 THEN Session ELSE Backfill
WithColumn == Stamped(View(Plan.table), Owner)
WithComposites == Composite(View(Plan.table))
WithPolicies == Secured(View(Plan.table))

MakesVersion(x, pc, nextPc, nextAt) ==
    /\ mig.pc = pc /\ mig.at \in DOMAIN mig.plans /\ Plan.table \in Tables
    /\ x \in Table /\ IsFiniteSet(x.rows) /\ Alter(Plan.table, x)
    /\ mig' \in Cursor /\ mig'.pc = nextPc /\ mig'.at = nextAt /\ mig'.plans = mig.plans
    /\ applied' = applied /\ born' = born /\ Op' = Op

LEMMA AddColumnFacts ==
  ASSUME IInv, AddColumn, ~Abort
  PROVE  /\ MakesVersion(WithColumn, "column", "unique", mig.at)
         /\ Owner \in Tenants \cup {None}
         /\ Plan.count = 0 => View(Plan.table).rows = {} \/ Session # None
  <1>1. /\ mig.pc = "column" /\ mig.at <= Len(mig.plans) /\ born' = born
        /\ Alter(Plan.table, WithColumn)
        /\ mig' = [mig EXCEPT !.pc = "unique"]
        /\ applied' = applied
        /\ Plan.count = 0 => View(Plan.table).rows = {} \/ Session # None
    BY DEF AddColumn, Planning, WithColumn, Owner
  <1>2. mig.at \in DOMAIN mig.plans /\ Plan.table \in Tables
    BY <1>1, PlanUnderWay DEF PassTwo
  <1>3. Owner \in Tenants \cup {None}
    <2>1. Backfill \in Tenants \cup {None}
      BY <1>1, OpFacts
    <2>2. QED
      BY <2>1, AdoptAssumption DEF Owner
  <1>4. View(Plan.table) \in Table /\ IsFiniteSet(View(Plan.table).rows)
    BY <1>2, ViewInTable
  <1>5. WithColumn \in Table /\ WithColumn.rows = ReownedRows(View(Plan.table).rows, Owner, TRUE)
    BY <1>3, <1>4, StampedFacts DEF WithColumn
  <1>a. View(Plan.table).rows \in SUBSET Row /\ TRUE \in BOOLEAN
    BY <1>4, TableFacts
  <1>b. IsFiniteSet(ReownedRows(View(Plan.table).rows, Owner, TRUE))
    BY <1>3, <1>4, <1>a, ReownedRowsFacts
  <1>6. IsFiniteSet(WithColumn.rows)
    BY <1>5, <1>b
  <1>7. mig.plans \in Seq(PlanRecord) /\ mig.at \in Nat /\ mig \in Cursor
    BY DEF IInv, CursorOK, Cursor
  <1>8. mig' \in Cursor /\ mig'.pc = "unique" /\ mig'.at = mig.at /\ mig'.plans = mig.plans
    BY <1>1, <1>7 DEF Cursor, Forward, PassTwo
  <1>9. Op' = Op
    BY <1>1, <1>8, SameOp
  <1>10. QED
    BY <1>1, <1>2, <1>3, <1>5, <1>6, <1>8, <1>9 DEF MakesVersion

LEMMA RewriteFacts ==
  ASSUME IInv, RewriteUniques
  PROVE  MakesVersion(WithComposites, "unique", "rls", mig.at)
  <1>1. /\ mig.pc = "unique" /\ mig.at <= Len(mig.plans) /\ born' = born
        /\ Alter(Plan.table, WithComposites)
        /\ mig' = [mig EXCEPT !.pc = "rls"]
        /\ applied' = applied
    BY DEF RewriteUniques, Planning, WithComposites
  <1>2. mig.at \in DOMAIN mig.plans /\ Plan.table \in Tables
    BY <1>1, PlanUnderWay DEF PassTwo
  <1>3. View(Plan.table) \in Table /\ IsFiniteSet(View(Plan.table).rows)
    BY <1>2, ViewInTable
  <1>4. WithComposites \in Table /\ WithComposites.rows = View(Plan.table).rows
    BY <1>3, CompositeFacts DEF WithComposites
  <1>5. mig.plans \in Seq(PlanRecord) /\ mig.at \in Nat /\ mig \in Cursor
    BY DEF IInv, CursorOK, Cursor
  <1>6. mig' \in Cursor /\ mig'.pc = "rls" /\ mig'.at = mig.at /\ mig'.plans = mig.plans
    BY <1>1, <1>5 DEF Cursor, Forward, PassTwo
  <1>7. Op' = Op
    BY <1>1, <1>6, SameOp
  <1>8. QED
    BY <1>1, <1>2, <1>3, <1>4, <1>6, <1>7 DEF MakesVersion

LEMMA EnableFacts ==
  ASSUME IInv, EnableRls
  PROVE  MakesVersion(WithPolicies, "rls", "column", mig.at + 1)
  <1>1. /\ mig.pc = "rls" /\ mig.at <= Len(mig.plans) /\ born' = born
        /\ Alter(Plan.table, WithPolicies)
        /\ mig' = [mig EXCEPT !.pc = "column", !.at = mig.at + 1]
        /\ applied' = applied
    BY DEF EnableRls, Planning, WithPolicies
  <1>2. mig.at \in DOMAIN mig.plans /\ Plan.table \in Tables
    BY <1>1, PlanUnderWay DEF PassTwo
  <1>3. View(Plan.table) \in Table /\ IsFiniteSet(View(Plan.table).rows)
    BY <1>2, ViewInTable
  <1>4. WithPolicies \in Table /\ WithPolicies.rows = View(Plan.table).rows
    BY <1>3, SecuredFacts DEF WithPolicies
  <1>5. mig.plans \in Seq(PlanRecord) /\ mig.at \in Nat /\ mig.at + 1 \in Nat /\ mig \in Cursor
    BY DEF IInv, CursorOK, Cursor
  <1>6. mig' \in Cursor /\ mig'.pc = "column" /\ mig'.at = mig.at + 1 /\ mig'.plans = mig.plans
    BY <1>1, <1>5 DEF Cursor, Forward, PassTwo
  <1>7. Op' = Op
    BY <1>1, <1>6, SameOp
  <1>8. QED
    BY <1>1, <1>2, <1>3, <1>4, <1>6, <1>7 DEF MakesVersion

LEMMA VersionKeeps ==
  ASSUME IInv, NEW x, NEW pc, NEW nextPc, NEW nextAt,
         MakesVersion(x, pc, nextPc, nextAt), pc \in PassTwo, nextPc \in PassTwo,
         nextAt = mig.at \/ (nextAt = mig.at + 1 /\ nextPc = "column")
  PROVE  IInv'
  <1>1. mig.pc \in PassTwo /\ mig.pc # "idle" /\ born' = born
    BY DEF MakesVersion, PassTwo
  <1>2. VersionsOK' /\ (~Op.atomic => DOMAIN work' = {})
    BY <1>1, AlterVersions DEF MakesVersion
  <1>3. mig.plans \in Seq(PlanRecord) /\ mig.at \in Nat /\ Len(mig.plans) \in Nat
    BY DEF IInv, CursorOK, Cursor
  <1>4. mig.at \in 1..Len(mig.plans)
    BY <1>3 DEF MakesVersion
  <1>5. CursorOK'
    BY <1>1, <1>2, <1>3, <1>4 DEF CursorOK, IInv, MakesVersion, Forward, PassTwo
  <1>6. QED
    BY <1>1, <1>2, <1>5 DEF IInv

LEMMA UnadoptFacts ==
  ASSUME IInv, Unadopt
  PROVE  /\ mig.pc = "undo" /\ Target \in Tables /\ mig.at \in 1..Len(Op.tables)
         /\ \/ Abort
            \/ /\ mig' \in Cursor /\ mig'.pc = "undo" /\ mig'.at = mig.at + 1 /\ mig'.plans = mig.plans
               /\ applied' = applied /\ Op' = Op
               /\ \/ db' = db /\ work' = work
                  \/ /\ Stripped(Target) \in Table /\ IsFiniteSet(Stripped(Target).rows)
                     /\ Alter(Target, Stripped(Target))
                     /\ \A c \in Restored(Target) : ~Clash(View(Target).rows, c)
         /\ born' = born
  <1>1. mig.pc = "undo" /\ mig.at <= Len(Op.tables) /\ born' = born /\ applied' = applied
    BY DEF Unadopt, MoreTables
  <1>2. Target \in Tables /\ mig.at \in 1..Len(Op.tables)
    BY <1>1, TargetFacts
  <1>3. mig.plans \in Seq(PlanRecord) /\ mig.at + 1 \in Nat /\ mig \in Cursor
    BY DEF IInv, CursorOK, Cursor
  <1>4. ASSUME mig' = [mig EXCEPT !.at = mig.at + 1]
        PROVE  /\ mig' \in Cursor /\ mig'.pc = "undo" /\ mig'.at = mig.at + 1 /\ mig'.plans = mig.plans
               /\ Op' = Op
    <2>1. mig' \in Cursor /\ mig'.pc = "undo" /\ mig'.at = mig.at + 1 /\ mig'.plans = mig.plans
      BY <1>1, <1>3, <1>4 DEF Cursor
    <2>2. QED
      BY <1>1, <2>1, SameOp
  <1>5. Stripped(Target) \in Table /\ IsFiniteSet(Stripped(Target).rows)
    <2>1. View(Target) \in Table /\ IsFiniteSet(View(Target).rows)
      BY <1>2, ViewInTable
    <2>2. Stripped(Target) \in Table /\ Stripped(Target).rows = ReownedRows(View(Target).rows, None, FALSE)
      BY <1>2, StrippedFacts
    <2>3. View(Target).rows \in SUBSET Row /\ FALSE \in BOOLEAN /\ None \in Tenants \cup {None}
      BY <2>1, TableFacts
    <2>4. IsFiniteSet(ReownedRows(View(Target).rows, None, FALSE))
      BY <2>1, <2>3, ReownedRowsFacts
    <2>5. QED
      BY <2>2, <2>4
  <1>6. \/ Abort
        \/ mig' = [mig EXCEPT !.at = mig.at + 1] /\ db' = db /\ work' = work
        \/ /\ mig' = [mig EXCEPT !.at = mig.at + 1] /\ Alter(Target, Stripped(Target))
           /\ \A c \in Restored(Target) : ~Clash(View(Target).rows, c)
    BY DEF Unadopt, Abort
  <1>7. QED
    BY <1>1, <1>2, <1>4, <1>5, <1>6

LEMMA UnadoptKeeps ==
  ASSUME IInv, Unadopt
  PROVE  IInv'
  <1>1. /\ mig.pc = "undo" /\ mig.pc # "idle" /\ Target \in Tables /\ mig.at \in 1..Len(Op.tables) /\ born' = born
    BY UnadoptFacts
  <1>2. CASE Abort
    BY <1>1, <1>2, AbortKeeps
  <1>3. CASE ~Abort
    <2>1. /\ mig' \in Cursor /\ mig'.pc = "undo" /\ mig'.at = mig.at + 1 /\ mig'.plans = mig.plans
          /\ applied' = applied /\ Op' = Op
      BY <1>3, UnadoptFacts
    <2>2. VersionsOK' /\ (~Op.atomic => DOMAIN work' = {})
      <3>1. CASE db' = db /\ work' = work
        BY <1>1, <3>1 DEF IInv, VersionsOK, CursorOK
      <3>2. CASE ~(db' = db /\ work' = work)
        BY <1>1, <1>3, <3>2, UnadoptFacts, AlterVersions
      <3>3. QED
        BY <3>1, <3>2
    <2>3. Len(Op.tables) \in Nat /\ mig.at \in Nat
      BY <1>1, OpFacts
    <2>4. CursorOK'
      BY <1>1, <2>1, <2>2, <2>3 DEF IInv, CursorOK, Forward, PassTwo
    <2>5. QED
      BY <1>1, <2>2, <2>4 DEF IInv
  <1>4. QED
    BY <1>2, <1>3

LEMMA CommitFacts ==
  ASSUME IInv, Commit
  PROVE  /\ mig.pc = "column" /\ mig.at > Len(mig.plans)
         /\ Finish(applied + 1) /\ applied + 1 \in 0..Len(Ops) /\ born' = born
  BY AdoptAssumption DEF Commit, IInv, CursorOK, Forward, PassTwo

LEMMA CommitReverseFacts ==
  ASSUME IInv, CommitReverse
  PROVE  /\ mig.pc = "undo"
         /\ Finish(applied - 1) /\ applied - 1 \in 0..Len(Ops) /\ born' = born
  BY AdoptAssumption DEF CommitReverse, NoMoreTables, IInv, CursorOK

LEMMA InitHolds ==
  ASSUME Init
  PROVE  IInv
  <1>1. PICK foreign \in SUBSET ForeignColumn :
          db = [t \in Tables |->
                 [column |-> IF t \in foreign THEN "foreign" ELSE "none",
                  unique |-> Global(Original[t]), rls |-> FALSE, policies |-> FALSE, rows |-> {}]]
    BY DEF Init
  <1>2. \A t \in Tables : db[t] \in Table /\ IsFiniteSet(db[t].rows)
    <2> TAKE t \in Tables
    <2> DEFINE column == IF t \in foreign THEN "foreign" ELSE "none"
               unique == Global(Original[t])
    <2>1. Global(Original[t]) \in SUBSET Unique
      <3>1. Original[t] \in SUBSET [on : Cols, form : Rewritable \cup Refused]
        BY AdoptAssumption
      <3>2. \A c \in [on : Cols, form : Rewritable \cup Refused] : [on |-> c.on, form |-> c.form, lead |-> FALSE] \in Unique
        BY DEF Unique
      <3>3. QED
        BY <3>1, <3>2 DEF Global
    <2>2. db[t] = [column |-> column, unique |-> unique, rls |-> FALSE, policies |-> FALSE, rows |-> {}]
      BY <1>1
    <2>3. column \in {"none", "ours", "foreign"} /\ unique \in SUBSET Unique
      BY <2>1
    <2> HIDE DEF column, unique
    <2>4. db[t] \in Table /\ db[t].rows = {}
      BY <2>2, <2>3 DEF Table
    <2>5. QED
      BY <2>4, FS_EmptySet
  <1>3. db = [t \in Tables |-> db[t]]
    BY <1>1
  <1>4. db \in [Tables -> Table]
    BY <1>2, <1>3
  <1>5. DOMAIN work = {} /\ work \in [DOMAIN work -> Table]
    BY DEF Init
  <1>6. mig \in Cursor /\ mig.pc = "idle"
    BY DEF Init, NoMigration, Cursor
  <1>7. applied \in 0..Len(Ops)
    BY AdoptAssumption DEF Init
  <1>8. CursorOK
    BY <1>5, <1>6, <1>7 DEF CursorOK, Forward, PassTwo
  <1>9. QED
    BY <1>2, <1>4, <1>5, <1>8 DEF IInv, VersionsOK, Init

LEMMA NextKeeps ==
  ASSUME IInv, [Next]_vars
  PROVE  IInv'
  <1>1. CASE Begin
    BY <1>1, BeginKeeps
  <1>2. CASE Validate
    BY <1>2, ValidateKeeps
  <1>3. CASE StartPassTwo
    BY <1>3, StartKeeps
  <1>4. CASE AddColumn
    <2>1. CASE Abort
      BY <1>4, <2>1, AbortKeeps DEF AddColumn
    <2>2. CASE ~Abort
      <3>1. MakesVersion(WithColumn, "column", "unique", mig.at)
        BY <1>4, <2>2, AddColumnFacts
      <3>2. QED
        BY <3>1, VersionKeeps DEF PassTwo
    <2>3. QED
      BY <2>1, <2>2
  <1>5. CASE RewriteUniques
    <2>1. MakesVersion(WithComposites, "unique", "rls", mig.at)
      BY <1>5, RewriteFacts
    <2>2. QED
      BY <2>1, VersionKeeps DEF PassTwo
  <1>6. CASE EnableRls
    <2>1. MakesVersion(WithPolicies, "rls", "column", mig.at + 1)
      BY <1>6, EnableFacts
    <2>2. QED
      BY <2>1, VersionKeeps DEF PassTwo
  <1>7. CASE Commit
    BY <1>7, CommitFacts, FinishKeeps
  <1>8. CASE BeginReverse
    BY <1>8, BeginReverseKeeps
  <1>9. CASE Unadopt
    BY <1>9, UnadoptKeeps
  <1>10. CASE CommitReverse
    BY <1>10, CommitReverseFacts, FinishKeeps
  <1>11. CASE Crash
    BY <1>11, AbortKeeps DEF Crash
  <1>12. ASSUME NEW t \in Tables, NEW id \in RowIds, NEW v \in [Cols -> Vals], NEW who \in Writers,
                Insert(t, id, v, who)
         PROVE  IInv'
    BY <1>12, InsertWrites, WriteKeeps
  <1>13. ASSUME NEW t \in Tables, NEW who \in Writers, NEW r \in db[t].rows, Remove(t, r, who)
         PROVE  IInv'
    BY <1>13, RemoveWrites, WriteKeeps
  <1>14. CASE UNCHANGED vars
    <2>1. Op' = Op
      BY <1>14 DEF vars, Op
    <2>2. QED
      BY <1>14, <2>1 DEF vars, IInv, VersionsOK, CursorOK
  <1>15. QED
    BY <1>1, <1>2, <1>3, <1>4, <1>5, <1>6, <1>7, <1>8, <1>9, <1>10, <1>11, <1>12, <1>13, <1>14 DEF Next

\* Whatever is applied, refused, killed and reversed, the operation stays inside
\* its lists and has nothing uncommitted before pass two (AdoptTenantApp).
THEOREM Invariance == Spec => []IInv
  <1>1. QED
    BY InitHolds, NextKeeps, PTL DEF Spec

LEMMA IInvTypes ==
  ASSUME IInv
  PROVE  TypeOK
  <1>1. mig \in Cursor /\ mig.plans \in Seq(PlanRecord) /\ Len(mig.plans) \in Nat /\ mig.at \in Nat
    BY DEF IInv, CursorOK, Cursor
  <1>2. mig.pc \in {"idle", "validate", "column", "unique", "rls", "undo"}
    BY <1>1 DEF Cursor, Forward, PassTwo
  <1>3. ASSUME mig.pc # "idle"
        PROVE  mig.at \in 1..(Len(Op.tables) + 1) /\ Len(mig.plans) <= Len(Op.tables)
    <2>1. Len(Op.tables) \in Nat
      BY <1>3, OpFacts
    <2>2. CASE mig.pc \in PassTwo
      BY <1>1, <2>1, <2>2 DEF IInv, CursorOK, Forward
    <2>3. CASE mig.pc \in {"validate", "undo"}
      BY <1>1, <2>1, <2>3 DEF IInv, CursorOK, Forward, PassTwo
    <2>4. QED
      BY <1>2, <1>3, <2>2, <2>3 DEF PassTwo
  <1>4. \A t \in DOMAIN work : work[t] \in Table
    BY DEF IInv, VersionsOK
  <1>5. QED
    BY <1>1, <1>2, <1>3, <1>4 DEF TypeOK, IInv, VersionsOK, CursorOK, PlanRecord

\* The variables have their types and the cursor never leaves the lists of the
\* operation, in either direction (database_forwards(), database_backwards()).
THEOREM TypeCorrect == Spec => []TypeOK
  <1>1. QED
    BY Invariance, IInvTypes, PTL

-----------------------------------------------------------------------------
(* Owners *)

\* What a step does to the versions of tables.
LEMMA StepKinds ==
  ASSUME IInv, [Next]_vars
  PROVE  \/ db' = db /\ work' = work
         \/ Abort
         \/ \E n \in 0..Len(Ops) : Finish(n)
         \/ AddColumn /\ ~Abort
         \/ RewriteUniques
         \/ EnableRls
         \/ Unadopt /\ ~Abort /\ ~(db' = db /\ work' = work)
         \/ AppStep
  <1>1. applied \in 0..Len(Ops) /\ Len(Ops) \in Nat
    BY AdoptAssumption DEF IInv, CursorOK
  <1>2. CASE Begin
    BY <1>1, <1>2 DEF Begin
  <1>3. CASE Validate
    BY <1>3, ValidateFacts
  <1>4. CASE StartPassTwo
    BY <1>4, StartFacts
  <1>5. CASE Commit
    BY <1>5, CommitFacts
  <1>6. CASE BeginReverse
    BY <1>1, <1>6 DEF BeginReverse
  <1>7. CASE CommitReverse
    BY <1>7, CommitReverseFacts
  <1>8. CASE Crash
    BY <1>8 DEF Crash
  <1>9. CASE UNCHANGED vars
    BY <1>9 DEF vars
  <1>10. QED
    BY <1>2, <1>3, <1>4, <1>5, <1>6, <1>7, <1>8, <1>9, InsertWrites, RemoveWrites DEF Next

LEMMA OwnedView ==
  ASSUME OInv, NEW t \in Tables
  PROVE  Owned(View(t))
  BY DEF OInv, View

LEMMA OwnedInit ==
  ASSUME Init
  PROVE  OInv
  <1>1. \A t \in Tables : db[t].rows = {}
    BY DEF Init
  <1>2. DOMAIN work = {}
    BY DEF Init
  <1>3. QED
    BY <1>1, <1>2 DEF OInv, Owned

LEMMA OwnedAlter ==
  ASSUME IInv, OInv, mig.pc # "idle", NEW t \in Tables, NEW x \in Table, Alter(t, x), Owned(x)
  PROVE  OInv'
  <1>1. /\ \A u \in Tables : db'[u] = db[u] \/ (u = t /\ db'[u] = x)
        /\ \A u \in DOMAIN work' : (u \in DOMAIN work /\ work'[u] = work[u]) \/ (u = t /\ work'[u] = x)
    BY AlterFrame
  <1>2. \A u \in Tables : Owned(db'[u])
    BY <1>1 DEF OInv
  <1>3. \A u \in DOMAIN work' : Owned(work'[u])
    BY <1>1 DEF OInv
  <1>4. OInv' <=> (\A u \in Tables : Owned(db'[u])) /\ (\A u \in DOMAIN work' : Owned(work'[u]))
    BY DEF OInv, Owned
  <1>5. QED
    BY <1>2, <1>3, <1>4

LEMMA OwnedStep ==
  ASSUME Session = None, IInv, OInv, [Next]_vars
  PROVE  OInv'
  <1>0. OInv' <=> (\A u \in Tables : Owned(db'[u])) /\ (\A u \in DOMAIN work' : Owned(work'[u]))
    BY DEF OInv, Owned
  <1>1. CASE db' = db /\ work' = work
    BY <1>0, <1>1 DEF OInv
  <1>2. CASE Abort
    BY <1>0, <1>2, AbortFrame DEF OInv
  <1>3. ASSUME NEW n \in 0..Len(Ops), Finish(n)
        PROVE  OInv'
    <2>1. (\A u \in Tables : db'[u] = View(u)) /\ DOMAIN work' = {}
      BY <1>3, FinishFrame
    <2>2. QED
      BY <1>0, <2>1, OwnedView
  <1>4. CASE AddColumn /\ ~Abort
    <2>1. MakesVersion(WithColumn, "column", "unique", mig.at) /\ Owner \in Tenants \cup {None}
      BY <1>4, AddColumnFacts
    <2>2. View(Plan.table) \in Table
      BY <2>1, ViewInTable DEF MakesVersion
    <2>3. View(Plan.table).rows \in SUBSET Row /\ TRUE \in BOOLEAN
      BY <2>2, TableFacts
    <2>4. WithColumn.rows = ReownedRows(View(Plan.table).rows, Owner, TRUE)
      BY <2>1, <2>2, StampedFacts DEF WithColumn
    <2>a. \A s \in ReownedRows(View(Plan.table).rows, Owner, TRUE) : s.tenant = Owner /\ s.before = TRUE
      BY <2>1, <2>3, ReownedRowsFacts
    <2>5. \A s \in WithColumn.rows : s.tenant = Owner /\ s.before = TRUE
      BY <2>4, <2>a
    <2>6. Owner # None => Owner \in {Ops[i].backfill : i \in DOMAIN Ops}
      <3>1. mig.pc # "idle" /\ mig.pc # "undo"
        BY <2>1 DEF MakesVersion
      <3>2. Backfill = Ops[applied + 1].backfill /\ applied + 1 \in DOMAIN Ops
        BY <3>1, OpFacts
      <3>3. QED
        BY <3>2 DEF Owner
    <2>7. Owned(WithColumn)
      BY <2>5, <2>6 DEF Owned
    <2>8. QED
      BY <2>1, <2>7, OwnedAlter DEF MakesVersion
  <1>5. CASE RewriteUniques
    <2>1. MakesVersion(WithComposites, "unique", "rls", mig.at)
      BY <1>5, RewriteFacts
    <2>2. WithComposites.rows = View(Plan.table).rows /\ Owned(View(Plan.table))
      BY <2>1, ViewInTable, CompositeFacts, OwnedView DEF MakesVersion, WithComposites
    <2>3. Owned(WithComposites)
      BY <2>2 DEF Owned
    <2>4. QED
      BY <2>1, <2>3, OwnedAlter DEF MakesVersion
  <1>6. CASE EnableRls
    <2>1. MakesVersion(WithPolicies, "rls", "column", mig.at + 1)
      BY <1>6, EnableFacts
    <2>2. WithPolicies.rows = View(Plan.table).rows /\ Owned(View(Plan.table))
      BY <2>1, ViewInTable, SecuredFacts, OwnedView DEF MakesVersion, WithPolicies
    <2>3. Owned(WithPolicies)
      BY <2>2 DEF Owned
    <2>4. QED
      BY <2>1, <2>3, OwnedAlter DEF MakesVersion
  <1>7. CASE Unadopt /\ ~Abort /\ ~(db' = db /\ work' = work)
    <2>1. mig.pc # "idle" /\ Target \in Tables /\ Stripped(Target) \in Table /\ Alter(Target, Stripped(Target))
      BY <1>7, UnadoptFacts
    <2>2. View(Target).rows \in SUBSET Row /\ FALSE \in BOOLEAN /\ None \in Tenants \cup {None}
      BY <2>1, ViewInTable, TableFacts
    <2>3. Stripped(Target).rows = ReownedRows(View(Target).rows, None, FALSE)
      BY <2>1, StrippedFacts
    <2>a. \A s \in ReownedRows(View(Target).rows, None, FALSE) : s.tenant = None
      BY <2>2, ReownedRowsFacts
    <2>4. \A s \in Stripped(Target).rows : s.tenant = None
      BY <2>3, <2>a
    <2>5. Owned(Stripped(Target))
      BY <2>4 DEF Owned
    <2>6. QED
      BY <2>1, <2>5, OwnedAlter
  <1>8. CASE AppStep
    <2>1. PICK t \in Tables, rows \in SUBSET Row :
             /\ AppWrites(t, rows)
             /\ rows \subseteq db[t].rows \/ \E row \in Row : MayEnter(row, db[t], rows)
      BY <1>8 DEF AppStep
    <2>2. /\ db'[t] = WithRows(db[t], rows)
          /\ \A u \in Tables : u # t => db'[u] = db[u]
      BY <2>1, WriteFrame DEF AppWrites
    <2>3. db'[t].rows = rows
      BY <2>2, WithRowsFacts DEF IInv, VersionsOK
    <2>4. \A r \in rows : r \in db[t].rows \/ r.tenant = None \/ (r.before = FALSE /\ r.tenant = r.writer)
      BY <2>1 DEF MayEnter
    <2>5. Owned(db'[t])
      BY <2>3, <2>4 DEF Owned, OInv
    <2>6. QED
      BY <1>0, <2>1, <2>2, <2>5 DEF OInv, AppWrites
  <1>9. QED
    BY <1>1, <1>2, <1>3, <1>4, <1>5, <1>6, <1>7, <1>8, StepKinds

\* A row written after adoption belongs to the tenant that wrote it, an older
\* one to a backfill_tenant (BR-RLS-014), provided no tenant is active in the
\* migrating session.
THEOREM StampedHolds ==
  ASSUME Session = None
  PROVE  Spec => []StampedAsDeclared
  <1>1. Init => OInv
    BY OwnedInit
  <1>2. IInv /\ OInv /\ [Next]_vars => OInv'
    BY OwnedStep
  <1>3. OInv => StampedAsDeclared
    BY DEF OInv, Owned, StampedAsDeclared
  <1>4. QED
    BY <1>1, <1>2, <1>3, Invariance, PTL DEF Spec

-----------------------------------------------------------------------------
(* Plans *)

LEMMA LatestIsView ==
  ASSUME NEW t
  PROVE  View(t) = Latest(work, db, t)
  BY DEF View, Latest

\* A new version of one table leaves the latest versions of the others.
LEMMA LatestAfter ==
  ASSUME IInv, NEW x, NEW pc, NEW nextPc, NEW nextAt, MakesVersion(x, pc, nextPc, nextAt), pc \in PassTwo
  PROVE  /\ mig.plans[mig.at].table \in Tables
         /\ Latest(work, db, mig.plans[mig.at].table) = View(Plan.table)
         /\ Latest(work', db', mig.plans[mig.at].table) = x
         /\ \A u \in Tables : u # mig.plans[mig.at].table => Latest(work', db', u) = Latest(work, db, u)
  <1>1. mig.pc # "idle" /\ Plan.table \in Tables /\ x \in Table /\ Alter(Plan.table, x)
    BY DEF MakesVersion, PassTwo
  <1>2. Plan.table = mig.plans[mig.at].table
    BY DEF Plan
  <1>3. \A t \in Tables : Alter(t, x) =>
          /\ Latest(work', db', t) = x
          /\ \A u \in Tables : u # t => Latest(work', db', u) = Latest(work, db, u)
    BY <1>1, AlterFrame
  <1>4. View(Plan.table) = Latest(work, db, Plan.table)
    BY LatestIsView
  <1>5. QED
    BY <1>1, <1>2, <1>3, <1>4

LEMMA LatestWritten ==
  ASSUME IInv, AppStep
  PROVE  /\ \A u \in Tables : Latest(work', db', u).column = Latest(work, db, u).column
         /\ mig' = mig /\ applied' = applied /\ Op' = Op
  <1>1. PICK t \in Tables, rows \in SUBSET Row : AppWrites(t, rows)
    BY DEF AppStep
  <1>2. \A u \in Tables : Latest(work', db', u).column = Latest(work, db, u).column
    BY <1>1, WriteFrame DEF AppWrites
  <1>3. mig' = mig /\ applied' = applied /\ Op' = Op
    BY <1>1, SameOp DEF AppWrites
  <1>4. QED
    BY <1>2, <1>3

\* What the steps do to the cursor and the count of migrations applied.
LEMMA CursorKinds ==
  ASSUME IInv, [Next]_vars
  PROVE  \/ mig'.pc = "idle" /\ applied' = applied
         \/ Commit
         \/ Begin
         \/ mig'.pc \in {"idle", "undo"} /\ applied' \in {applied, applied - 1}
         \/ Validate /\ ~Abort
         \/ StartPassTwo
         \/ /\ mig.pc \in PassTwo /\ mig'.pc \in PassTwo /\ mig'.plans = mig.plans /\ applied' = applied
         \/ mig' = mig /\ applied' = applied
  <1>1. CASE Abort
    BY <1>1 DEF Abort, NoMigration
  <1>2. CASE BeginReverse
    BY <1>2 DEF BeginReverse, Finish, NoMigration, Started
  <1>3. CASE CommitReverse
    BY <1>3 DEF CommitReverse, Finish, NoMigration
  <1>4. CASE AddColumn /\ ~Abort
    BY <1>4, AddColumnFacts DEF MakesVersion, PassTwo
  <1>5. CASE RewriteUniques
    BY <1>5, RewriteFacts DEF MakesVersion, PassTwo
  <1>6. CASE EnableRls
    BY <1>6, EnableFacts DEF MakesVersion, PassTwo
  <1>7. CASE Unadopt /\ ~Abort
    BY <1>7, UnadoptFacts
  <1>8. CASE AppStep
    BY <1>8, LatestWritten
  <1>9. CASE UNCHANGED vars
    BY <1>9 DEF vars
  <1>10. QED
    BY <1>1, <1>2, <1>3, <1>4, <1>5, <1>6, <1>7, <1>8, <1>9, InsertWrites, RemoveWrites DEF Next, Crash

LEMMA PlannedIdle ==
  ASSUME mig'.pc \notin Forward
  PROVE  Planned'
  BY DEF Planned

LEMMA PlannedBegin ==
  ASSUME IInv, Begin
  PROVE  Planned'
  <1>1. CASE mig'.pc \notin Forward
    BY <1>1, PlannedIdle
  <1>2. CASE mig' = Started("validate")
    <2>1. mig'.plans = <<>> /\ mig'.pc = "validate"
      BY <1>2 DEF Started
    <2>2. PlansDistinct'
      BY <2>1 DEF PlansDistinct
    <2>3. PlansPassed'
      BY <2>1 DEF PlansPassed
    <2>4. PlansPending'
      BY <2>1 DEF PlansPending
    <2>5. UnderWay'
      BY <2>1 DEF UnderWay
    <2>6. QED
      BY <2>2, <2>3, <2>4, <2>5 DEF Planned
  <1>3. QED
    BY <1>1, <1>2 DEF Begin, Finish, NoMigration, Forward, PassTwo

\* What Validate adds to the plans.
LEMMA PlansAfterValidate ==
  ASSUME IInv, Validate, ~Abort
  PROVE  /\ mig.pc = "validate" /\ mig'.pc = "validate" /\ mig'.at = mig.at + 1
         /\ mig.at \in 1..Len(Op.tables) /\ Target = Op.tables[mig.at] /\ Target \in Tables
         /\ db' = db /\ work' = work /\ applied' = applied /\ Op' = Op
         /\ DOMAIN work = {}
         /\ Skips => mig'.plans = mig.plans
         /\ ~Skips => /\ DOMAIN mig'.plans = DOMAIN mig.plans \cup {Len(mig.plans) + 1}
                      /\ Len(mig.plans) + 1 \notin DOMAIN mig.plans
                      /\ \A j \in DOMAIN mig.plans : mig'.plans[j] = mig.plans[j]
                      /\ mig'.plans[Len(mig.plans) + 1].table = Target
                      /\ mig'.plans[Len(mig.plans) + 1].count = RowCount(db[Target])
                      /\ ~Refusal(db[Target]) /\ db[Target].column = "none"
  <1>1. /\ mig.pc = "validate" /\ mig'.pc = "validate" /\ mig'.at = mig.at + 1
        /\ mig.at \in 1..Len(Op.tables) /\ Target \in Tables
        /\ db' = db /\ work' = work /\ applied' = applied
        /\ Skips => mig'.plans = mig.plans
    BY ValidateFacts
  <1>2. Op' = Op
    BY <1>1, SameOp
  <1>3. DOMAIN work = {} /\ mig.plans \in Seq(PlanRecord) /\ Len(mig.plans) \in Nat
    BY <1>1 DEF IInv, CursorOK, Cursor
  <1>4. ASSUME ~Skips
        PROVE  /\ DOMAIN mig'.plans = DOMAIN mig.plans \cup {Len(mig.plans) + 1}
               /\ Len(mig.plans) + 1 \notin DOMAIN mig.plans
               /\ \A j \in DOMAIN mig.plans : mig'.plans[j] = mig.plans[j]
               /\ mig'.plans[Len(mig.plans) + 1].table = Target
               /\ mig'.plans[Len(mig.plans) + 1].count = RowCount(db[Target])
               /\ ~Refusal(db[Target]) /\ db[Target].column = "none"
    <2> DEFINE plan == [table |-> Target, count |-> RowCount(db[Target])]
    <2>1. mig'.plans = Append(mig.plans, plan) /\ plan \in PlanRecord /\ ~Refusal(db[Target])
      BY <1>4, ValidateFacts
    <2>2. plan.table = Target /\ plan.count = RowCount(db[Target])
      OBVIOUS
    <2> HIDE DEF plan
    <2>3. DOMAIN mig'.plans = 1..(Len(mig.plans) + 1) /\ DOMAIN mig.plans = 1..Len(mig.plans)
      BY <1>3, <2>1
    <2>4. mig'.plans[Len(mig.plans) + 1] = plan /\ \A j \in DOMAIN mig.plans : mig'.plans[j] = mig.plans[j]
      BY <1>3, <2>1
    <2>5. db[Target].column = "none"
      <3>1. db[Target].column \in {"none", "ours", "foreign"}
        BY <1>1, TableFacts DEF IInv, VersionsOK
      <3>2. QED
        BY <1>4, <2>1, <3>1 DEF Skips, Refusal
    <2>6. QED
      BY <1>3, <2>1, <2>2, <2>3, <2>4, <2>5
  <1>5. QED
    BY <1>1, <1>2, <1>3, <1>4 DEF Target

LEMMA PlannedValidate ==
  ASSUME IInv, Planned, Validate, ~Abort
  PROVE  Planned'
  <1>1. /\ mig.pc = "validate" /\ mig'.pc = "validate" /\ mig'.at = mig.at + 1
        /\ mig.at \in 1..Len(Op.tables) /\ Target = Op.tables[mig.at] /\ Target \in Tables
        /\ db' = db /\ work' = work /\ applied' = applied /\ Op' = Op
        /\ DOMAIN work = {}
    BY PlansAfterValidate
  <1>2. PlansDistinct /\ PlansPassed /\ PlansPending
    BY <1>1 DEF Planned, Forward
  <1>3. UnderWay'
    BY <1>1 DEF UnderWay
  <1>4. \A k \in 1..(mig.at - 1) : k \in 1..(mig'.at - 1) /\ mig.at \in 1..(mig'.at - 1)
    BY <1>1
  <1>5. CASE Skips
    <2>1. mig'.plans = mig.plans
      BY <1>5, PlansAfterValidate
    <2>2. PlansDistinct'
      BY <1>2, <2>1 DEF PlansDistinct
    <2>3. PlansPassed'
      BY <1>1, <1>2, <1>4, <2>1 DEF PlansPassed
    <2>4. PlansPending'
      BY <1>1, <1>2, <2>1 DEF PlansPending, Pending
    <2>5. QED
      BY <1>3, <2>2, <2>3, <2>4 DEF Planned
  <1>6. CASE ~Skips
    <2> DEFINE n == Len(mig.plans) + 1
    <2>1. /\ DOMAIN mig'.plans = DOMAIN mig.plans \cup {n} /\ n \notin DOMAIN mig.plans
          /\ \A j \in DOMAIN mig.plans : mig'.plans[j] = mig.plans[j]
          /\ mig'.plans[n].table = Target
          /\ db[Target].column = "none"
      BY <1>6, PlansAfterValidate
    <2> HIDE DEF n
    <2>2. \A j \in DOMAIN mig.plans : mig.plans[j].table # Target
      <3> TAKE j \in DOMAIN mig.plans
      <3>1. PICK k \in 1..(mig.at - 1) : mig.plans[j].table = Op.tables[k]
        BY <1>1, <1>2 DEF PlansPassed
      <3>2. \E i \in DOMAIN Ops : Op = Ops[i]
        BY <1>1, OpFacts
      <3>3. Op.tables \in Seq(Tables) /\ DOMAIN Op.tables = 1..Len(Op.tables) /\ Len(Op.tables) \in Nat
        BY <1>1, OpFacts
      <3>4. k \in DOMAIN Op.tables /\ mig.at \in DOMAIN Op.tables /\ k # mig.at
        BY <1>1, <3>3
      <3>5. Op.tables[k] # Op.tables[mig.at]
        BY <3>2, <3>4, AdoptAssumption
      <3>6. QED
        BY <1>1, <3>1, <3>5
    <2>3. PlansDistinct'
      BY <1>2, <2>1, <2>2 DEF PlansDistinct
    <2>4. PlansPassed'
      <3>1. \A j \in DOMAIN mig'.plans : \E k \in 1..(mig'.at - 1) : mig'.plans[j].table = Op.tables[k]
        <4> TAKE j \in DOMAIN mig'.plans
        <4>1. CASE j \in DOMAIN mig.plans
          <5>1. PICK k \in 1..(mig.at - 1) : mig.plans[j].table = Op.tables[k]
            BY <1>1, <1>2, <4>1 DEF PlansPassed
          <5>2. k \in 1..(mig'.at - 1) /\ mig'.plans[j] = mig.plans[j]
            BY <1>4, <2>1, <4>1
          <5>3. QED
            BY <5>1, <5>2
        <4>2. CASE j = n
          <5>1. mig.at \in 1..(mig'.at - 1)
            BY <1>1
          <5>2. QED
            BY <1>1, <2>1, <4>2, <5>1
        <4>3. QED
          BY <2>1, <4>1, <4>2
      <3>2. QED
        BY <1>1, <3>1 DEF PlansPassed
    <2>5. PlansPending'
      <3>1. \A j \in DOMAIN mig'.plans : Latest(work', db', mig'.plans[j].table).column = "none"
        <4> TAKE j \in DOMAIN mig'.plans
        <4>1. CASE j \in DOMAIN mig.plans
          BY <1>1, <1>2, <2>1, <4>1 DEF PlansPending, Pending
        <4>2. CASE j = n
          BY <1>1, <2>1, <4>2 DEF Latest
        <4>3. QED
          BY <2>1, <4>1, <4>2
      <3>2. QED
        BY <3>1 DEF PlansPending
    <2>6. QED
      BY <1>3, <2>3, <2>4, <2>5 DEF Planned
  <1>7. QED
    BY <1>5, <1>6

LEMMA PlannedStart ==
  ASSUME IInv, Planned, StartPassTwo
  PROVE  Planned'
  <1>1. /\ mig.pc = "validate"
        /\ mig'.pc = "column" /\ mig'.at = 1 /\ mig'.plans = mig.plans
        /\ db' = db /\ work' = work
    BY StartFacts
  <1>2. PlansDistinct /\ PlansPending
    BY <1>1 DEF Planned, Forward
  <1>3. PlansDistinct'
    BY <1>1, <1>2 DEF PlansDistinct
  <1>4. PlansPassed' /\ UnderWay'
    BY <1>1 DEF PlansPassed, UnderWay
  <1>5. PlansPending'
    BY <1>1, <1>2 DEF PlansPending, Pending
  <1>6. QED
    BY <1>3, <1>4, <1>5 DEF Planned

\* A statement of pass two changes the plan under way only.
LEMMA PlannedVersion ==
  ASSUME IInv, Planned, NEW x, NEW pc, NEW nextPc, NEW nextAt, MakesVersion(x, pc, nextPc, nextAt),
         pc \in PassTwo, x.column = "ours",
         \/ nextAt = mig.at /\ nextPc \in {"unique", "rls"}
         \/ nextAt = mig.at + 1 /\ nextPc = "column"
  PROVE  Planned'
  <1>1. /\ mig.pc \in PassTwo /\ mig.at \in DOMAIN mig.plans
        /\ mig'.pc = nextPc /\ mig'.at = nextAt /\ mig'.plans = mig.plans
    BY DEF MakesVersion
  <1>2. PlansDistinct /\ PlansPending
    BY <1>1 DEF Planned, Forward
  <1>3. /\ Latest(work', db', mig.plans[mig.at].table) = x
        /\ \A u \in Tables : u # mig.plans[mig.at].table => Latest(work', db', u) = Latest(work, db, u)
    BY LatestAfter
  <1>4. mig.at \in Nat /\ DOMAIN mig.plans \subseteq Nat
    BY DEF IInv, CursorOK, Cursor
  <1>5. PlansDistinct'
    BY <1>1, <1>2 DEF PlansDistinct
  <1>6. PlansPassed'
    BY <1>1 DEF PlansPassed
  <1>7. PlansPending'
    <2>1. ASSUME NEW j \in DOMAIN mig.plans,
                 j > nextAt \/ nextPc = "validate" \/ (j = nextAt /\ nextPc = "column")
          PROVE  Latest(work', db', mig.plans[j].table).column = "none"
      <3>1. j > mig.at
        BY <1>4, <2>1
      <3>2. Latest(work, db, mig.plans[j].table).column = "none"
        BY <1>2, <3>1 DEF PlansPending, Pending
      <3>3. mig.plans[j].table \in Tables
        BY PlanFacts
      <3>4. mig.plans[j].table # mig.plans[mig.at].table
        BY <1>1, <1>2, <1>4, <3>1 DEF PlansDistinct
      <3>5. QED
        BY <1>3, <3>2, <3>3, <3>4
    <2>2. QED
      BY <1>1, <2>1 DEF PlansPending, Pending
  <1>8. UnderWay'
    BY <1>1, <1>3 DEF UnderWay
  <1>9. QED
    BY <1>5, <1>6, <1>7, <1>8 DEF Planned

\* Pass two leaves every table it has come to with the column.
LEMMA ColumnOfVersions ==
  ASSUME IInv, Planned
  PROVE  /\ AddColumn /\ ~Abort => WithColumn.column = "ours"
         /\ RewriteUniques => WithComposites.column = "ours"
         /\ EnableRls => WithPolicies.column = "ours"
  <1>1. ASSUME AddColumn, ~Abort
        PROVE  WithColumn.column = "ours"
    <2>1. Plan.table \in Tables /\ Owner \in Tenants \cup {None}
      BY <1>1, AddColumnFacts DEF MakesVersion
    <2>2. QED
      BY <2>1, ViewInTable, StampedFacts DEF WithColumn
  <1>2. ASSUME mig.pc \in {"unique", "rls"}
        PROVE  View(Plan.table).column = "ours"
    BY <1>2, LatestIsView DEF Planned, UnderWay, Plan, Forward, PassTwo
  <1>3. ASSUME RewriteUniques
        PROVE  WithComposites.column = "ours"
    <2>1. Plan.table \in Tables /\ mig.pc = "unique"
      BY <1>3, RewriteFacts DEF MakesVersion
    <2>2. QED
      BY <1>2, <2>1, ViewInTable, CompositeFacts DEF WithComposites
  <1>4. ASSUME EnableRls
        PROVE  WithPolicies.column = "ours"
    <2>1. Plan.table \in Tables /\ mig.pc = "rls"
      BY <1>4, EnableFacts DEF MakesVersion
    <2>2. QED
      BY <1>2, <2>1, ViewInTable, SecuredFacts DEF WithPolicies
  <1>5. QED
    BY <1>1, <1>3, <1>4

LEMMA PlannedWrite ==
  ASSUME IInv, Planned, AppStep
  PROVE  Planned'
  <1>1. /\ \A u \in Tables : Latest(work', db', u).column = Latest(work, db, u).column
        /\ mig' = mig /\ Op' = Op
    BY LatestWritten
  <1>2. \A j \in DOMAIN mig.plans : mig.plans[j].table \in Tables
    BY PlanFacts
  <1>3. mig.pc \in {"unique", "rls"} => mig.at \in DOMAIN mig.plans
    BY PlanUnderWay DEF IInv, CursorOK, PassTwo
  <1>4. ASSUME mig.pc \in Forward
        PROVE  PlansDistinct' /\ PlansPassed' /\ PlansPending' /\ UnderWay'
    <2>1. PlansDistinct /\ PlansPassed /\ PlansPending /\ UnderWay
      BY <1>4 DEF Planned
    <2>2. PlansDistinct' /\ PlansPassed'
      BY <1>1, <2>1 DEF PlansDistinct, PlansPassed
    <2>3. PlansPending'
      BY <1>1, <1>2, <2>1 DEF PlansPending, Pending
    <2>4. UnderWay'
      BY <1>1, <1>2, <1>3, <2>1 DEF UnderWay
    <2>5. QED
      BY <2>2, <2>3, <2>4
  <1>5. QED
    BY <1>1, <1>4 DEF Planned

LEMMA PlannedStep ==
  ASSUME IInv, Planned, [Next]_vars
  PROVE  Planned'
  <1>1. CASE Begin
    BY <1>1, PlannedBegin
  <1>2. CASE Validate /\ ~Abort
    BY <1>2, PlannedValidate
  <1>3. CASE StartPassTwo
    BY <1>3, PlannedStart
  <1>4. CASE AddColumn /\ ~Abort
    <2>1. MakesVersion(WithColumn, "column", "unique", mig.at)
      BY <1>4, AddColumnFacts
    <2>2. QED
      BY <1>4, <2>1, ColumnOfVersions, PlannedVersion DEF PassTwo
  <1>5. CASE RewriteUniques
    <2>1. MakesVersion(WithComposites, "unique", "rls", mig.at)
      BY <1>5, RewriteFacts
    <2>2. QED
      BY <1>5, <2>1, ColumnOfVersions, PlannedVersion DEF PassTwo
  <1>6. CASE EnableRls
    <2>1. MakesVersion(WithPolicies, "rls", "column", mig.at + 1)
      BY <1>6, EnableFacts
    <2>2. QED
      BY <1>6, <2>1, ColumnOfVersions, PlannedVersion DEF PassTwo
  <1>7. CASE Abort \/ \E n \in 0..Len(Ops) : Finish(n)
    <2>1. mig'.pc = "idle"
      BY <1>7 DEF Abort, Finish, NoMigration
    <2>2. QED
      BY <2>1, PlannedIdle DEF Forward, PassTwo
  <1>8. CASE BeginReverse
    <2>0. \/ mig' = NoMigration
          \/ mig' = Started("undo")
      BY <1>8 DEF BeginReverse, Finish
    <2>1. mig'.pc \in {"idle", "undo"}
      BY <2>0 DEF NoMigration, Started
    <2>2. QED
      BY <2>1, PlannedIdle DEF Forward, PassTwo
  <1>9. CASE Unadopt /\ ~Abort
    <2>1. mig'.pc = "undo"
      BY <1>9, UnadoptFacts
    <2>2. QED
      BY <2>1, PlannedIdle DEF Forward, PassTwo
  <1>10. CASE AppStep
    BY <1>10, PlannedWrite
  <1>11. CASE UNCHANGED vars
    BY <1>11 DEF vars, Planned, PlansDistinct, PlansPassed, PlansPending, Pending, UnderWay, Op
  <1>12. QED
    BY <1>1, <1>2, <1>3, <1>4, <1>5, <1>6, <1>7, <1>8, <1>9, <1>10, <1>11,
       CommitFacts, CommitReverseFacts, InsertWrites, RemoveWrites DEF Next, Crash

LEMMA PlannedInit ==
  ASSUME Init
  PROVE  Planned
  BY DEF Init, NoMigration, Planned, Forward, PassTwo

-----------------------------------------------------------------------------
(* Keys *)

LEMMA KeyedView ==
  ASSUME KInv, NEW t \in Tables
  PROVE  Keyed(t, View(t))
  BY DEF KInv, View

\* Rows that differ in nothing a global constraint looks at.
LEMMA ClashIsAboutValues ==
  ASSUME NEW rows, NEW newRows, NEW c, ~c.lead, ~Clash(rows, c),
         \A s \in newRows : \E r \in rows : s.id = r.id /\ s.vals = r.vals
  PROVE  ~Clash(newRows, c)
  BY DEF Clash

LEMMA ReownedKeepsKeys ==
  ASSUME NEW rows \in SUBSET Row, NEW who \in Tenants \cup {None}, NEW old \in BOOLEAN,
         NEW c, ~c.lead, ~Clash(rows, c)
  PROVE  ~Clash(ReownedRows(rows, who, old), c)
  <1>1. \A s \in ReownedRows(rows, who, old) : \E r \in rows : s.id = r.id /\ s.vals = r.vals
    BY ReownedRowsFacts
  <1>2. QED
    BY <1>1, ClashIsAboutValues

\* A constraint forbids no more for having a leading tenant.
LEMMA LeadingIsWeaker ==
  ASSUME NEW rows, NEW c, NEW d, d.on = c.on, d.lead, ~Clash(rows, c)
  PROVE  ~Clash(rows, d)
  BY DEF Clash

LEMMA FewerRowsDoNotClash ==
  ASSUME NEW rows, NEW fewer \in SUBSET rows, NEW c, ~Clash(rows, c)
  PROVE  ~Clash(fewer, c)
  BY DEF Clash

\* The app's constraints as they are, and as a reversal recreates them.
GlobalOf(c) == [on |-> c.on, form |-> c.form, lead |-> FALSE]
PlainOf(c) == [on |-> c.on, form |-> "plain", lead |-> FALSE]

LEMMA GlobalFacts ==
  ASSUME NEW cs
  PROVE  /\ \A c \in cs : GlobalOf(c) \in Global(cs) /\ GlobalOf(c).on = c.on
         /\ \A d \in Global(cs) : ~d.lead /\ \E c \in cs : d = GlobalOf(c)
  <1>1. Global(cs) = {GlobalOf(c) : c \in cs}
    BY DEF Global, GlobalOf
  <1>2. \A c : GlobalOf(c).on = c.on /\ ~GlobalOf(c).lead
    BY DEF GlobalOf
  <1>3. QED
    BY <1>1, <1>2

LEMMA InitTables ==
  ASSUME Init, NEW t \in Tables
  PROVE  /\ db[t].column \in {"none", "foreign"} /\ db[t].unique = Global(Original[t])
         /\ db[t].rls = FALSE /\ db[t].policies = FALSE /\ db[t].rows = {}
  <1>1. PICK foreign \in SUBSET ForeignColumn :
          db = [u \in Tables |->
                 [column |-> IF u \in foreign THEN "foreign" ELSE "none",
                  unique |-> Global(Original[u]), rls |-> FALSE, policies |-> FALSE, rows |-> {}]]
    BY DEF Init
  <1> DEFINE column == IF t \in foreign THEN "foreign" ELSE "none"
             unique == Global(Original[t])
  <1>2. db[t] = [column |-> column, unique |-> unique, rls |-> FALSE, policies |-> FALSE, rows |-> {}]
    BY <1>1
  <1>3. column \in {"none", "foreign"}
    OBVIOUS
  <1> HIDE DEF column, unique
  <1>4. /\ db[t].column = column /\ db[t].unique = unique
        /\ db[t].rls = FALSE /\ db[t].policies = FALSE /\ db[t].rows = {}
    BY <1>2
  <1>5. QED
    BY <1>3, <1>4 DEF unique

LEMMA KeyedInit ==
  ASSUME Init
  PROVE  KInv
  <1>1. ASSUME NEW t \in Tables
        PROVE  Keyed(t, db[t])
    <2>1. db[t].rows = {} /\ db[t].unique = Global(Original[t])
      BY InitTables
    <2>2. \A c \in Original[t] : \E d \in db[t].unique : d.on = c.on
      BY <2>1, GlobalFacts
    <2>3. \A d \in db[t].unique : ~d.lead
      BY <2>1, GlobalFacts
    <2>4. \A d \in db[t].unique : ~Clash(db[t].rows, d)
      BY <2>1 DEF Clash
    <2>5. QED
      BY <2>1, <2>2, <2>3, <2>4 DEF Keyed
  <1>2. DOMAIN work = {}
    BY DEF Init
  <1>3. QED
    BY <1>1, <1>2 DEF KInv

LEMMA KeyedAlter ==
  ASSUME IInv, KInv, mig.pc # "idle", NEW t \in Tables, NEW x \in Table, Alter(t, x), Keyed(t, x)
  PROVE  KInv'
  <1>1. /\ \A u \in Tables : db'[u] = db[u] \/ (u = t /\ db'[u] = x)
        /\ \A u \in DOMAIN work' : (u \in DOMAIN work /\ work'[u] = work[u]) \/ (u = t /\ work'[u] = x)
    BY AlterFrame
  <1>2. \A u \in Tables : Keyed(u, db'[u])
    BY <1>1 DEF KInv
  <1>3. \A u \in DOMAIN work' : Keyed(u, work'[u])
    BY <1>1 DEF KInv
  <1>4. KInv' <=> (\A u \in Tables : Keyed(u, db'[u])) /\ (\A u \in DOMAIN work' : Keyed(u, work'[u]))
    BY DEF KInv
  <1>5. QED
    BY <1>2, <1>3, <1>4

LEMMA KeyedWithColumn ==
  ASSUME IInv, KInv, Planned, AddColumn, ~Abort
  PROVE  KInv'
  <1>1. MakesVersion(WithColumn, "column", "unique", mig.at) /\ Owner \in Tenants \cup {None}
    BY AddColumnFacts
  <1>2. mig.pc = "column" /\ Plan.table \in Tables /\ mig.at \in DOMAIN mig.plans
    BY <1>1 DEF MakesVersion
  <1>3. View(Plan.table) \in Table /\ Keyed(Plan.table, View(Plan.table)) /\ TRUE \in BOOLEAN
    BY <1>2, ViewInTable, KeyedView
  <1>4. View(Plan.table).column = "none"
    <2>1. Pending(mig.at)
      BY <1>2 DEF Pending
    <2>2. PlansPending
      BY <1>2 DEF Planned, Forward, PassTwo
    <2>3. Latest(work, db, Plan.table).column = "none"
      BY <1>2, <2>1, <2>2 DEF PlansPending, Plan
    <2>4. QED
      BY <2>3, LatestIsView
  <1>5. View(Plan.table).rows \in SUBSET Row
    BY <1>3, TableFacts
  <1>6. /\ WithColumn.unique = View(Plan.table).unique /\ WithColumn.column = "ours"
        /\ WithColumn.rows = ReownedRows(View(Plan.table).rows, Owner, TRUE)
    BY <1>1, <1>3, StampedFacts DEF WithColumn
  <1>7. \A d \in View(Plan.table).unique : ~d.lead /\ ~Clash(View(Plan.table).rows, d)
    BY <1>3, <1>4 DEF Keyed
  <1>8. \A d \in View(Plan.table).unique : ~Clash(ReownedRows(View(Plan.table).rows, Owner, TRUE), d)
    BY <1>1, <1>3, <1>5, <1>7, ReownedKeepsKeys
  <1>9. \A d \in View(Plan.table).unique : ~Clash(WithColumn.rows, d)
    BY <1>6, <1>8
  <1>10. Keyed(Plan.table, WithColumn)
    BY <1>3, <1>6, <1>9 DEF Keyed
  <1>11. QED
    BY <1>1, <1>10, KeyedAlter DEF MakesVersion

LEMMA KeyedWithComposites ==
  ASSUME IInv, KInv, Planned, RewriteUniques
  PROVE  KInv'
  <1>1. MakesVersion(WithComposites, "unique", "rls", mig.at) /\ WithComposites.column = "ours"
    BY RewriteFacts, ColumnOfVersions
  <1>2. Plan.table \in Tables /\ View(Plan.table) \in Table /\ Keyed(Plan.table, View(Plan.table))
    BY <1>1, ViewInTable, KeyedView DEF MakesVersion
  <1>3. /\ WithComposites.unique = {Rewritten(c) : c \in View(Plan.table).unique}
        /\ WithComposites.rows = View(Plan.table).rows
    BY <1>2, CompositeFacts DEF WithComposites
  <1>4. \A c : Rewritten(c).on = c.on /\ Rewritten(c).lead
    BY DEF Rewritten
  <1>5. \A c \in Original[Plan.table] : \E d \in WithComposites.unique : d.on = c.on
    <2> TAKE c \in Original[Plan.table]
    <2>1. PICK d \in View(Plan.table).unique : d.on = c.on
      BY <1>2 DEF Keyed
    <2>2. Rewritten(d) \in WithComposites.unique /\ Rewritten(d).on = c.on
      BY <1>3, <1>4, <2>1
    <2>3. QED
      BY <2>2
  <1>6. \A d \in WithComposites.unique : ~Clash(WithComposites.rows, d)
    <2> TAKE d \in WithComposites.unique
    <2>1. PICK c \in View(Plan.table).unique : d = Rewritten(c)
      BY <1>3
    <2>2. ~Clash(View(Plan.table).rows, c) /\ d.on = c.on /\ d.lead
      BY <1>2, <1>4, <2>1 DEF Keyed
    <2>3. QED
      BY <1>3, <2>2, LeadingIsWeaker
  <1>7. Keyed(Plan.table, WithComposites)
    BY <1>1, <1>5, <1>6 DEF Keyed
  <1>8. QED
    BY <1>1, <1>7, KeyedAlter DEF MakesVersion

LEMMA KeyedWithPolicies ==
  ASSUME IInv, KInv, Planned, EnableRls
  PROVE  KInv'
  <1>1. MakesVersion(WithPolicies, "rls", "column", mig.at + 1)
    BY EnableFacts
  <1>2. Plan.table \in Tables /\ View(Plan.table) \in Table /\ Keyed(Plan.table, View(Plan.table))
    BY <1>1, ViewInTable, KeyedView DEF MakesVersion
  <1>3. /\ WithPolicies.unique = View(Plan.table).unique /\ WithPolicies.rows = View(Plan.table).rows
        /\ WithPolicies.column = View(Plan.table).column
    BY <1>2, SecuredFacts DEF WithPolicies
  <1>4. Keyed(Plan.table, WithPolicies)
    BY <1>2, <1>3 DEF Keyed
  <1>5. QED
    BY <1>1, <1>4, KeyedAlter DEF MakesVersion

\* What a reversal restores.
LEMMA RestoredFacts ==
  ASSUME IInv, NEW t \in Tables
  PROVE  /\ \A d \in Restored(t) : ~d.lead
         /\ \A c \in View(t).unique : ~c.lead => c \in Restored(t)
         /\ \A c \in View(t).unique : c.lead /\ c.on \in Declared[t] =>
               PlainOf(c) \in Restored(t) /\ PlainOf(c).on = c.on
         /\ \A d \in Restored(t) :
               \/ d \in View(t).unique
               \/ \E c \in View(t).unique : c.lead /\ c.on \in Declared[t] /\ d = PlainOf(c)
  <1>1. Restored(t) = {PlainOf(c) : c \in {d \in View(t).unique : d.lead /\ d.on \in Declared[t]}}
                      \cup {c \in View(t).unique : ~c.lead}
    BY DEF Restored, PlainOf
  <1>2. \A c : PlainOf(c).on = c.on /\ ~PlainOf(c).lead
    BY DEF PlainOf
  <1>3. QED
    BY <1>1, <1>2

EveryKeyDeclared == \A t \in Tables : \A c \in Original[t] : c.on \in Declared[t]

LEMMA KeyedStripped ==
  ASSUME EveryKeyDeclared, IInv, KInv, Unadopt, ~Abort, ~(db' = db /\ work' = work)
  PROVE  KInv'
  <1>1. /\ mig.pc # "idle" /\ Target \in Tables
        /\ Stripped(Target) \in Table /\ Alter(Target, Stripped(Target))
        /\ \A c \in Restored(Target) : ~Clash(View(Target).rows, c)
    BY UnadoptFacts
  <1>2. View(Target) \in Table /\ Keyed(Target, View(Target))
    BY <1>1, ViewInTable, KeyedView
  <1>3. View(Target).rows \in SUBSET Row /\ FALSE \in BOOLEAN /\ None \in Tenants \cup {None}
    BY <1>2, TableFacts
  <1>4. /\ Stripped(Target).unique = Restored(Target)
        /\ Stripped(Target).rows = ReownedRows(View(Target).rows, None, FALSE)
    BY <1>1, StrippedFacts
  <1>5. \A d \in Restored(Target) : ~d.lead
    BY <1>1, RestoredFacts
  <1>6. \A d \in Restored(Target) : ~Clash(ReownedRows(View(Target).rows, None, FALSE), d)
    BY <1>1, <1>3, <1>5, ReownedKeepsKeys
  <1>7. \A c \in Original[Target] : \E d \in Restored(Target) : d.on = c.on
    <2> TAKE c \in Original[Target]
    <2>1. PICK d \in View(Target).unique : d.on = c.on
      BY <1>2 DEF Keyed
    <2>2. d.on \in Declared[Target]
      BY <1>1, <2>1 DEF EveryKeyDeclared
    <2>3. CASE d.lead
      BY <1>1, <2>1, <2>2, <2>3, RestoredFacts
    <2>4. CASE ~d.lead
      BY <1>1, <2>1, <2>4, RestoredFacts
    <2>5. QED
      BY <2>3, <2>4
  <1>8. Keyed(Target, Stripped(Target))
    BY <1>4, <1>5, <1>6, <1>7 DEF Keyed
  <1>9. QED
    BY <1>1, <1>8, KeyedAlter

LEMMA KeyedStep ==
  ASSUME EveryKeyDeclared, IInv, Planned, KInv, [Next]_vars
  PROVE  KInv'
  <1>0. KInv' <=> (\A u \in Tables : Keyed(u, db'[u])) /\ (\A u \in DOMAIN work' : Keyed(u, work'[u]))
    BY DEF KInv
  <1>1. CASE db' = db /\ work' = work
    BY <1>0, <1>1 DEF KInv
  <1>2. CASE Abort
    BY <1>0, <1>2, AbortFrame DEF KInv
  <1>3. ASSUME NEW n \in 0..Len(Ops), Finish(n)
        PROVE  KInv'
    <2>1. (\A u \in Tables : db'[u] = View(u)) /\ DOMAIN work' = {}
      BY <1>3, FinishFrame
    <2>2. QED
      BY <1>0, <2>1, KeyedView
  <1>4. CASE AppStep
    <2>1. PICK t \in Tables, rows \in SUBSET Row :
             /\ AppWrites(t, rows)
             /\ rows \subseteq db[t].rows \/ \E row \in Row : MayEnter(row, db[t], rows)
      BY <1>4 DEF AppStep
    <2>2. /\ db'[t] = WithRows(db[t], rows)
          /\ \A u \in Tables : u # t => db'[u] = db[u]
      BY <2>1, WriteFrame DEF AppWrites
    <2>3. db'[t].rows = rows /\ db'[t].unique = db[t].unique /\ db'[t].column = db[t].column
      BY <2>2, WithRowsFacts DEF IInv, VersionsOK
    <2>4. Keyed(t, db[t])
      BY DEF KInv
    <2>5. \A c \in db[t].unique : ~Clash(rows, c)
      BY <2>1, <2>4, FewerRowsDoNotClash DEF MayEnter, Keyed
    <2>6. Keyed(t, db'[t])
      BY <2>3, <2>4, <2>5 DEF Keyed
    <2>7. QED
      BY <1>0, <2>1, <2>2, <2>6 DEF KInv, AppWrites
  <1>5. QED
    BY <1>1, <1>2, <1>3, <1>4, StepKinds,
       KeyedWithColumn, KeyedWithComposites, KeyedWithPolicies, KeyedStripped

LEMMA KeyedImplies ==
  ASSUME KInv
  PROVE  KeysStayUnique
  <1>1. ASSUME NEW t \in Tables, NEW c \in Original[t]
        PROVE  ~Clash(db[t].rows, [on |-> c.on, form |-> c.form, lead |-> TRUE])
    <2>1. PICK d \in db[t].unique : d.on = c.on
      BY DEF KInv, Keyed
    <2>2. ~Clash(db[t].rows, d)
      BY DEF KInv, Keyed
    <2> DEFINE e == [on |-> c.on, form |-> c.form, lead |-> TRUE]
    <2>3. e.on = d.on /\ e.lead
      BY <2>1
    <2> HIDE DEF e
    <2>4. ~Clash(db[t].rows, e)
      BY <2>2, <2>3, LeadingIsWeaker
    <2>5. QED
      BY <2>4 DEF e
  <1>2. QED
    BY <1>1 DEF KeysStayUnique

\* A column the app made unique stays unique for whoever shares its rows,
\* through adoption, reversal and whatever interrupts them
\* (_apply_unique_rewrites(), _restore_unique_constraints()), provided the model
\* state declares what the app made unique. Outside a transaction it is so after
\* each step of the model, which is several statements.
THEOREM KeysHold ==
  ASSUME EveryKeyDeclared
  PROVE  Spec => []KeysStayUnique
  <1>1. Init => Planned /\ KInv
    BY PlannedInit, KeyedInit
  <1>2. IInv /\ Planned /\ KInv /\ [Next]_vars => Planned' /\ KInv'
    BY PlannedStep, KeyedStep
  <1>3. KInv => KeysStayUnique
    BY KeyedImplies
  <1>4. QED
    BY <1>1, <1>2, <1>3, Invariance, PTL DEF Spec

-----------------------------------------------------------------------------
(* Reversal *)

\* Every key can be recreated from the model state as it was.
EveryKeyKnown ==
    \A t \in Tables : \A c \in Original[t] :
        c.on \in Declared[t] /\ c.form \in {"plain"} \cup Refused

LEMMA LeadingFacts ==
  ASSUME NEW cs
  PROVE  /\ {Rewritten(d) : d \in Global(cs)} = Leading(cs)
         /\ {Rewritten(d) : d \in Leading(cs)} = Leading(cs)
         /\ \A d \in Leading(cs) : d.lead /\ \E c \in cs : d = Rewritten(c)
  <1>1. Global(cs) = {GlobalOf(c) : c \in cs}
    BY DEF Global, GlobalOf
  <1>2. \A c : Rewritten(GlobalOf(c)) = Rewritten(c) /\ Rewritten(Rewritten(c)) = Rewritten(c) /\ Rewritten(c).lead
    BY DEF Rewritten, GlobalOf
  <1>3. {Rewritten(d) : d \in Global(cs)} = Leading(cs)
    BY <1>1, <1>2 DEF Leading
  <1>4. {Rewritten(d) : d \in Leading(cs)} = Leading(cs)
    BY <1>2 DEF Leading
  <1>5. QED
    BY <1>2, <1>3, <1>4 DEF Leading

LEMMA FaithfulView ==
  ASSUME RInv, NEW t \in Tables
  PROVE  Faithful(t, View(t))
  BY DEF RInv, View

LEMMA FaithfulInit ==
  ASSUME Init
  PROVE  RInv /\ PlansPlain
  <1>1. \A t \in Tables : Faithful(t, db[t])
    BY InitTables DEF Faithful
  <1>2. DOMAIN work = {}
    BY DEF Init
  <1>3. PlansPlain
    BY DEF Init, NoMigration, PlansPlain, Forward, PassTwo
  <1>4. QED
    BY <1>1, <1>2, <1>3 DEF RInv

LEMMA FaithfulAlter ==
  ASSUME IInv, RInv, mig.pc # "idle", NEW t \in Tables, NEW x \in Table, Alter(t, x), Faithful(t, x)
  PROVE  RInv'
  <1>1. /\ \A u \in Tables : db'[u] = db[u] \/ (u = t /\ db'[u] = x)
        /\ \A u \in DOMAIN work' : (u \in DOMAIN work /\ work'[u] = work[u]) \/ (u = t /\ work'[u] = x)
    BY AlterFrame
  <1>2. \A u \in Tables : Faithful(u, db'[u])
    BY <1>1 DEF RInv
  <1>3. \A u \in DOMAIN work' : Faithful(u, work'[u])
    BY <1>1 DEF RInv
  <1>4. RInv' <=> (\A u \in Tables : Faithful(u, db'[u])) /\ (\A u \in DOMAIN work' : Faithful(u, work'[u]))
    BY DEF RInv
  <1>5. QED
    BY <1>2, <1>3, <1>4

\* The table whose column is next has none yet.
LEMMA PlanHasNoColumn ==
  ASSUME IInv, Planned, mig.pc = "column", mig.at \in DOMAIN mig.plans
  PROVE  View(Plan.table).column = "none"
  <1>1. Pending(mig.at)
    BY DEF Pending
  <1>2. PlansPending
    BY DEF Planned, Forward, PassTwo
  <1>3. Latest(work, db, Plan.table).column = "none"
    BY <1>1, <1>2 DEF PlansPending, Plan
  <1>4. QED
    BY <1>3, LatestIsView

LEMMA FaithfulWithColumn ==
  ASSUME IInv, RInv, PlansPlain, Planned, AddColumn, ~Abort
  PROVE  RInv'
  <1>1. MakesVersion(WithColumn, "column", "unique", mig.at) /\ Owner \in Tenants \cup {None}
    BY AddColumnFacts
  <1>2. mig.pc = "column" /\ Plan.table \in Tables /\ mig.at \in DOMAIN mig.plans
    BY <1>1 DEF MakesVersion
  <1>3. View(Plan.table) \in Table /\ Faithful(Plan.table, View(Plan.table))
    BY <1>2, ViewInTable, FaithfulView
  <1>4. View(Plan.table).column = "none"
    BY <1>2, PlanHasNoColumn
  <1>5. WithColumn.unique = View(Plan.table).unique /\ WithColumn.column = "ours"
    BY <1>1, <1>3, StampedFacts DEF WithColumn
  <1>6. AllPlain(Plan.table)
    BY <1>2 DEF PlansPlain, Plan, Forward, PassTwo
  <1>7. Faithful(Plan.table, WithColumn)
    BY <1>3, <1>4, <1>5, <1>6 DEF Faithful
  <1>8. QED
    BY <1>1, <1>7, FaithfulAlter DEF MakesVersion

LEMMA FaithfulWithComposites ==
  ASSUME IInv, RInv, Planned, RewriteUniques
  PROVE  RInv'
  <1>1. MakesVersion(WithComposites, "unique", "rls", mig.at) /\ WithComposites.column = "ours"
    BY RewriteFacts, ColumnOfVersions
  <1>2. Plan.table \in Tables /\ View(Plan.table) \in Table /\ Faithful(Plan.table, View(Plan.table))
    BY <1>1, ViewInTable, FaithfulView DEF MakesVersion
  <1>3. /\ WithComposites.unique = {Rewritten(c) : c \in View(Plan.table).unique}
        /\ WithComposites.column = View(Plan.table).column
    BY <1>2, CompositeFacts DEF WithComposites
  <1>4. AllPlain(Plan.table) /\ View(Plan.table).unique \in {Global(Original[Plan.table]), Leading(Original[Plan.table])}
    BY <1>1, <1>2, <1>3 DEF Faithful
  <1>5. WithComposites.unique = Leading(Original[Plan.table])
    BY <1>3, <1>4, LeadingFacts
  <1>6. Faithful(Plan.table, WithComposites)
    BY <1>1, <1>4, <1>5 DEF Faithful
  <1>7. QED
    BY <1>1, <1>6, FaithfulAlter DEF MakesVersion

LEMMA FaithfulWithPolicies ==
  ASSUME IInv, RInv, EnableRls
  PROVE  RInv'
  <1>1. MakesVersion(WithPolicies, "rls", "column", mig.at + 1)
    BY EnableFacts
  <1>2. Plan.table \in Tables /\ View(Plan.table) \in Table /\ Faithful(Plan.table, View(Plan.table))
    BY <1>1, ViewInTable, FaithfulView DEF MakesVersion
  <1>3. WithPolicies.unique = View(Plan.table).unique /\ WithPolicies.column = View(Plan.table).column
    BY <1>2, SecuredFacts DEF WithPolicies
  <1>4. Faithful(Plan.table, WithPolicies)
    BY <1>2, <1>3 DEF Faithful
  <1>5. QED
    BY <1>1, <1>4, FaithfulAlter DEF MakesVersion

\* Recreating the composites of the app's constraints gives these back.
LEMMA RestoredIsOriginal ==
  ASSUME EveryKeyKnown, IInv, NEW t \in Tables, Faithful(t, View(t))
  PROVE  Restored(t) = Global(Original[t])
  <1>1. CASE View(t).unique = Global(Original[t])
    <2>1. \A c \in View(t).unique : ~c.lead
      BY <1>1, GlobalFacts
    <2>2. \A d \in Restored(t) : d \in Global(Original[t])
      BY <1>1, <2>1, RestoredFacts
    <2>3. \A d \in Global(Original[t]) : d \in Restored(t)
      BY <1>1, <2>1, RestoredFacts
    <2>4. QED
      BY <2>2, <2>3
  <1>2. CASE AllPlain(t) /\ View(t).unique = Leading(Original[t])
    <2>1. \A c \in Original[t] : /\ PlainOf(Rewritten(c)) = GlobalOf(c)
                                 /\ Rewritten(c).lead /\ Rewritten(c).on \in Declared[t]
      BY <1>2 DEF AllPlain, PlainOf, Rewritten, GlobalOf, EveryKeyKnown
    <2>2. ASSUME NEW d \in Restored(t)
          PROVE  d \in Global(Original[t])
      <3>1. \A c \in View(t).unique : c.lead
        BY <1>2, LeadingFacts
      <3>2. PICK c \in View(t).unique : d = PlainOf(c)
        BY <3>1, RestoredFacts
      <3>3. PICK o \in Original[t] : c = Rewritten(o)
        BY <1>2, LeadingFacts
      <3>4. d = GlobalOf(o)
        BY <2>1, <3>2, <3>3
      <3>5. QED
        BY <3>4, GlobalFacts
    <2>3. ASSUME NEW d \in Global(Original[t])
          PROVE  d \in Restored(t)
      <3>1. PICK c \in Original[t] : d = GlobalOf(c)
        BY GlobalFacts
      <3>2. Rewritten(c) \in View(t).unique
        BY <1>2 DEF Leading
      <3>3. PlainOf(Rewritten(c)) \in Restored(t)
        BY <2>1, <3>2, RestoredFacts
      <3>4. QED
        BY <2>1, <3>1, <3>3
    <2>4. QED
      BY <2>2, <2>3
  <1>3. QED
    BY <1>1, <1>2 DEF Faithful

LEMMA FaithfulStripped ==
  ASSUME EveryKeyKnown, IInv, RInv, Unadopt, ~Abort, ~(db' = db /\ work' = work)
  PROVE  RInv'
  <1>1. /\ mig.pc # "idle" /\ Target \in Tables
        /\ Stripped(Target) \in Table /\ Alter(Target, Stripped(Target))
    BY UnadoptFacts
  <1>2. Stripped(Target).unique = Restored(Target) /\ Stripped(Target).column = "none"
    BY <1>1, StrippedFacts
  <1>3. Restored(Target) = Global(Original[Target])
    BY <1>1, FaithfulView, RestoredIsOriginal
  <1>4. Faithful(Target, Stripped(Target))
    BY <1>2, <1>3 DEF Faithful
  <1>5. QED
    BY <1>1, <1>4, FaithfulAlter

\* A plan is made only for a table whose constraints can be recreated.
LEMMA PlannedIsPlain ==
  ASSUME EveryKeyKnown, IInv, RInv, Validate, ~Abort, ~Skips
  PROVE  AllPlain(Target)
  <1>1. Target \in Tables /\ ~Refusal(db[Target]) /\ db[Target].column = "none"
    BY PlansAfterValidate
  <1>2. db[Target].unique = Global(Original[Target])
    BY <1>1 DEF RInv, Faithful
  <1>3. \A d \in db[Target].unique : d.form \notin Refused
    BY <1>1 DEF Refusal
  <1>4. ASSUME NEW c \in Original[Target]
        PROVE  c.form = "plain"
    <2>1. GlobalOf(c) \in db[Target].unique
      BY <1>2, GlobalFacts
    <2>2. GlobalOf(c).form = c.form
      BY DEF GlobalOf
    <2>3. c.form \notin Refused
      BY <1>3, <2>1, <2>2
    <2>4. c.form \in {"plain"} \cup Refused
      BY <1>1 DEF EveryKeyKnown
    <2>5. QED
      BY <2>3, <2>4
  <1>5. QED
    BY <1>4 DEF AllPlain

LEMMA PlansPlainStep ==
  ASSUME EveryKeyKnown, IInv, RInv, PlansPlain, [Next]_vars
  PROVE  PlansPlain'
  <1>1. CASE mig'.pc \notin Forward
    BY <1>1 DEF PlansPlain
  <1>2. CASE mig.pc \in Forward /\ mig'.plans = mig.plans
    BY <1>2 DEF PlansPlain, AllPlain
  <1>3. CASE mig'.plans = <<>>
    BY <1>3 DEF PlansPlain
  <1>4. CASE Validate /\ ~Abort
    <2>1. CASE Skips
      BY <1>2, <1>4, <2>1, PlansAfterValidate DEF Forward
    <2>2. CASE ~Skips
      <3>1. /\ DOMAIN mig'.plans = DOMAIN mig.plans \cup {Len(mig.plans) + 1}
            /\ \A j \in DOMAIN mig.plans : mig'.plans[j] = mig.plans[j]
            /\ mig'.plans[Len(mig.plans) + 1].table = Target
            /\ mig.pc = "validate"
        BY <1>4, <2>2, PlansAfterValidate
      <3>2. AllPlain(Target)
        BY <1>4, <2>2, PlannedIsPlain
      <3>3. \A j \in DOMAIN mig.plans : AllPlain(mig.plans[j].table)
        BY <3>1 DEF PlansPlain, Forward
      <3>4. \A j \in DOMAIN mig'.plans : AllPlain(mig'.plans[j].table)
        BY <3>1, <3>2, <3>3
      <3>5. QED
        BY <3>4 DEF PlansPlain, AllPlain
    <2>3. QED
      BY <2>1, <2>2
  <1>5. CASE Begin \/ Commit
    <2>1. mig' = Started("validate") \/ mig' = NoMigration
      BY <1>5 DEF Begin, Commit, Finish
    <2>2. mig'.plans = <<>>
      BY <2>1 DEF Started, NoMigration
    <2>3. QED
      BY <1>3, <2>2
  <1>6. CASE StartPassTwo
    BY <1>2, <1>6, StartFacts DEF Forward
  <1>7. CASE mig' = mig
    BY <1>7 DEF PlansPlain, AllPlain
  <1>8. QED
    BY <1>1, <1>2, <1>4, <1>5, <1>6, <1>7, CursorKinds DEF Forward, PassTwo

LEMMA FaithfulStep ==
  ASSUME EveryKeyKnown, IInv, Planned, RInv, PlansPlain, [Next]_vars
  PROVE  RInv'
  <1>0. RInv' <=> (\A u \in Tables : Faithful(u, db'[u])) /\ (\A u \in DOMAIN work' : Faithful(u, work'[u]))
    BY DEF RInv
  <1>1. CASE db' = db /\ work' = work
    BY <1>0, <1>1 DEF RInv
  <1>2. CASE Abort
    BY <1>0, <1>2, AbortFrame DEF RInv
  <1>3. ASSUME NEW n \in 0..Len(Ops), Finish(n)
        PROVE  RInv'
    <2>1. (\A u \in Tables : db'[u] = View(u)) /\ DOMAIN work' = {}
      BY <1>3, FinishFrame
    <2>2. QED
      BY <1>0, <2>1, FaithfulView
  <1>4. CASE AppStep
    <2>1. PICK t \in Tables, rows \in SUBSET Row : AppWrites(t, rows)
      BY <1>4 DEF AppStep
    <2>2. /\ db'[t] = WithRows(db[t], rows)
          /\ \A u \in Tables : u # t => db'[u] = db[u]
      BY <2>1, WriteFrame DEF AppWrites
    <2>3. db'[t].unique = db[t].unique /\ db'[t].column = db[t].column
      BY <2>2, WithRowsFacts DEF IInv, VersionsOK
    <2>4. Faithful(t, db'[t])
      BY <2>3 DEF Faithful, RInv
    <2>5. QED
      BY <1>0, <2>1, <2>2, <2>4 DEF RInv, AppWrites
  <1>5. QED
    BY <1>1, <1>2, <1>3, <1>4, StepKinds,
       FaithfulWithColumn, FaithfulWithComposites, FaithfulWithPolicies, FaithfulStripped

\* Reversing restores each unique constraint to its original global definition
\* (_restore_unique_constraints(), docs/how-to/adopt-a-third-party-app.md),
\* provided the model state declares every key and none is NULLS NOT DISTINCT.
THEOREM ReverseHolds ==
  ASSUME EveryKeyKnown
  PROVE  Spec => []ReverseRestores
  <1>1. Init => Planned /\ RInv /\ PlansPlain
    BY PlannedInit, FaithfulInit
  <1>2. IInv /\ Planned /\ RInv /\ PlansPlain /\ [Next]_vars => Planned' /\ RInv' /\ PlansPlain'
    BY PlannedStep, FaithfulStep, PlansPlainStep
  <1>3. RInv => ReverseRestores
    BY DEF RInv, Faithful, ReverseRestores
  <1>4. QED
    BY <1>1, <1>2, <1>3, Invariance, PTL DEF Spec

-----------------------------------------------------------------------------
(* Wholeness *)

LEMMA CoveredInit ==
  ASSUME Init
  PROVE  AInv
  BY DEF Init, NoMigration, AInv, PassTwo

\* What is covered while the plans are made stays so.
LEMMA CoveredByPlans ==
  ASSUME mig.pc = "validate", db' = db, work' = work,
         \/ mig'.pc = "validate"
         \/ mig'.at = 1 /\ DOMAIN mig.plans \subseteq Nat \ {0},
         \A j \in DOMAIN mig.plans : j \in DOMAIN mig'.plans /\ mig'.plans[j] = mig.plans[j],
         NEW t, Covered(work, db, mig, t)
  PROVE  Covered(work', db', mig', t)
  <1>1. CASE Latest(work', db', t).column = "ours"
    BY <1>1 DEF Covered
  <1>2. ASSUME NEW j \in DOMAIN mig.plans, mig.plans[j].table = t
        PROVE  Covered(work', db', mig', t)
    <2>1. mig'.pc = "validate" \/ j >= mig'.at
      OBVIOUS
    <2>2. QED
      BY <1>2, <2>1 DEF Covered
  <1>3. QED
    BY <1>1, <1>2 DEF Covered

LEMMA CoveredValidate ==
  ASSUME IInv, AInv, Validate, ~Abort
  PROVE  AInv'
  <1>1. /\ mig.pc = "validate" /\ mig'.pc = "validate" /\ mig'.at = mig.at + 1
        /\ mig.at \in 1..Len(Op.tables) /\ Target = Op.tables[mig.at]
        /\ db' = db /\ work' = work /\ applied' = applied /\ Op' = Op
        /\ DOMAIN work = {}
    BY PlansAfterValidate
  <1>2. Skips => mig'.plans = mig.plans
    BY PlansAfterValidate
  <1>3. ~Skips => /\ DOMAIN mig'.plans = DOMAIN mig.plans \cup {Len(mig.plans) + 1}
                  /\ \A j \in DOMAIN mig.plans : mig'.plans[j] = mig.plans[j]
                  /\ mig'.plans[Len(mig.plans) + 1].table = Target
    BY PlansAfterValidate
  <1>4. \A j \in DOMAIN mig.plans : j \in DOMAIN mig'.plans /\ mig'.plans[j] = mig.plans[j]
    BY <1>2, <1>3
  <1>5. \A t : Covered(work, db, mig, t) => Covered(work', db', mig', t)
    BY <1>1, <1>4, CoveredByPlans
  <1>6. Target \in Allowed => Covered(work', db', mig', Target)
    <2>1. CASE Skips
      BY <1>1, <2>1 DEF Covered, Latest, Skips
    <2>2. CASE ~Skips
      BY <1>1, <1>3, <2>2 DEF Covered, Target
    <2>3. QED
      BY <2>1, <2>2
  <1>7. ASSUME NEW k \in 1..mig.at, Op.tables[k] \in Allowed
        PROVE  Covered(work', db', mig', Op.tables[k])
    <2>1. CASE k = mig.at
      BY <1>1, <1>6, <1>7, <2>1
    <2>2. CASE k # mig.at
      <3>1. k \in 1..(mig.at - 1)
        BY <1>1, <2>2
      <3>2. Covered(work, db, mig, Op.tables[k])
        BY <1>1, <1>7, <3>1 DEF AInv
      <3>3. QED
        BY <1>5, <1>1, <3>2
    <2>3. QED
      BY <2>1, <2>2
  <1>8. QED
    BY <1>1, <1>7 DEF AInv, PassTwo

LEMMA CoveredStart ==
  ASSUME IInv, AInv, StartPassTwo
  PROVE  AInv'
  <1>1. /\ mig.pc = "validate" /\ mig.at > Len(Op.tables)
        /\ mig'.pc = "column" /\ mig'.at = 1 /\ mig'.plans = mig.plans
        /\ db' = db /\ work' = work /\ applied' = applied
    BY StartFacts
  <1>2. mig.plans \in Seq(PlanRecord) /\ mig.at \in Nat /\ mig.pc # "idle"
    BY <1>1 DEF IInv, CursorOK, Cursor
  <1>3. DOMAIN mig.plans \subseteq Nat \ {0}
    BY <1>2
  <1>4. Op = Ops[applied + 1] /\ Op.tables \in Seq(Tables) /\ Len(Op.tables) \in Nat
    BY <1>1, <1>2, OpFacts
  <1>5. ASSUME NEW t \in Admitted(applied + 1)
        PROVE  Covered(work', db', mig', t)
    <2>1. PICK k \in DOMAIN Op.tables : t = Op.tables[k]
      BY <1>4 DEF Admitted
    <2>2. k \in 1..(mig.at - 1)
      BY <1>1, <1>2, <1>4, <2>1
    <2>3. t \in Allowed
      BY DEF Admitted
    <2>4. Covered(work, db, mig, t)
      BY <1>1, <2>1, <2>2, <2>3 DEF AInv
    <2>5. QED
      BY <1>1, <1>3, <2>4, CoveredByPlans
  <1>6. QED
    BY <1>1, <1>5 DEF AInv

LEMMA AdmittedTables ==
  ASSUME NEW i \in 1..Len(Ops)
  PROVE  Admitted(i) \subseteq Tables
  BY OpsFacts DEF Admitted

LEMMA CoveredVersion ==
  ASSUME IInv, AInv, NEW x, NEW pc, NEW nextPc, NEW nextAt, MakesVersion(x, pc, nextPc, nextAt),
         pc \in PassTwo, nextPc \in PassTwo, x.column = "ours",
         nextAt = mig.at \/ nextAt = mig.at + 1
  PROVE  AInv'
  <1>1. /\ mig.pc \in PassTwo /\ mig.at \in DOMAIN mig.plans
        /\ mig'.pc = nextPc /\ mig'.at = nextAt /\ mig'.plans = mig.plans /\ applied' = applied
    BY DEF MakesVersion
  <1>2. /\ Latest(work', db', mig.plans[mig.at].table) = x
        /\ \A u \in Tables : u # mig.plans[mig.at].table => Latest(work', db', u) = Latest(work, db, u)
    BY LatestAfter
  <1>3. mig.at \in Nat /\ DOMAIN mig.plans \subseteq Nat
    BY DEF IInv, CursorOK, Cursor
  <1>4. mig.pc # "validate" /\ nextPc # "validate"
    BY <1>1 DEF PassTwo
  <1>5. Admitted(applied + 1) \subseteq Tables
    <2>1. applied + 1 \in 1..Len(Ops)
      BY <1>1, AdoptAssumption DEF IInv, CursorOK, Forward
    <2>2. QED
      BY <2>1, AdmittedTables
  <1>6. ASSUME NEW t \in Admitted(applied + 1)
        PROVE  Covered(work', db', mig', t)
    <2>1. CASE t = mig.plans[mig.at].table
      BY <1>2, <2>1 DEF Covered
    <2>2. CASE t # mig.plans[mig.at].table
      <3>1. CASE Latest(work, db, t).column = "ours"
        BY <1>2, <1>5, <2>2, <3>1 DEF Covered
      <3>2. ASSUME NEW j \in DOMAIN mig.plans, j >= mig.at, mig.plans[j].table = t
            PROVE  Covered(work', db', mig', t)
        <4>1. j >= nextAt
          BY <1>3, <2>2, <3>2
        <4>2. QED
          BY <1>1, <3>2, <4>1 DEF Covered
      <3>3. Covered(work, db, mig, t)
        BY <1>1 DEF AInv
      <3>4. QED
        BY <1>4, <3>1, <3>2, <3>3 DEF Covered
    <2>3. QED
      BY <2>1, <2>2
  <1>7. QED
    BY <1>1, <1>4, <1>6 DEF AInv

LEMMA CoveredWrite ==
  ASSUME IInv, AInv, AppStep
  PROVE  AInv'
  <1>1. /\ \A u \in Tables : Latest(work', db', u).column = Latest(work, db, u).column
        /\ mig' = mig /\ applied' = applied /\ Op' = Op
    BY LatestWritten
  <1>2. \A u \in Tables : Covered(work, db, mig, u) => Covered(work', db', mig', u)
    BY <1>1 DEF Covered
  <1>3. ASSUME mig.pc \in PassTwo
        PROVE  \A t \in Admitted(applied + 1) : Covered(work', db', mig', t)
    <2>1. applied + 1 \in 1..Len(Ops)
      BY <1>3, AdoptAssumption DEF IInv, CursorOK, Forward
    <2>2. QED
      BY <1>2, <1>3, <2>1, AdmittedTables DEF AInv
  <1>4. ASSUME mig.pc = "validate"
        PROVE  \A k \in 1..(mig.at - 1) :
                  Op.tables[k] \in Allowed => Covered(work', db', mig', Op.tables[k])
    <2>1. Op.tables \in Seq(Tables) /\ mig.at \in 1..(Len(Op.tables) + 1) /\ Len(Op.tables) \in Nat
      BY <1>4, OpFacts DEF IInv, CursorOK
    <2>2. \A k \in 1..(mig.at - 1) : Op.tables[k] \in Tables
      BY <2>1
    <2>3. QED
      BY <1>2, <1>4, <2>2 DEF AInv
  <1>5. QED
    BY <1>1, <1>3, <1>4 DEF AInv

LEMMA CoveredStep ==
  ASSUME IInv, Planned, AInv, [Next]_vars
  PROVE  AInv'
  <1>1. CASE mig'.pc \in {"idle", "undo"}
    BY <1>1 DEF AInv, PassTwo
  <1>2. CASE mig' = Started("validate")
    BY <1>2 DEF AInv, Started, PassTwo
  <1>3. CASE Begin \/ BeginReverse \/ Abort \/ \E n : Finish(n)
    <2>1. \/ mig' = Started("validate") \/ mig'.pc = "undo" \/ mig'.pc = "idle"
      BY <1>3 DEF Begin, BeginReverse, Abort, Finish, NoMigration, Started
    <2>2. QED
      BY <1>1, <1>2, <2>1
  <1>4. CASE Validate /\ ~Abort
    BY <1>4, CoveredValidate
  <1>5. CASE StartPassTwo
    BY <1>5, CoveredStart
  <1>6. CASE AddColumn /\ ~Abort
    <2>1. MakesVersion(WithColumn, "column", "unique", mig.at)
      BY <1>6, AddColumnFacts
    <2>2. QED
      BY <1>6, <2>1, ColumnOfVersions, CoveredVersion DEF PassTwo
  <1>7. CASE RewriteUniques
    <2>1. MakesVersion(WithComposites, "unique", "rls", mig.at)
      BY <1>7, RewriteFacts
    <2>2. QED
      BY <1>7, <2>1, ColumnOfVersions, CoveredVersion DEF PassTwo
  <1>8. CASE EnableRls
    <2>1. MakesVersion(WithPolicies, "rls", "column", mig.at + 1)
      BY <1>8, EnableFacts
    <2>2. QED
      BY <1>8, <2>1, ColumnOfVersions, CoveredVersion DEF PassTwo
  <1>9. CASE Unadopt /\ ~Abort
    BY <1>1, <1>9, UnadoptFacts
  <1>10. CASE AppStep
    BY <1>10, CoveredWrite
  <1>11. CASE UNCHANGED vars
    BY <1>11 DEF vars, AInv, Op
  <1>12. QED
    BY <1>3, <1>4, <1>5, <1>6, <1>7, <1>8, <1>9, <1>10, <1>11,
       CommitFacts, CommitReverseFacts, InsertWrites, RemoveWrites DEF Next, Crash

LEMMA DoomedInit ==
  ASSUME Init
  PROVE  DInv
  <1>1. \A t \in Tables : AsItWas(db[t], t)
    BY InitTables DEF AsItWas
  <1>2. DOMAIN work = {} /\ mig.pc = "idle" /\ 1..applied = {}
    BY DEF Init, NoMigration
  <1>3. QED
    BY <1>1, <1>2 DEF DInv, Forward, PassTwo

\* The three parts of DInv that a step may disturb.
StaysAsItWas(w, d) == \A t \in Tables : Unrewritable(t) => t \notin DOMAIN w /\ AsItWas(d[t], t)

LEMMA AsItWasAlter ==
  ASSUME IInv, DInv, mig.pc # "idle", NEW t \in Tables, NEW x \in Table, Alter(t, x), ~Unrewritable(t)
  PROVE  StaysAsItWas(work', db')
  <1>1. /\ \A u \in Tables : db'[u] = db[u] \/ (u = t /\ db'[u] = x)
        /\ DOMAIN work' \subseteq DOMAIN work \cup {t}
    BY AlterFrame
  <1>2. QED
    BY <1>1 DEF DInv, StaysAsItWas

LEMMA AsItWasStep ==
  ASSUME IInv, DInv, [Next]_vars
  PROVE  StaysAsItWas(work', db')
  <1>1. CASE db' = db /\ work' = work
    BY <1>1 DEF DInv, StaysAsItWas
  <1>2. CASE Abort
    BY <1>2, AbortFrame DEF DInv, StaysAsItWas
  <1>3. ASSUME NEW n \in 0..Len(Ops), Finish(n)
        PROVE  StaysAsItWas(work', db')
    <2>1. (\A u \in Tables : db'[u] = View(u)) /\ DOMAIN work' = {}
      BY <1>3, FinishFrame
    <2>2. QED
      BY <2>1 DEF DInv, View, StaysAsItWas
  <1>4. ASSUME NEW x, NEW pc, NEW nextPc, NEW nextAt, MakesVersion(x, pc, nextPc, nextAt), pc \in PassTwo
        PROVE  StaysAsItWas(work', db')
    <2>1. mig.pc \in PassTwo /\ mig.at \in DOMAIN mig.plans /\ Plan.table \in Tables /\ x \in Table /\ Alter(Plan.table, x)
      BY <1>4 DEF MakesVersion
    <2>2. ~Unrewritable(Plan.table)
      BY <2>1 DEF DInv, Forward, Plan
    <2>3. QED
      BY <2>1, <2>2, AsItWasAlter DEF PassTwo
  <1>5. CASE Unadopt /\ ~Abort /\ ~(db' = db /\ work' = work)
    <2>1. mig.pc = "undo" /\ Target \in Tables /\ Stripped(Target) \in Table /\ Alter(Target, Stripped(Target))
      BY <1>5, UnadoptFacts
    <2>2. Target \in Allowed
      BY <1>5 DEF Unadopt
    <2>3. Target \in Admitted(applied) /\ applied \in 1..applied
      <3>1. Op = Ops[applied] /\ mig.at \in 1..Len(Op.tables) /\ Op.tables \in Seq(Tables)
        BY <1>5, <2>1, OpFacts, UnadoptFacts
      <3>2. applied \in Nat /\ applied > 0
        BY <2>1, AdoptAssumption DEF IInv, CursorOK
      <3>3. QED
        BY <2>2, <3>1, <3>2 DEF Admitted, Target
    <2>4. ~Unrewritable(Target)
      BY <2>3 DEF DInv, Doomed
    <2>5. QED
      BY <2>1, <2>4, AsItWasAlter
  <1>6. CASE AppStep
    <2>1. PICK t \in Tables, rows \in SUBSET Row : AppWrites(t, rows)
      BY <1>6 DEF AppStep
    <2>2. /\ db'[t] = WithRows(db[t], rows)
          /\ \A u \in Tables : u # t => db'[u] = db[u]
      BY <2>1, WriteFrame DEF AppWrites
    <2>3. db'[t].unique = db[t].unique /\ db'[t].column = db[t].column
      BY <2>2, WithRowsFacts DEF IInv, VersionsOK
    <2>4. QED
      BY <2>1, <2>2, <2>3 DEF DInv, AsItWas, AppWrites, StaysAsItWas
  <1>7. QED
    BY <1>1, <1>2, <1>3, <1>4, <1>5, <1>6, StepKinds, AddColumnFacts, RewriteFacts, EnableFacts DEF PassTwo

LEMMA UnrewritableIsRefused ==
  ASSUME IInv, DInv, Validate, ~Abort, ~Skips
  PROVE  ~Unrewritable(Target)
  <1>1. Target \in Tables /\ ~Refusal(db[Target]) /\ db[Target].column = "none"
    BY PlansAfterValidate
  <1>2. ASSUME NEW c \in Original[Target], c.form \in Refused
        PROVE  FALSE
    <2>1. db[Target].unique = Global(Original[Target])
      BY <1>1, <1>2 DEF DInv, AsItWas, Unrewritable
    <2>2. GlobalOf(c) \in db[Target].unique /\ GlobalOf(c).form = c.form
      BY <2>1, GlobalFacts DEF GlobalOf
    <2>3. QED
      BY <1>1, <1>2, <2>2 DEF Refusal
  <1>3. QED
    BY <1>2 DEF Unrewritable

PlansRewritable(m) == m.pc \in Forward => \A j \in DOMAIN m.plans : ~Unrewritable(m.plans[j].table)
OpNotDoomed(m, n) == m.pc \in PassTwo => ~Doomed(n + 1)
NoneDoomed(n) == \A i \in 1..n : ~Doomed(i)

\* An operation with a table that cannot be rewritten never comes to pass two,
\* and is never recorded as applied.
LEMMA DoomedStep ==
  ASSUME IInv, Planned, AInv, DInv, [Next]_vars
  PROVE  DInv'
  <1>0. PlansRewritable(mig) /\ OpNotDoomed(mig, applied) /\ NoneDoomed(applied) /\ applied \in Nat
    BY AdoptAssumption DEF DInv, IInv, CursorOK, PlansRewritable, OpNotDoomed, NoneDoomed
  <1>1. StaysAsItWas(work', db')
    BY AsItWasStep
  <1>2. DInv' <=> /\ StaysAsItWas(work', db') /\ PlansRewritable(mig')
                  /\ OpNotDoomed(mig', applied') /\ NoneDoomed(applied')
    BY DEF DInv, StaysAsItWas, PlansRewritable, OpNotDoomed, NoneDoomed, AsItWas
  <1>3. CASE mig'.pc \in {"idle", "undo"} /\ applied' \in {applied, applied - 1}
    <2>1. PlansRewritable(mig') /\ OpNotDoomed(mig', applied')
      BY <1>3 DEF PlansRewritable, OpNotDoomed, Forward, PassTwo
    <2>2. NoneDoomed(applied')
      BY <1>0, <1>3 DEF NoneDoomed
    <2>3. QED
      BY <1>1, <1>2, <2>1, <2>2
  <1>4. CASE Commit \/ Begin
    <2>1. CASE mig' = Started("validate") /\ applied' = applied
      <3>1. mig'.pc = "validate" /\ mig'.plans = <<>>
        BY <2>1 DEF Started
      <3>2. QED
        BY <1>0, <1>1, <1>2, <2>1, <3>1 DEF PlansRewritable, OpNotDoomed, PassTwo
    <2>2. CASE Finish(applied + 1) /\ ~Doomed(applied + 1)
      <3>1. mig'.pc = "idle" /\ applied' = applied + 1
        BY <2>2 DEF Finish, NoMigration
      <3>2. NoneDoomed(applied')
        BY <1>0, <2>2, <3>1 DEF NoneDoomed
      <3>3. PlansRewritable(mig') /\ OpNotDoomed(mig', applied')
        BY <3>1 DEF PlansRewritable, OpNotDoomed, Forward, PassTwo
      <3>4. QED
        BY <1>1, <1>2, <3>2, <3>3
    <2>3. Commit => Finish(applied + 1) /\ ~Doomed(applied + 1)
      BY <1>0, CommitFacts DEF OpNotDoomed, PassTwo
    <2>4. Begin => \/ mig' = Started("validate") /\ applied' = applied
                   \/ Finish(applied + 1) /\ ~Doomed(applied + 1)
      BY DEF Begin, Doomed
    <2>5. QED
      BY <1>4, <2>1, <2>2, <2>3, <2>4
  <1>5. CASE Validate /\ ~Abort
    <2>1. mig'.pc = "validate" /\ mig.pc = "validate" /\ applied' = applied
      BY <1>5, PlansAfterValidate
    <2>2. \A j \in DOMAIN mig.plans : ~Unrewritable(mig.plans[j].table)
      BY <1>0, <2>1 DEF PlansRewritable, Forward
    <2>3. \A j \in DOMAIN mig'.plans : ~Unrewritable(mig'.plans[j].table)
      <3>1. CASE Skips
        BY <1>5, <2>2, <3>1, PlansAfterValidate
      <3>2. CASE ~Skips
        <4>1. /\ DOMAIN mig'.plans = DOMAIN mig.plans \cup {Len(mig.plans) + 1}
              /\ \A j \in DOMAIN mig.plans : mig'.plans[j] = mig.plans[j]
              /\ mig'.plans[Len(mig.plans) + 1].table = Target
          BY <1>5, <3>2, PlansAfterValidate
        <4>2. ~Unrewritable(Target)
          BY <1>5, <3>2, UnrewritableIsRefused
        <4>3. QED
          BY <2>2, <4>1, <4>2
      <3>3. QED
        BY <3>1, <3>2
    <2>4. QED
      BY <1>0, <1>1, <1>2, <2>1, <2>3 DEF PlansRewritable, OpNotDoomed, PassTwo
  <1>6. CASE StartPassTwo
    <2>1. /\ mig.pc = "validate" /\ mig'.pc = "column" /\ mig'.plans = mig.plans
          /\ db' = db /\ work' = work /\ applied' = applied
      BY <1>6, StartFacts
    <2>2. PlansRewritable(mig')
      BY <1>0, <2>1 DEF PlansRewritable, Forward
    <2>3. \A t \in Admitted(applied + 1) : Covered(work', db', mig', t)
      BY <1>6, <2>1, CoveredStart DEF AInv, PassTwo
    <2>4. Admitted(applied + 1) \subseteq Tables
      <3>1. applied + 1 \in 1..Len(Ops)
        BY <2>1, AdoptAssumption DEF IInv, CursorOK, Forward
      <3>2. QED
        BY <3>1, AdmittedTables
    <2>5. \A t \in Admitted(applied + 1) : ~Unrewritable(t)
      BY <1>1, <2>1, <2>2, <2>3, <2>4 DEF Covered, StaysAsItWas, AsItWas, Latest, PlansRewritable, Forward, PassTwo
    <2>6. QED
      BY <1>0, <1>1, <1>2, <2>1, <2>2, <2>5 DEF OpNotDoomed, Doomed
  <1>7. CASE /\ mig.pc \in PassTwo /\ mig'.pc \in PassTwo /\ mig'.plans = mig.plans /\ applied' = applied
    BY <1>0, <1>1, <1>2, <1>7 DEF PlansRewritable, OpNotDoomed, Forward
  <1>8. CASE mig' = mig /\ applied' = applied
    BY <1>0, <1>1, <1>2, <1>8
  <1>9. QED
    BY <1>3, <1>4, <1>5, <1>6, <1>7, <1>8, CursorKinds

\* Each operation is one transaction, or is refused before it alters anything.
Transactional == \A i \in DOMAIN Ops : Ops[i].atomic \/ Doomed(i)

LEMMA InTransaction ==
  ASSUME Transactional, IInv, DInv, mig.pc \in PassTwo \cup {"undo"}
  PROVE  Op.atomic
  <1>1. mig.pc # "idle" /\ applied \in Nat
    BY AdoptAssumption DEF IInv, CursorOK, PassTwo
  <1>2. CASE mig.pc = "undo"
    <2>1. Op = Ops[applied] /\ applied \in DOMAIN Ops /\ applied \in 1..applied
      BY <1>1, <1>2, OpFacts DEF IInv, CursorOK
    <2>2. QED
      BY <2>1 DEF Transactional, DInv
  <1>3. CASE mig.pc \in PassTwo
    <2>1. Op = Ops[applied + 1] /\ applied + 1 \in DOMAIN Ops
      BY <1>1, <1>3, OpFacts DEF PassTwo
    <2>2. QED
      BY <1>3, <2>1 DEF Transactional, DInv
  <1>4. QED
    BY <1>2, <1>3

Whole(x) == Adopted(x) \/ Unadopted(x)

LEMMA WholeTables ==
  /\ WholeOrNothing <=> \A t \in Tables : Whole(db[t])
  /\ \A t : WhollyAdopted(t) <=> Adopted(db[t])
  BY DEF WholeOrNothing, WhollyAdopted, WhollyUnadopted, Whole, Adopted, Unadopted, PerTenant, HasOwners

LEMMA WholeInit ==
  ASSUME Init
  PROVE  WInv
  <1>1. ASSUME NEW t \in Tables
        PROVE  Whole(db[t])
    <2>1. /\ db[t].column # "ours" /\ db[t].unique = Global(Original[t])
          /\ ~db[t].rls /\ ~db[t].policies
      BY InitTables
    <2>2. \A c \in db[t].unique : ~c.lead
      BY <2>1, GlobalFacts
    <2>3. QED
      BY <2>1, <2>2 DEF Whole, Unadopted
  <1>2. DOMAIN work = {} /\ mig.pc = "idle"
    BY DEF Init, NoMigration
  <1>3. Backed /\ WorkInStage
    BY <1>2 DEF Backed, WorkInStage, UnderWayAt, Forward, PassTwo
  <1>4. QED
    BY <1>1, <1>3, WholeTables DEF WInv

LEMMA BackedStep ==
  ASSUME IInv, Backed, [Next]_vars
  PROVE  Backed'
  <1>1. CASE mig'.pc \notin Forward
    BY <1>1 DEF Backed
  <1>2. CASE mig.pc \in Forward /\ mig'.plans = mig.plans /\ applied' = applied
    BY <1>2 DEF Backed, Backfill
  <1>3. CASE Validate /\ ~Abort
    <2>1. mig.pc = "validate" /\ applied' = applied
      BY <1>3, PlansAfterValidate
    <2>2. \A j \in DOMAIN mig.plans : mig.plans[j].count # 0 => Backfill # None
      BY <2>1 DEF Backed, Forward
    <2>3. CASE Skips
      BY <1>2, <1>3, <2>1, <2>3, PlansAfterValidate DEF Forward
    <2>4. CASE ~Skips
      <3>1. /\ DOMAIN mig'.plans = DOMAIN mig.plans \cup {Len(mig.plans) + 1}
            /\ \A j \in DOMAIN mig.plans : mig'.plans[j] = mig.plans[j]
            /\ mig'.plans[Len(mig.plans) + 1].count = RowCount(db[Target])
            /\ ~Refusal(db[Target]) /\ db[Target].column = "none" /\ Target \in Tables
        BY <1>3, <2>4, PlansAfterValidate
      <3>2. RowCount(db[Target]) \in Nat
        BY <3>1, RowCountFacts DEF IInv, VersionsOK
      <3>3. RowCount(db[Target]) # 0 => Backfill # None
        BY <3>1, <3>2 DEF Refusal
      <3>4. \A j \in DOMAIN mig'.plans : mig'.plans[j].count # 0 => Backfill # None
        BY <2>2, <3>1, <3>3
      <3>5. QED
        BY <2>1, <3>4 DEF Backed, Backfill
    <2>5. QED
      BY <2>3, <2>4
  <1>4. CASE mig' = Started("validate")
    BY <1>4 DEF Backed, Started
  <1>5. CASE Begin \/ Commit
    <2>1. mig' = Started("validate") \/ mig'.pc = "idle"
      BY <1>5 DEF Begin, Commit, Finish, NoMigration
    <2>2. QED
      BY <1>1, <1>4, <2>1 DEF Forward, PassTwo
  <1>6. CASE StartPassTwo
    BY <1>2, <1>6, StartFacts DEF Forward
  <1>7. CASE mig' = mig /\ applied' = applied
    BY <1>7 DEF Backed, Backfill
  <1>8. QED
    BY <1>1, <1>2, <1>3, <1>5, <1>6, <1>7, CursorKinds DEF Forward, PassTwo

\* A commit or a rollback leaves committed versions only.
LEMMA WholeAtRest ==
  ASSUME Backed', mig'.pc \in {"idle", "validate"}, DOMAIN work' = {}, \A t \in Tables : Whole(db'[t])
  PROVE  WInv'
  <1>1. \A t \in Tables : ~UnderWayAt(t)'
    BY DEF UnderWayAt
  <1>2. WorkInStage'
    BY <1>1 DEF WorkInStage, PassTwo
  <1>3. WholeOrNothing'
    BY DEF Whole, WholeOrNothing, WhollyAdopted, WhollyUnadopted, Adopted, Unadopted, PerTenant, HasOwners
  <1>4. QED
    BY <1>2, <1>3 DEF WInv

LEMMA WholeFinish ==
  ASSUME IInv, WInv, Backed', NEW n, Finish(n),
         mig.pc = "idle" \/ (mig.pc = "column" /\ mig.at > Len(mig.plans)) \/ mig.pc = "undo"
  PROVE  WInv'
  <1>1. /\ \A u \in Tables : db'[u] = db[u] \/ (u \in DOMAIN work /\ db'[u] = work[u])
        /\ DOMAIN work' = {} /\ mig' = NoMigration
    BY FinishFrame
  <1>2. mig'.pc = "idle"
    BY <1>1 DEF NoMigration
  <1>3. \A u \in DOMAIN work : Whole(work[u])
    <2>1. CASE mig.pc = "idle"
      BY <2>1 DEF IInv, CursorOK
    <2>2. CASE mig.pc = "column"
      BY <2>2 DEF WInv, WorkInStage, UnderWayAt, PassTwo, Whole
    <2>3. CASE mig.pc = "undo"
      BY <2>3 DEF WInv, WorkInStage, PassTwo, Whole
    <2>4. QED
      BY <2>1, <2>2, <2>3
  <1>4. \A u \in Tables : Whole(db[u])
    BY WholeTables DEF WInv
  <1>5. \A u \in Tables : Whole(db'[u])
    BY <1>1, <1>3, <1>4
  <1>6. QED
    BY <1>1, <1>2, <1>5, WholeAtRest

\* A statement of pass two, in a transaction, makes the version the stage asks for.
LEMMA WholeVersion ==
  ASSUME IInv, WInv, Backed', Op.atomic, NEW x, NEW pc, NEW nextPc, NEW nextAt,
         MakesVersion(x, pc, nextPc, nextAt), pc \in PassTwo,
         \/ nextPc = "unique" /\ nextAt = mig.at /\ HasOwners(x)
         \/ nextPc = "rls" /\ nextAt = mig.at /\ PerTenant(x)
         \/ nextPc = "column" /\ Adopted(x)
  PROVE  WInv'
  <1>1. /\ mig.pc = pc /\ mig.pc \in PassTwo /\ mig.pc # "idle"
        /\ mig'.pc = nextPc /\ mig'.at = nextAt /\ mig'.plans = mig.plans
        /\ Plan.table \in Tables /\ x \in Table /\ Alter(Plan.table, x)
    BY DEF MakesVersion, PassTwo
  <1> DEFINE p == mig.plans[mig.at].table
  <1>2. p = Plan.table
    BY DEF Plan
  <1>3. /\ db' = db
        /\ DOMAIN work' \subseteq DOMAIN work \cup {p}
        /\ \A u \in DOMAIN work' : (u \in DOMAIN work /\ work'[u] = work[u]) \/ (u = p /\ work'[u] = x)
        /\ p \in DOMAIN work' /\ work'[p] = x
    BY <1>1, <1>2, AlterFrame
  <1>4. \A t \in DOMAIN work : t = p \/ Adopted(work[t])
    BY <1>1 DEF WInv, WorkInStage, UnderWayAt
  <1>5. \A t \in DOMAIN work' : t = p \/ Adopted(work'[t])
    BY <1>3, <1>4
  <1>6. CASE nextPc \in {"unique", "rls"}
    <2>1. \A t : UnderWayAt(t)' <=> t = p
      BY <1>1, <1>6 DEF UnderWayAt
    <2>2. WorkInStage' <=> /\ \A t \in DOMAIN work' : t = p \/ Adopted(work'[t])
                           /\ \A t \in Tables : t = p =>
                                 /\ t \in DOMAIN work'
                                 /\ IF nextPc = "unique" THEN HasOwners(work'[t]) ELSE PerTenant(work'[t])
      BY <1>1, <1>6, <2>1 DEF WorkInStage, PassTwo, Adopted, PerTenant, HasOwners
    <2>3. IF nextPc = "unique" THEN HasOwners(x) ELSE PerTenant(x)
      BY <1>6
    <2>4. QED
      BY <1>3, <1>5, <2>2, <2>3 DEF WInv, WholeOrNothing, WhollyAdopted, WhollyUnadopted
  <1>7. CASE nextPc = "column"
    <2>1. \A t \in DOMAIN work' : Adopted(work'[t])
      BY <1>3, <1>5, <1>7
    <2>2. WorkInStage'
      BY <1>1, <1>7, <2>1 DEF WorkInStage, UnderWayAt, PassTwo, Adopted, PerTenant, HasOwners
    <2>3. QED
      BY <1>3, <2>2 DEF WInv, WholeOrNothing, WhollyAdopted, WhollyUnadopted
  <1>8. QED
    BY <1>6, <1>7

LEMMA WholeWithColumn ==
  ASSUME IInv, WInv, Backed', Op.atomic, AddColumn, ~Abort
  PROVE  WInv'
  <1>1. /\ MakesVersion(WithColumn, "column", "unique", mig.at) /\ Owner \in Tenants \cup {None}
        /\ Plan.count = 0 => View(Plan.table).rows = {} \/ Session # None
    BY AddColumnFacts
  <1>2. Plan.table \in Tables /\ mig.pc = "column" /\ mig.at \in DOMAIN mig.plans
    BY <1>1 DEF MakesVersion
  <1>3. View(Plan.table) \in Table /\ TRUE \in BOOLEAN
    BY <1>2, ViewInTable
  <1>4. View(Plan.table).rows \in SUBSET Row
    BY <1>3, TableFacts
  <1>5. WithColumn.column = "ours" /\ WithColumn.rows = ReownedRows(View(Plan.table).rows, Owner, TRUE)
    BY <1>1, <1>3, StampedFacts DEF WithColumn
  <1>a. \A s \in ReownedRows(View(Plan.table).rows, Owner, TRUE) : s.tenant = Owner
    BY <1>1, <1>3, <1>4, ReownedRowsFacts
  <1>6. View(Plan.table).rows = {} => ReownedRows(View(Plan.table).rows, Owner, TRUE) = {}
    BY DEF ReownedRows
  <1>7. Plan.count # 0 => Backfill # None
    BY <1>2 DEF WInv, Backed, Plan, Forward, PassTwo
  <1>8. View(Plan.table).rows = {} \/ Owner # None
    BY <1>1, <1>7 DEF Owner
  <1>9. HasOwners(WithColumn)
    BY <1>5, <1>a, <1>6, <1>8 DEF HasOwners
  <1>10. QED
    BY <1>1, <1>9, WholeVersion DEF PassTwo

\* The version under way, as the stage has it.
LEMMA VersionUnderWay ==
  ASSUME IInv, WInv, mig.pc \in {"unique", "rls"}, Plan.table \in Tables
  PROVE  IF mig.pc = "unique" THEN HasOwners(View(Plan.table)) ELSE PerTenant(View(Plan.table))
  <1>1. UnderWayAt(Plan.table)
    BY DEF UnderWayAt, Plan
  <1>2. /\ Plan.table \in DOMAIN work
        /\ IF mig.pc = "unique" THEN HasOwners(work[Plan.table]) ELSE PerTenant(work[Plan.table])
    BY <1>1 DEF WInv, WorkInStage
  <1>3. QED
    BY <1>2 DEF View

LEMMA WholeWithComposites ==
  ASSUME IInv, WInv, Backed', Op.atomic, RewriteUniques
  PROVE  WInv'
  <1>1. MakesVersion(WithComposites, "unique", "rls", mig.at)
    BY RewriteFacts
  <1>2. Plan.table \in Tables /\ mig.pc = "unique"
    BY <1>1 DEF MakesVersion
  <1>3. View(Plan.table) \in Table /\ HasOwners(View(Plan.table))
    BY <1>2, ViewInTable, VersionUnderWay
  <1>4. /\ WithComposites.unique = {Rewritten(c) : c \in View(Plan.table).unique}
        /\ WithComposites.rows = View(Plan.table).rows
        /\ WithComposites.column = View(Plan.table).column
    BY <1>3, CompositeFacts DEF WithComposites
  <1>5. \A c \in WithComposites.unique : c.lead
    BY <1>4 DEF Rewritten
  <1>6. PerTenant(WithComposites)
    BY <1>3, <1>4, <1>5 DEF PerTenant, HasOwners
  <1>7. QED
    BY <1>1, <1>6, WholeVersion DEF PassTwo

LEMMA WholeWithPolicies ==
  ASSUME IInv, WInv, Backed', Op.atomic, EnableRls
  PROVE  WInv'
  <1>1. MakesVersion(WithPolicies, "rls", "column", mig.at + 1)
    BY EnableFacts
  <1>2. Plan.table \in Tables /\ mig.pc = "rls"
    BY <1>1 DEF MakesVersion
  <1>3. View(Plan.table) \in Table /\ PerTenant(View(Plan.table))
    BY <1>2, ViewInTable, VersionUnderWay
  <1>4. /\ WithPolicies.unique = View(Plan.table).unique /\ WithPolicies.rows = View(Plan.table).rows
        /\ WithPolicies.column = View(Plan.table).column
        /\ WithPolicies.rls = TRUE /\ WithPolicies.policies = TRUE
    BY <1>3, SecuredFacts DEF WithPolicies
  <1>5. Adopted(WithPolicies)
    BY <1>3, <1>4 DEF Adopted, PerTenant, HasOwners
  <1>6. QED
    BY <1>1, <1>5, WholeVersion DEF PassTwo

LEMMA WholeStripped ==
  ASSUME IInv, WInv, Backed', Op.atomic, Unadopt, ~Abort
  PROVE  WInv'
  <1>1. /\ mig.pc = "undo" /\ mig.pc # "idle" /\ Target \in Tables /\ mig'.pc = "undo"
        /\ \/ db' = db /\ work' = work
           \/ Stripped(Target) \in Table /\ Alter(Target, Stripped(Target))
    BY UnadoptFacts
  <1>2. \A t \in DOMAIN work : Unadopted(work[t])
    BY <1>1 DEF WInv, WorkInStage
  <1>3. Unadopted(Stripped(Target))
    <2>1. /\ Stripped(Target).column = "none" /\ Stripped(Target).unique = Restored(Target)
          /\ Stripped(Target).rls = FALSE /\ Stripped(Target).policies = FALSE
      BY <1>1, StrippedFacts
    <2>2. \A c \in Restored(Target) : ~c.lead
      BY <1>1, RestoredFacts
    <2>3. QED
      BY <2>1, <2>2 DEF Unadopted
  <1>4. db' = db /\ \A t \in DOMAIN work' : Unadopted(work'[t])
    <2>1. CASE db' = db /\ work' = work
      BY <1>2, <2>1
    <2>2. CASE ~(db' = db /\ work' = work)
      <3>1. /\ db' = db
            /\ \A u \in DOMAIN work' : \/ u \in DOMAIN work /\ work'[u] = work[u]
                                       \/ work'[u] = Stripped(Target)
        BY <1>1, <2>2, AlterFrame
      <3>2. QED
        BY <1>2, <1>3, <3>1
    <2>3. QED
      BY <2>1, <2>2
  <1>5. WorkInStage'
    BY <1>1, <1>4 DEF WorkInStage, UnderWayAt, PassTwo, Unadopted
  <1>6. QED
    BY <1>4, <1>5 DEF WInv, WholeOrNothing, WhollyAdopted, WhollyUnadopted

LEMMA WholeWrite ==
  ASSUME IInv, WInv, Backed', AppStep
  PROVE  WInv'
  <1>1. PICK t \in Tables, rows \in SUBSET Row :
           /\ AppWrites(t, rows)
           /\ rows \subseteq db[t].rows \/ \E row \in Row : MayEnter(row, db[t], rows)
    BY DEF AppStep
  <1>2. /\ db'[t] = WithRows(db[t], rows)
        /\ \A u \in Tables : u # t => db'[u] = db[u]
    BY <1>1, WriteFrame DEF AppWrites
  <1>3. /\ db'[t].rows = rows /\ db'[t].unique = db[t].unique /\ db'[t].column = db[t].column
        /\ db'[t].rls = db[t].rls /\ db'[t].policies = db[t].policies
    BY <1>2, WithRowsFacts DEF IInv, VersionsOK
  <1>4. \A u \in Tables : Whole(db[u])
    BY WholeTables DEF WInv
  <1>5. Adopted(db[t]) => \A r \in rows : r.tenant # None
    BY <1>1 DEF MayEnter, Adopted, PerTenant, HasOwners
  <1>6. Whole(db'[t])
    <2>1. CASE Adopted(db[t])
      BY <1>3, <1>5, <2>1 DEF Whole, Adopted, PerTenant, HasOwners
    <2>2. CASE Unadopted(db[t])
      BY <1>3, <2>2 DEF Whole, Unadopted
    <2>3. QED
      BY <1>4, <2>1, <2>2 DEF Whole
  <1>7. \A u \in Tables : Whole(db'[u])
    BY <1>2, <1>4, <1>6
  <1>8. WholeOrNothing'
    BY <1>7 DEF Whole, WholeOrNothing, WhollyAdopted, WhollyUnadopted, Adopted, Unadopted, PerTenant, HasOwners
  <1>9. WorkInStage'
    BY <1>1 DEF AppWrites, WInv, WorkInStage, UnderWayAt
  <1>10. QED
    BY <1>8, <1>9 DEF WInv

LEMMA WholeStep ==
  ASSUME Transactional, IInv, DInv, WInv, [Next]_vars
  PROVE  WInv'
  <1>1. Backed'
    BY BackedStep DEF WInv
  <1>2. \A u \in Tables : Whole(db[u])
    BY WholeTables DEF WInv
  <1>3. CASE Begin
    <2>1. CASE Finish(applied + 1)
      BY <1>1, <1>3, <2>1, WholeFinish DEF Begin
    <2>2. CASE mig' = Started("validate") /\ db' = db /\ work' = work
      BY <1>1, <1>2, <1>3, <2>2, WholeAtRest DEF Begin, Started, IInv, CursorOK
    <2>3. QED
      BY <1>3, <2>1, <2>2 DEF Begin
  <1>4. CASE Validate /\ ~Abort
    BY <1>1, <1>2, <1>4, PlansAfterValidate, WholeAtRest
  <1>5. CASE StartPassTwo
    <2>1. mig.pc = "validate" /\ mig'.pc = "column" /\ db' = db /\ work' = work
      BY <1>5, StartFacts
    <2>2. DOMAIN work = {}
      BY <2>1 DEF IInv, CursorOK
    <2>3. WorkInStage'
      BY <2>1, <2>2 DEF WorkInStage, UnderWayAt, PassTwo
    <2>4. QED
      BY <1>1, <2>1, <2>3 DEF WInv, WholeOrNothing, WhollyAdopted, WhollyUnadopted
  <1>6. CASE Abort
    BY <1>1, <1>2, <1>6, AbortFrame, WholeAtRest DEF NoMigration
  <1>7. CASE AddColumn /\ ~Abort
    <2>1. mig.pc = "column"
      BY <1>7 DEF AddColumn, Planning
    <2>2. QED
      BY <1>1, <1>7, <2>1, InTransaction, WholeWithColumn DEF PassTwo
  <1>8. CASE RewriteUniques
    <2>1. mig.pc = "unique"
      BY <1>8 DEF RewriteUniques, Planning
    <2>2. QED
      BY <1>1, <1>8, <2>1, InTransaction, WholeWithComposites DEF PassTwo
  <1>9. CASE EnableRls
    <2>1. mig.pc = "rls"
      BY <1>9 DEF EnableRls, Planning
    <2>2. QED
      BY <1>1, <1>9, <2>1, InTransaction, WholeWithPolicies DEF PassTwo
  <1>10. CASE Commit
    BY <1>1, <1>10, CommitFacts, WholeFinish
  <1>11. CASE BeginReverse
    <2>1. CASE Finish(applied - 1)
      BY <1>1, <1>11, <2>1, WholeFinish DEF BeginReverse
    <2>2. CASE mig' = Started("undo") /\ db' = db /\ work' = work
      <3>1. mig'.pc = "undo" /\ DOMAIN work = {}
        BY <1>11, <2>2 DEF BeginReverse, Started, IInv, CursorOK
      <3>2. WorkInStage'
        BY <2>2, <3>1 DEF WorkInStage, UnderWayAt, PassTwo
      <3>3. QED
        BY <1>1, <2>2, <3>2 DEF WInv, WholeOrNothing, WhollyAdopted, WhollyUnadopted
    <2>3. QED
      BY <1>11, <2>1, <2>2 DEF BeginReverse
  <1>12. CASE Unadopt /\ ~Abort
    <2>1. mig.pc = "undo"
      BY <1>12 DEF Unadopt, MoreTables
    <2>2. QED
      BY <1>1, <1>12, <2>1, InTransaction, WholeStripped
  <1>13. CASE CommitReverse
    BY <1>1, <1>13, CommitReverseFacts, WholeFinish
  <1>14. CASE AppStep
    BY <1>1, <1>14, WholeWrite
  <1>15. CASE UNCHANGED vars
    BY <1>1, <1>15 DEF vars, WInv, WholeOrNothing, WhollyAdopted, WhollyUnadopted, WorkInStage, UnderWayAt
  <1>16. QED
    BY <1>3, <1>4, <1>5, <1>6, <1>7, <1>8, <1>9, <1>10, <1>11, <1>12, <1>13, <1>14, <1>15,
       InsertWrites, RemoveWrites DEF Next, Crash

\* The invariants that wholeness rests on, together.
LEMMA TogetherInit ==
  ASSUME Init
  PROVE  Planned /\ AInv /\ DInv /\ WInv
  BY PlannedInit, CoveredInit, DoomedInit, WholeInit

LEMMA TogetherStep ==
  ASSUME Transactional, IInv, Planned, AInv, DInv, WInv, [Next]_vars
  PROVE  Planned' /\ AInv' /\ DInv' /\ WInv'
  BY PlannedStep, CoveredStep, DoomedStep, WholeStep

\* Whatever is refused, fails or is killed, and whoever writes meanwhile, a table
\* the application can see is adopted wholly or not at all (BR-RLS-013), when each
\* operation runs in a transaction or has a table that is refused
\* (database_forwards(), database_backwards()).
THEOREM WholeHolds ==
  ASSUME Transactional
  PROVE  Spec => []WholeOrNothing
  <1>1. IInv /\ Planned /\ AInv /\ DInv /\ WInv /\ [Next]_vars => Planned' /\ AInv' /\ DInv' /\ WInv'
    BY TogetherStep
  <1>2. WInv => WholeOrNothing
    BY DEF WInv
  <1>3. QED
    BY <1>1, <1>2, TogetherInit, Invariance, PTL DEF Spec

LEMMA AppliedStep ==
  ASSUME IInv, AInv, WInv, WInv', [Next]_vars, applied' = applied + 1
  PROVE  \A t \in Admitted(applied + 1) : WhollyAdopted(t)'
  <1>1. applied \in Nat /\ applied # applied + 1 /\ applied - 1 # applied + 1
    BY AdoptAssumption DEF IInv, CursorOK
  <1>2. CASE Commit
    <2>1. mig.pc = "column" /\ mig.at > Len(mig.plans) /\ Finish(applied + 1)
      BY <1>2, CommitFacts
    <2>2. applied + 1 \in 1..Len(Ops)
      BY <2>1, AdoptAssumption DEF IInv, CursorOK, Forward, PassTwo
    <2>3. Admitted(applied + 1) \subseteq Tables
      BY <2>2, AdmittedTables
    <2>4. ASSUME NEW t \in Admitted(applied + 1)
          PROVE  Latest(work, db, t).column = "ours"
      <3>1. mig.plans \in Seq(PlanRecord) /\ mig.at \in Nat
        BY DEF IInv, CursorOK, Cursor
      <3>2. \A j \in DOMAIN mig.plans : ~(j >= mig.at) /\ mig.pc # "validate"
        BY <2>1, <3>1
      <3>3. Covered(work, db, mig, t)
        BY <2>1 DEF AInv, PassTwo
      <3>4. QED
        BY <3>2, <3>3 DEF Covered
    <2>5. \A t \in Tables : db'[t] = Latest(work, db, t)
      BY <2>1, FinishFrame, LatestIsView
    <2>6. \A t \in Admitted(applied + 1) : db'[t].column = "ours"
      BY <2>3, <2>4, <2>5
    <2>7. \A t \in Tables : WhollyAdopted(t)' \/ WhollyUnadopted(t)'
      BY DEF WInv, WholeOrNothing
    <2>8. \A t \in Tables : WhollyUnadopted(t)' => db'[t].column # "ours"
      BY DEF WhollyUnadopted
    <2>9. QED
      BY <2>3, <2>6, <2>7, <2>8
  <1>3. CASE Begin
    <2>1. Admitted(applied + 1) = {}
      BY <1>1, <1>3 DEF Begin
    <2>2. QED
      BY <2>1
  <1>4. QED
    BY <1>1, <1>2, <1>3, CursorKinds, PlansAfterValidate, StartFacts

\* A migration recorded as applied has adopted every table of its set the router
\* admits, the ones it skipped included (database_forwards()).
THEOREM AppliedHolds ==
  ASSUME Transactional
  PROVE  Spec => AppliedMeansAdopted
  <1>1. IInv /\ Planned /\ AInv /\ DInv /\ WInv /\ [Next]_vars => Planned' /\ AInv' /\ DInv' /\ WInv'
    BY TogetherStep
  <1>2. IInv /\ AInv /\ WInv /\ WInv' /\ [Next]_vars =>
          [applied' = applied + 1 => \A t \in Admitted(applied + 1) : WhollyAdopted(t)']_vars
    BY AppliedStep
  <1>3. QED
    BY <1>1, <1>2, TogetherInit, Invariance, PTL DEF Spec, AppliedMeansAdopted
=============================================================================
