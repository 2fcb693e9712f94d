---------------------------- MODULE AdoptTenantApp ----------------------------
(***************************************************************************)
(* The AdoptTenantApp migration operation (boundary/migrations_ops.py) on  *)
(* one database, next to an application that reads and writes the tables   *)
(* being adopted.                                                          *)
(*                                                                         *)
(* A chain of migrations, each one AdoptTenantApp, is applied and reversed *)
(* by "migrate". Pass one reads the tables without a lock that would stop  *)
(* writers. The first ALTER TABLE of pass two locks its table until the    *)
(* migration's transaction ends and nobody else sees the change before the *)
(* commit: what is uncommitted is in "work", what is committed in "db".    *)
(***************************************************************************)
EXTENDS Naturals, Sequences, FiniteSets

CONSTANTS
    Tenants, None,   \* tenants; Python's None and SQL's NULL
    Tables,          \* tables of the app being adopted
    Cols, Vals,      \* unique columns and their values
    Original,        \* per table, its unique constraints as the app made them
    Declared,        \* per table, the columns its historical _meta calls unique
    ForeignColumn,   \* tables that may have a tenant_id column of another type
    Ops,             \* the migrations in order: derived tables, backfill, and
                     \* Migration.atomic, one transaction for the operation
    Allowed,         \* tables the router admits on this alias
    Postgres,        \* the vendor of this alias is "postgresql"
    Session,         \* tenant of the migrating session (boundary_run), or None
    Writers,         \* the application's contexts: tenants, or None
    RowIds,          \* bound: rows the application ever writes, in this order
    Concurrent,      \* the application writes while a migration runs
    MaxReversals,    \* bound: migrations reversed
    MaxCrashes       \* bound: migrations killed

\* Constraints the rewrite understands, and the forms it refuses; the
\* catalogue query does not tell NULLS NOT DISTINCT from "plain".
Rewritable == {"plain", "nulls not distinct"}
Refused == {"deferrable", "fk target", "index"}

ASSUME AdoptAssumption ==
    /\ None \notin Tenants
    /\ Original \in [Tables -> SUBSET [on : Cols, form : Rewritable \cup Refused]]
    /\ Declared \in [Tables -> SUBSET Cols]
    /\ Ops \in Seq([tables : Seq(Tables), backfill : Tenants \cup {None}, atomic : BOOLEAN])
    /\ \A i \in DOMAIN Ops : \A j, k \in DOMAIN Ops[i].tables :
          Ops[i].tables[j] = Ops[i].tables[k] => j = k
    /\ {Session} \cup Writers \subseteq Tenants \cup {None}
    /\ RowIds \subseteq Nat

VARIABLES
    db,         \* the committed tables
    work,       \* the tables altered by the open transaction
    mig,        \* the operation being run
    applied,    \* how many of Ops are recorded as applied
    born,       \* row ids used
    reversals, crashes

vars == <<db, work, mig, applied, born, reversals, crashes>>

-----------------------------------------------------------------------------
\* A row; "writer" and "before" are history: the context it was written in,
\* and whether it is older than the tenant_id column it now has.
Row == [id : RowIds, vals : [Cols -> Vals], tenant : Tenants \cup {None},
        writer : Tenants \cup {None}, before : BOOLEAN]
Unique == [on : Cols, form : Rewritable \cup Refused, lead : BOOLEAN]
Table == [column : {"none", "ours", "foreign"}, unique : SUBSET Unique,
          rls : BOOLEAN, policies : BOOLEAN, rows : SUBSET Row]

Global(cs) == {[on |-> c.on, form |-> c.form, lead |-> FALSE] : c \in cs}

NoMigration == [pc |-> "idle", at |-> 0, plans |-> <<>>]
Started(pc) == [pc |-> pc, at |-> 1, plans |-> <<>>]

\* The operation applied or reversed, and its table under way.
Op == Ops[IF mig.pc = "undo" THEN applied ELSE applied + 1]
Target == Op.tables[mig.at]
MoreTables(pc) == mig.pc = pc /\ mig.at <= Len(Op.tables)
NoMoreTables(pc) == mig.pc = pc /\ mig.at > Len(Op.tables)

View(t) == IF t \in DOMAIN work THEN work[t] ELSE db[t]
Put(f, t, x) == [u \in DOMAIN f \cup {t} |-> IF u = t THEN x ELSE f[u]]

\* Two rows a unique constraint does not let stand together.
Clash(rows, c) ==
    \E r, s \in rows : /\ r.id # s.id
                       /\ r.vals[c.on] = s.vals[c.on]
                       /\ c.lead => r.tenant = s.tenant

\* The rows a session with this tenant sees under FORCE ROW LEVEL SECURITY.
\* RLS without a policy shows nothing.
Seen(table, who) ==
    {r \in table.rows : table.rls => table.policies /\ who # None /\ r.tenant = who}

\* A DDL statement: to the transaction, or committed at once.
Alter(t, table) ==
    IF Op.atomic THEN work' = Put(work, t, table) /\ UNCHANGED db
                 ELSE db' = [db EXCEPT ![t] = table] /\ UNCHANGED work

\* The migration ends; its transaction commits or rolls back.
Finish(count) ==
    /\ mig' = NoMigration
    /\ db' = [t \in Tables |-> View(t)]
    /\ work' = <<>>
    /\ applied' = count

Abort ==
    /\ mig' = NoMigration
    /\ work' = <<>>
    /\ UNCHANGED <<db, applied>>

-----------------------------------------------------------------------------
(* Forwards *)

\* The tables the router admits; the two loops pass over the others.
Admitted(i) == {Ops[i].tables[j] : j \in DOMAIN Ops[i].tables} \cap Allowed

\* database_forwards up to pass one: an app with nothing adoptable is
\* refused before the router is asked, an alias the router keeps away is
\* done at once, and only then does the vendor matter.
Begin ==
    /\ mig.pc = "idle" /\ applied < Len(Ops)
    /\ Ops[applied + 1].tables # <<>>
    /\ IF Admitted(applied + 1) = {} THEN Finish(applied + 1)
       ELSE /\ Postgres
            /\ mig' = Started("validate")
            /\ UNCHANGED <<db, work, applied>>
    /\ UNCHANGED <<born, reversals, crashes>>

Backfill == Ops[applied + 1].backfill

\* row_count, as the migrating session sees the table.
RowCount(table) == Cardinality(Seen(table, Session))

\* A populated table without backfill, a column of another type and a
\* unique form that cannot be rewritten are refused.
Refusal(table) ==
    \/ table.column = "foreign"
    \/ table.column = "none" /\ RowCount(table) > 0 /\ Backfill = None
    \/ table.column = "none" /\ \E c \in table.unique : c.form \in Refused

\* Mutants of the pass below: each table is altered as soon as it is found
\* good; a plan is made twice.
ValidateAndAlter ==
    LET table == db[Target] IN
    /\ MoreTables("validate")
    /\ IF Target \in Allowed /\ Refusal(table) THEN Abort
       ELSE /\ mig' = [mig EXCEPT !.at = @ + 1]
            /\ Alter(Target, [table EXCEPT !.column = "ours", !.rows = {}])
            /\ UNCHANGED applied
    /\ UNCHANGED <<born, reversals, crashes>>
ValidateTwice ==
    LET plan == [table |-> Target, count |-> RowCount(db[Target])] IN
    /\ MoreTables("validate")
    /\ mig' = [mig EXCEPT !.at = @ + 1, !.plans = @ \o <<plan, plan>>]
    /\ UNCHANGED <<db, work, applied, born, reversals, crashes>>

\* _validate_table: read-only. A table that has its column is skipped.
Validate ==
    LET table == db[Target] IN
    /\ MoreTables("validate")
    /\ IF Target \in Allowed /\ Refusal(table) THEN Abort
       ELSE /\ mig' = [mig EXCEPT !.at = @ + 1,
                         !.plans = IF Target \notin Allowed \/ table.column = "ours" THEN @
                                   ELSE Append(@, [table |-> Target,
                                                   count |-> RowCount(table)])]
            /\ UNCHANGED <<db, work, applied>>
    /\ UNCHANGED <<born, reversals, crashes>>

StartPassTwo ==
    /\ NoMoreTables("validate")
    /\ mig' = [mig EXCEPT !.pc = "column", !.at = 1]
    /\ UNCHANGED <<db, work, applied, born, reversals, crashes>>

Plan == mig.plans[mig.at]
Planning(pc) == mig.pc = pc /\ mig.at <= Len(mig.plans)

\* The table after "ADD COLUMN" and the UPDATE or the default.
Stamped(table, who) ==
    [table EXCEPT !.column = "ours",
                  !.rows = {[r EXCEPT !.tenant = who, !.before = TRUE] : r \in @}]

\* _add_tenant_column. For a table the probe found empty, one statement,
\* whose NOT NULL DEFAULT is evaluated for rows that have come since: it
\* fails without a tenant. Else the rows the UPDATE sees are stamped, and
\* their number must be the probe's and all must be stamped.
AddColumn ==
    LET table == View(Plan.table)
        seen == Seen(table, Session)
        oneShot == Plan.count = 0
        ok == IF oneShot THEN table.rows = {} \/ Session # None
              ELSE Cardinality(seen) = Plan.count /\ seen = table.rows
    IN  /\ Planning("column")
        /\ IF ok
           THEN /\ Alter(Plan.table, Stamped(table, IF oneShot THEN Session ELSE Backfill))
                /\ mig' = [mig EXCEPT !.pc = "unique"]
                /\ UNCHANGED applied
           ELSE Abort
        /\ UNCHANGED <<born, reversals, crashes>>

\* _apply_unique_rewrites: each original is replaced by a constraint that
\* leads with tenant_id.
Rewritten(c) == [on |-> c.on, form |-> "plain", lead |-> TRUE]
Composite(table) == [table EXCEPT !.unique = {Rewritten(c) : c \in @}]

\* Mutant: the composite replacement is not added.
RewriteUniquesDropsOnly ==
    /\ Planning("unique")
    /\ Alter(Plan.table, [View(Plan.table) EXCEPT !.unique = {}])
    /\ mig' = [mig EXCEPT !.pc = "rls"]
    /\ UNCHANGED <<applied, born, reversals, crashes>>

RewriteUniques ==
    /\ Planning("unique")
    /\ Alter(Plan.table, Composite(View(Plan.table)))
    /\ mig' = [mig EXCEPT !.pc = "rls"]
    /\ UNCHANGED <<applied, born, reversals, crashes>>

\* Mutant: no policies.
EnableRlsOnly ==
    /\ Planning("rls")
    /\ Alter(Plan.table, [View(Plan.table) EXCEPT !.rls = TRUE])
    /\ mig' = [mig EXCEPT !.pc = "column", !.at = @ + 1]
    /\ UNCHANGED <<applied, born, reversals, crashes>>

\* ENABLE and FORCE, then both policies; on to the next plan.
Secured(table) == [table EXCEPT !.rls = TRUE, !.policies = TRUE]
EnableRls ==
    /\ Planning("rls")
    /\ Alter(Plan.table, Secured(View(Plan.table)))
    /\ mig' = [mig EXCEPT !.pc = "column", !.at = @ + 1]
    /\ UNCHANGED <<applied, born, reversals, crashes>>

Commit ==
    /\ mig.pc = "column" /\ mig.at > Len(mig.plans)
    /\ Finish(applied + 1)
    /\ UNCHANGED <<born, reversals, crashes>>

-----------------------------------------------------------------------------
(* Backwards *)

BeginReverse ==
    /\ mig.pc = "idle" /\ applied > 0 /\ reversals < MaxReversals
    /\ reversals' = reversals + 1
    /\ IF Admitted(applied) = {} THEN Finish(applied - 1)
       ELSE /\ Postgres
            /\ mig' = Started("undo")
            /\ UNCHANGED <<db, work, applied>>
    /\ UNCHANGED <<born, crashes>>

\* Mutant: the originals are not recreated.
RestoredNever(t) == {c \in View(t).unique : ~c.lead}

\* _restore_unique_constraints: of the composites those over columns that
\* the historical _meta calls unique become global again; the others go
\* with the column.
Restored(t) ==
    {[on |-> c.on, form |-> "plain", lead |-> FALSE] :
        c \in {d \in View(t).unique : d.lead /\ d.on \in Declared[t]}}
    \cup {c \in View(t).unique : ~c.lead}

\* The table after DROP COLUMN.
Stripped(t) ==
    [column |-> "none", unique |-> Restored(t), rls |-> FALSE, policies |-> FALSE,
     rows |-> {[r EXCEPT !.tenant = None, !.before = FALSE] : r \in View(t).rows}]

\* _unadopt_table, for any table that has a tenant_id column. ADD UNIQUE
\* fails on rows that were only unique per tenant.
Unadopt ==
    LET table == View(Target) IN
    /\ MoreTables("undo")
    /\ IF Target \notin Allowed \/ table.column = "none"
       THEN UNCHANGED <<db, work>> /\ mig' = [mig EXCEPT !.at = @ + 1]
       ELSE IF \E c \in Restored(Target) : Clash(table.rows, c)
       THEN mig' = NoMigration /\ work' = <<>> /\ UNCHANGED db
       ELSE /\ Alter(Target, Stripped(Target))
            /\ mig' = [mig EXCEPT !.at = @ + 1]
    /\ UNCHANGED <<applied, born, reversals, crashes>>

CommitReverse ==
    /\ NoMoreTables("undo")
    /\ Finish(applied - 1)
    /\ UNCHANGED <<born, reversals, crashes>>

\* The process dies, the connection drops, or PostgreSQL ends a deadlock.
Crash ==
    /\ mig.pc # "idle" /\ crashes < MaxCrashes
    /\ Abort
    /\ crashes' = crashes + 1
    /\ UNCHANGED <<born, reversals>>

-----------------------------------------------------------------------------
(* The application, which does not know of the column *)

MayTouch(t) == t \in Allowed \ DOMAIN work /\ (Concurrent \/ mig.pc = "idle")

\* Mutant: the column's DEFAULT is the backfill tenant.
InsertUnderBackfillDefault(t, id, vals, who) ==
    LET table == db[t]
        row == [id |-> id, vals |-> vals, writer |-> who, before |-> FALSE,
                tenant |-> IF table.column = "ours" /\ applied > 0
                           THEN Ops[applied].backfill ELSE None]
    IN  /\ MayTouch(t)
        /\ id \notin born /\ \A i \in RowIds \ born : id <= i
        /\ db' = [db EXCEPT ![t].rows = @ \cup {row}]
        /\ born' = born \cup {id}
        /\ UNCHANGED <<work, mig, applied, reversals, crashes>>

\* A row takes the column's DEFAULT, the tenant of the session, which NOT
\* NULL refuses to be missing.
NewRow(t, id, vals, who) ==
    [id |-> id, vals |-> vals, writer |-> who, before |-> FALSE,
     tenant |-> IF db[t].column = "ours" THEN who ELSE None]
Insert(t, id, vals, who) ==
    LET table == db[t]
        row == NewRow(t, id, vals, who)
    IN  /\ MayTouch(t)
        /\ id \notin born /\ \A i \in RowIds \ born : id <= i
        /\ table.column = "ours" => who # None
        /\ \A c \in table.unique : ~Clash(table.rows \cup {row}, c)
        /\ db' = [db EXCEPT ![t].rows = @ \cup {row}]
        /\ born' = born \cup {id}
        /\ UNCHANGED <<work, mig, applied, reversals, crashes>>

Remove(t, r, who) ==
    /\ MayTouch(t)
    /\ r \in Seen(db[t], who)
    /\ db' = [db EXCEPT ![t].rows = @ \ {r}]
    /\ UNCHANGED <<work, mig, applied, born, reversals, crashes>>

-----------------------------------------------------------------------------
Init ==
    /\ \E foreign \in SUBSET ForeignColumn :
         db = [t \in Tables |->
                 [column |-> IF t \in foreign THEN "foreign" ELSE "none",
                  unique |-> Global(Original[t]), rls |-> FALSE, policies |-> FALSE, rows |-> {}]]
    /\ work = <<>>
    /\ mig = NoMigration
    /\ applied = 0
    /\ born = {}
    /\ reversals = 0
    /\ crashes = 0

Next ==
    \/ Begin
    \/ Validate
    \/ StartPassTwo
    \/ AddColumn
    \/ RewriteUniques
    \/ EnableRls
    \/ Commit
    \/ BeginReverse
    \/ Unadopt
    \/ CommitReverse
    \/ Crash
    \/ \E t \in Tables, id \in RowIds, v \in [Cols -> Vals], who \in Writers : Insert(t, id, v, who)
    \/ \E t \in Tables, who \in Writers : \E r \in db[t].rows : Remove(t, r, who)

Spec == Init /\ [][Next]_vars

-----------------------------------------------------------------------------
(* Properties *)

\* The variables have their types, and the tables under way are the ones
\* the operation planned.
TypeOK ==
    /\ db \in [Tables -> Table]
    /\ DOMAIN work \subseteq Tables /\ \A t \in DOMAIN work : work[t] \in Table
    /\ mig.pc \in {"idle", "validate", "column", "unique", "rls", "undo"}
    /\ mig.plans \in Seq([table : Tables, count : Nat])
    /\ applied \in 0..Len(Ops)
    /\ mig.pc # "idle" => /\ mig.at \in 1..(Len(Op.tables) + 1)
                          /\ Len(mig.plans) <= Len(Op.tables)
    /\ born \subseteq RowIds

WhollyAdopted(t) ==
    /\ db[t].column = "ours" /\ db[t].rls /\ db[t].policies
    /\ \A c \in db[t].unique : c.lead
    /\ \A r \in db[t].rows : r.tenant # None

WhollyUnadopted(t) ==
    /\ db[t].column # "ours" /\ ~db[t].rls /\ ~db[t].policies
    /\ \A c \in db[t].unique : ~c.lead

\* BR-RLS-013: whatever is refused, fails or is killed, and whoever writes
\* meanwhile, a table the application can see is adopted wholly (column,
\* stamped rows, per-tenant uniqueness, RLS) or not at all. A refusal
\* "leaves the database untouched rather than rolled back": it does so without
\* a transaction too, as every table is validated before any is altered.
WholeOrNothing == \A t \in Tables : WhollyAdopted(t) \/ WhollyUnadopted(t)

\* A migration recorded as applied has adopted every table of its set the
\* router admits, the ones it skipped as already adopted included.
AppliedMeansAdopted ==
    [][applied' = applied + 1 =>
          \A t \in Admitted(applied + 1) : WhollyAdopted(t)']_vars

\* No row changes hands: a row written after adoption belongs to the tenant
\* that wrote it, and an older one to a backfill_tenant some migration
\* declares (BR-RLS-014).
StampedAsDeclared ==
    \A t \in Tables : \A r \in db[t].rows : r.tenant # None =>
        IF r.before THEN r.tenant \in {Ops[i].backfill : i \in DOMAIN Ops} ELSE r.tenant = r.writer

\* A column the app made unique stays unique for whoever shares its rows,
\* before, during and after adoption and reversal.
KeysStayUnique ==
    \A t \in Tables : \A c \in Original[t] :
        ~Clash(db[t].rows, [on |-> c.on, form |-> c.form, lead |-> TRUE])

\* docs/how-to/adopt-a-third-party-app.md of reversing: it "restores each
\* unique constraint it rewrote to its original global definition".
ReverseRestores ==
    \A t \in Tables : db[t].column = "none" => db[t].unique = Global(Original[t])
=============================================================================
