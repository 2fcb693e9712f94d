--------------------------- MODULE RlsGuardsProofs ---------------------------
(***************************************************************************)
(* Theorems about RlsGuards, for any tenants, tables, databases and chain  *)
(* of migrations: row-level security and policies are only ever found on   *)
(* tables of PostgreSQL databases the router admits; when the system       *)
(* checks are silent each table they looked at isolates the tenants; and   *)
(* reversing a migration gives the tables back as they were before it.     *)
(***************************************************************************)
EXTENDS RlsGuards, TLAPS

-----------------------------------------------------------------------------
(* Tables *)

\* RLS and policies are for gated tables that exist.
Guarded(a, t, s) == s.enabled \/ s.forced \/ s.isolation \/ s.bypass => s.there /\ Gated(a, t)

LEMMA TableRecords ==
    /\ Absent \in Table /\ Created \in Table
    /\ ~Absent.enabled /\ ~Absent.forced /\ ~Absent.isolation /\ ~Absent.bypass
    /\ ~Created.enabled /\ ~Created.forced /\ ~Created.isolation /\ ~Created.bypass
    /\ \A s \in Table, on \in BOOLEAN :
          /\ Rls(s, on) \in Table /\ Rls(s, on).there = s.there
          /\ Policies(s, on) \in Table /\ Policies(s, on).there = s.there
          /\ [s EXCEPT !.column = on, !.leads = on] \in Table
          /\ [s EXCEPT !.column = on, !.leads = on].there = s.there
  BY DEF Absent, Created, Table, Rls, Policies

\* Switching the policies off, or RLS and the policies.
LEMMA SwitchedOff ==
    ASSUME NEW a, NEW t, NEW s \in Table
    PROVE  /\ Guarded(a, t, s) => Guarded(a, t, Policies(s, FALSE))
           /\ Guarded(a, t, Policies(Rls(s, FALSE), FALSE))
  BY DEF Table, Rls, Policies, Guarded

-----------------------------------------------------------------------------
(* Migrations *)

Migration == [op : {"create", "enable", "policy", "drop", "adopt"}, table : Tables]

LEMMA ChainOfMigrations ==
    /\ Len(Chain) \in Nat
    /\ \A i \in 1..Len(Chain) : Chain[i] \in Migration
  <1>1. Chain \in Seq(Migration)
    BY GuardsAssumption DEF Migration, Tables
  <1>2. QED
    BY <1>1

\* Applying a migration that is not refused guards the table.
LEMMA ForwardsGuards ==
    ASSUME NEW a \in Aliases, NEW m \in Migration, schema[a][m.table] \in Table,
           Guarded(a, m.table, schema[a][m.table]), ~Refused(a, m, TRUE)
    PROVE  /\ Forwards(a, m) \in Table
           /\ Guarded(a, m.table, Forwards(a, m))
  <1> DEFINE s == schema[a][m.table]
  <1>1. CASE m.op = "create"
    BY <1>1, TableRecords DEF Forwards, Guarded
  <1>2. CASE m.op # "create" /\ ~Gated(a, m.table)
    BY <1>2 DEF Forwards
  <1>3. CASE Gated(a, m.table) /\ m.op = "enable"
    <2>1. Forwards(a, m) = Rls(s, TRUE) /\ s.there
      BY <1>3 DEF Forwards, Refused, NeedsTable
    <2>2. QED
      BY <2>1, <1>3, TableRecords DEF Guarded
  <1>4. CASE Gated(a, m.table) /\ m.op = "policy"
    <2>1. Forwards(a, m) = Policies(s, TRUE) /\ s.there
      BY <1>4 DEF Forwards, Refused, NeedsTable, CreatesPolicies
    <2>2. QED
      BY <2>1, <1>4, TableRecords DEF Guarded
  <1>5. CASE Gated(a, m.table) /\ m.op = "drop"
    <2>1. Forwards(a, m) = Policies(s, FALSE)
      BY <1>5 DEF Forwards
    <2>2. Policies(s, FALSE) \in Table
      BY TableRecords
    <2>3. Guarded(a, m.table, Policies(s, FALSE))
      BY SwitchedOff
    <2>4. QED
      BY <2>1, <2>2, <2>3
  <1>6. CASE Gated(a, m.table) /\ m.op = "adopt"
    <2> DEFINE n == [s EXCEPT !.column = TRUE, !.leads = TRUE]
    <2>1. s.there
      BY <1>6 DEF Refused, NeedsTable
    <2>2. Forwards(a, m) = IF s.column THEN s ELSE Policies(Rls(n, TRUE), TRUE)
      BY <1>6 DEF Forwards
    <2>3. n \in Table /\ n.there
      BY <2>1, TableRecords
    <2> HIDE DEF n
    <2>4. Policies(Rls(n, TRUE), TRUE) \in Table /\ Policies(Rls(n, TRUE), TRUE).there
      BY <2>3, TableRecords
    <2>5. QED
      BY <2>1, <2>2, <2>4, <1>6 DEF Guarded
  <1>7. QED
    BY <1>1, <1>2, <1>3, <1>4, <1>5, <1>6 DEF Migration

\* So does reversing one.
LEMMA BackwardsGuards ==
    ASSUME NEW a \in Aliases, NEW m \in Migration, schema[a][m.table] \in Table,
           Guarded(a, m.table, schema[a][m.table]), ~Refused(a, m, FALSE)
    PROVE  /\ Backwards(a, m) \in Table
           /\ Guarded(a, m.table, Backwards(a, m))
  <1> DEFINE s == schema[a][m.table]
  <1>1. CASE m.op = "create"
    BY <1>1, TableRecords DEF Backwards, Guarded
  <1>2. CASE m.op # "create" /\ ~Gated(a, m.table)
    BY <1>2 DEF Backwards
  <1>3. CASE Gated(a, m.table) /\ m.op = "enable"
    <2>1. Backwards(a, m) = Policies(Rls(s, FALSE), FALSE)
      BY <1>3 DEF Backwards
    <2>2. Policies(Rls(s, FALSE), FALSE) \in Table
      BY DEF Table, Policies, Rls
    <2>3. Guarded(a, m.table, Policies(Rls(s, FALSE), FALSE))
      BY SwitchedOff
    <2>4. QED
      BY <2>1, <2>2, <2>3
  <1>4. CASE Gated(a, m.table) /\ m.op = "policy"
    <2>1. Backwards(a, m) = Policies(s, FALSE)
      BY <1>4 DEF Backwards
    <2>2. Policies(s, FALSE) \in Table
      BY TableRecords
    <2>3. Guarded(a, m.table, Policies(s, FALSE))
      BY SwitchedOff
    <2>4. QED
      BY <2>1, <2>2, <2>3
  <1>5. CASE Gated(a, m.table) /\ m.op = "drop"
    <2>1. Backwards(a, m) = Policies(s, TRUE) /\ s.there
      BY <1>5 DEF Backwards, Refused, NeedsTable, CreatesPolicies
    <2>2. QED
      BY <2>1, <1>5, TableRecords DEF Guarded
  <1>6. CASE Gated(a, m.table) /\ m.op = "adopt"
    <2> DEFINE n == [s EXCEPT !.column = FALSE, !.leads = FALSE]
    <2>1. Backwards(a, m) = IF ~s.column THEN s ELSE Policies(Rls(n, FALSE), FALSE)
      BY <1>6 DEF Backwards
    <2>2. n \in Table
      BY TableRecords
    <2> HIDE DEF n
    <2>3. Policies(Rls(n, FALSE), FALSE) \in Table
      BY <2>2 DEF Table, Policies, Rls
    <2>4. Guarded(a, m.table, Policies(Rls(n, FALSE), FALSE))
      BY <2>2, SwitchedOff
    <2>5. QED
      BY <2>1, <2>3, <2>4
  <1>7. QED
    BY <1>1, <1>2, <1>3, <1>4, <1>5, <1>6 DEF Migration

-----------------------------------------------------------------------------
(* Types *)

\* A change to one table of one database keeps the others as they were.
LEMMA OneTableChanges ==
    ASSUME TypeOK, NEW a \in Aliases, NEW t \in Tables, NEW s \in Table, Guarded(a, t, s),
           schema' = [schema EXCEPT ![a][t] = s], postgres' = postgres
    PROVE  /\ schema' \in [Aliases -> [Tables -> Table]]
           /\ \A b \in Aliases, u \in Tables : Guarded(b, u, schema[b][u])'
  <1>1. schema \in [Aliases -> [Tables -> Table]]
    BY DEF TypeOK
  <1>2. \A b \in Aliases, u \in Tables : Guarded(b, u, schema[b][u])
    BY DEF TypeOK, Guarded
  <1>3. schema' \in [Aliases -> [Tables -> Table]]
    BY <1>1
  <1>4. \A b \in Aliases, u \in Tables :
           schema'[b][u] = IF b = a /\ u = t THEN s ELSE schema[b][u]
    BY <1>1
  <1>5. \A b \in Aliases, u \in Tables : Gated(b, u)' = Gated(b, u)
    BY DEF Gated
  <1>6. QED
    BY <1>2, <1>3, <1>4, <1>5 DEF Guarded

\* RLS and policies are never put on a table the router keeps off a
\* database, on a database that is not PostgreSQL, or on no table, in
\* whatever order migrations are applied and reversed.
THEOREM GuardsTypeCorrect == Spec => []TypeOK
  <1>1. Init => TypeOK
    <2> SUFFICES ASSUME Init PROVE TypeOK
      OBVIOUS
    <2>1. schema \in [Aliases -> [Tables -> Table]]
      BY TableRecords DEF Init
    <2>2. \A a \in Aliases, t \in Tables : schema[a][t] = Absent
      BY DEF Init
    <2>3. applied \in [Aliases -> 0..Len(Chain)]
      BY ChainOfMigrations DEF Init
    <2>4. /\ before \in [Aliases -> Seq([Tables -> Table])]
          /\ \A a \in Aliases : Len(before[a]) = applied[a]
      BY DEF Init
    <2>5. /\ settings \in [{"debug", "strict", "setVar"} -> BOOLEAN]
          /\ roles \in [{"app", "test"} -> {"absent", "plain", "bypassing"}]
      BY DEF Init
    <2>6. \A a \in Aliases, t \in Tables : Guarded(a, t, schema[a][t])
      BY <2>2, TableRecords DEF Guarded
    <2>7. /\ postgres \subseteq Aliases /\ drifts \in 0..MaxDrifts
          /\ catalogue \in [Queries -> Answer]
      BY GuardsAssumption DEF Init, Answer
    <2>8. QED
      BY <2>1, <2>3, <2>4, <2>5, <2>6, <2>7 DEF TypeOK, Guarded
  <1>2. TypeOK /\ [Next]_vars => TypeOK'
    <2> SUFFICES ASSUME TypeOK, [Next]_vars PROVE TypeOK'
      OBVIOUS
    <2> DEFINE SchemaOK == /\ schema \in [Aliases -> [Tables -> Table]]
                           /\ \A a \in Aliases, t \in Tables : Guarded(a, t, schema[a][t])
               HistoryOK == /\ applied \in [Aliases -> 0..Len(Chain)]
                            /\ before \in [Aliases -> Seq([Tables -> Table])]
                            /\ \A a \in Aliases : Len(before[a]) = applied[a]
               RestOK == /\ postgres \subseteq Aliases
                         /\ settings \in [{"debug", "strict", "setVar"} -> BOOLEAN]
                         /\ roles \in [{"app", "test"} -> {"absent", "plain", "bypassing"}]
                         /\ catalogue \in [Queries -> Answer]
                         /\ drifts \in 0..MaxDrifts
    <2>t. SchemaOK /\ HistoryOK /\ RestOK
      BY DEF TypeOK, Guarded
    <2>q. SchemaOK' /\ HistoryOK' /\ RestOK' => TypeOK'
      BY DEF TypeOK, Guarded
    <2>s. UNCHANGED <<postgres, schema>> => SchemaOK'
      BY <2>t DEF Guarded, Gated
    <2>1. ASSUME NEW a \in Aliases, Migrate(a) PROVE TypeOK'
      <3> DEFINE m == Chain[applied[a] + 1]
      <3>1. applied[a] \in 0..Len(Chain) /\ applied[a] < Len(Chain) /\ ~Refused(a, m, TRUE)
        BY <2>1, <2>t DEF Migrate
      <3>2. applied[a] + 1 \in 1..Len(Chain)
        BY <3>1, ChainOfMigrations
      <3>3. m \in Migration /\ m.table \in Tables
        BY <3>2, ChainOfMigrations DEF Migration
      <3>4. schema' = [schema EXCEPT ![a][m.table] = Forwards(a, m)] /\ postgres' = postgres
        BY <2>1 DEF Migrate
      <3> HIDE DEF m
      <3>5. schema[a][m.table] \in Table /\ Guarded(a, m.table, schema[a][m.table])
        BY <2>t, <3>3
      <3>6. SchemaOK'
        BY <3>1, <3>3, <3>4, <3>5, ForwardsGuards, OneTableChanges
      <3>7. HistoryOK'
        <4>1. /\ applied' = [applied EXCEPT ![a] = @ + 1]
              /\ before' = [before EXCEPT ![a] = Append(@, schema[a])]
          BY <2>1 DEF Migrate
        <4>2. schema[a] \in [Tables -> Table] /\ before[a] \in Seq([Tables -> Table])
          BY <2>t
        <4>3. /\ Append(before[a], schema[a]) \in Seq([Tables -> Table])
              /\ Len(Append(before[a], schema[a])) = Len(before[a]) + 1
          BY <4>2
        <4>4. applied[a] + 1 \in 0..Len(Chain)
          BY <3>2
        <4>5. QED
          BY <4>1, <4>3, <4>4, <2>t
      <3>8. RestOK'
        BY <2>1, <2>t DEF Migrate
      <3>9. QED
        BY <3>6, <3>7, <3>8, <2>q
    <2>2. ASSUME NEW a \in Aliases, Reverse(a) PROVE TypeOK'
      <3> DEFINE m == Chain[applied[a]]
      <3>1. applied[a] \in 0..Len(Chain) /\ applied[a] > 0 /\ ~Refused(a, m, FALSE)
        BY <2>2, <2>t DEF Reverse
      <3>2. applied[a] \in 1..Len(Chain) /\ applied[a] - 1 \in 0..Len(Chain)
        BY <3>1, ChainOfMigrations
      <3>3. m \in Migration /\ m.table \in Tables
        BY <3>2, ChainOfMigrations DEF Migration
      <3>4. schema' = [schema EXCEPT ![a][m.table] = Backwards(a, m)] /\ postgres' = postgres
        BY <2>2 DEF Reverse
      <3> HIDE DEF m
      <3>5. schema[a][m.table] \in Table /\ Guarded(a, m.table, schema[a][m.table])
        BY <2>t, <3>3
      <3>6. SchemaOK'
        BY <3>1, <3>3, <3>4, <3>5, BackwardsGuards, OneTableChanges
      <3>7. HistoryOK'
        <4> DEFINE rest == SubSeq(before[a], 1, Len(before[a]) - 1)
        <4>1. /\ applied' = [applied EXCEPT ![a] = @ - 1]
              /\ before' = [before EXCEPT ![a] = rest]
          BY <2>2 DEF Reverse
        <4>2. before[a] \in Seq([Tables -> Table]) /\ Len(before[a]) = applied[a]
          BY <2>t
        <4>3. rest \in Seq([Tables -> Table]) /\ Len(rest) = applied[a] - 1
          BY <4>2, <3>2
        <4> HIDE DEF rest
        <4>4. QED
          BY <4>1, <4>3, <3>2, <2>t
      <3>8. RestOK'
        BY <2>2, <2>t DEF Reverse
      <3>9. QED
        BY <3>6, <3>7, <3>8, <2>q
    <2>3. ASSUME NEW a \in Aliases, NEW t \in Tables,
                 NEW what \in {"enabled", "forced", "isolation", "bypass", "leads"},
                 Drift(a, t, what)
          PROVE  TypeOK'
      <3> DEFINE s == [schema[a][t] EXCEPT ![what] = FALSE]
      <3>1. schema[a][t] \in Table /\ Guarded(a, t, schema[a][t])
        BY <2>t
      <3>2. s \in Table /\ s.there = schema[a][t].there
        BY <3>1 DEF Table
      <3>3. Guarded(a, t, s)
        BY <3>1 DEF Guarded, Table
      <3>4. schema' = [schema EXCEPT ![a][t] = s]
        BY <2>3, <2>t DEF Drift
      <3>5. drifts + 1 \in 0..MaxDrifts
        BY <2>3, <2>t, GuardsAssumption DEF Drift
      <3> HIDE DEF s
      <3>6. SchemaOK'
        BY <2>3, <3>2, <3>3, <3>4, OneTableChanges DEF Drift
      <3>7. QED
        BY <2>3, <2>t, <2>q, <3>5, <3>6 DEF Drift
    <2>4. ASSUME NEW r \in {"app", "test"}, AlterRole(r) PROVE TypeOK'
      BY <2>4, <2>s, <2>t, <2>q DEF AlterRole
    <2>5. CASE ProvisionRlsTestRole
      BY <2>5, <2>s, <2>t, <2>q DEF ProvisionRlsTestRole
    <2>6. ASSUME NEW f \in {"debug", "strict", "setVar"}, Redeploy(f) PROVE TypeOK'
      <3>1. settings' \in [{"debug", "strict", "setVar"} -> BOOLEAN]
        BY <2>6, <2>t, Zenon DEF Redeploy
      <3>2. QED
        BY <2>6, <3>1, <2>s, <2>t, <2>q DEF Redeploy
    <2>7. ASSUME NEW outcome \in Outcomes, CatalogueBecomes(outcome)
          PROVE  TypeOK'
      BY <2>7, <2>s, <2>t, <2>q, GuardsAssumption DEF CatalogueBecomes
    <2>8. CASE UNCHANGED vars
      BY <2>8, <2>s, <2>t, <2>q DEF vars
    <2>9. QED
      BY <2>1, <2>2, <2>3, <2>4, <2>5, <2>6, <2>7, <2>8 DEF Next
  <1>3. QED
    BY <1>1, <1>2, PTL DEF Spec

-----------------------------------------------------------------------------
(* Silent checks *)

\* A silent check has seen nothing bad, unless it skipped its query.
LEMMA SilentQuery ==
    ASSUME NEW q \in Queries, NEW bad, TypeOK, Default \in postgres, ~Skipped(q), Ask(q, bad) = {}
    PROVE  catalogue[q] = "answered" /\ ~bad
  <1>1. catalogue[q] \in Answer
    BY DEF TypeOK
  <1>2. QED
    BY <1>1 DEF Ask, Skipped, Answer

\* A table that all checks have passed in silence and none has skipped.
LEMMA SilentTable ==
    ASSUME TypeOK, Reports = {}, NEW t \in Targets, \A q \in Vouching(t) : ~Skipped(q)
    PROVE  /\ settings["strict"]
           /\ Default \in postgres =>
                 /\ settings["setVar"] /\ Enforced(t) /\ roles["app"] # "bypassing"
                 /\ t \in Adopted => On(t).isolation /\ On(t).leads
  <1>1. settings["strict"]
    BY DEF Reports, CheckStrictMode
  <1>2. ASSUME Default \in postgres
        PROVE  /\ settings["setVar"] /\ Enforced(t) /\ roles["app"] # "bypassing"
               /\ t \in Adopted => On(t).isolation /\ On(t).leads
    <2>t. t \in Tables
      BY DEF Targets
    <2>1. Enforced(t)
      <3>1. <<"E006", t>> \in Queries /\ ~Skipped(<<"E006", t>>)
        BY <2>t DEF Queries, Vouching
      <3>2. Ask(<<"E006", t>>, t \in Targets /\ ~Enforced(t)) = {}
        BY <2>t DEF Reports, CheckRlsEnabled
      <3>3. QED
        BY <1>2, <3>1, <3>2, SilentQuery
    <2>2. roles["app"] # "bypassing"
      <3>1. <<"W003", None>> \in Queries /\ ~Skipped(<<"W003", None>>)
        BY DEF Queries, Vouching
      <3>2. Ask(<<"W003", None>>, roles["app"] = "bypassing") = {}
        BY DEF Reports, CheckRlsBypassable
      <3>3. QED
        BY <1>2, <3>1, <3>2, SilentQuery
    <2>3. settings["setVar"]
      <3> SUFFICES ASSUME ~settings["setVar"] PROVE FALSE
        OBVIOUS
      <3>1. <<"W009", t>> \in Queries /\ ~Skipped(<<"W009", t>>)
        BY <2>t DEF Queries, Vouching
      <3>2. Ask(<<"W009", t>>, t \in Targets /\ Enforced(t)) = {}
        BY <2>t DEF Reports, CheckSessionVar
      <3>3. QED
        BY <1>2, <2>1, <3>1, <3>2, SilentQuery
    <2>4. ASSUME t \in Adopted PROVE On(t).isolation /\ On(t).leads
      <3>1. <<"E007", t>> \in Queries /\ ~Skipped(<<"E007", t>>)
        BY <2>4 DEF Queries, Vouching
      <3>2. Ask(<<"E007", t>>, Drifted(t)) = {}
        BY <2>4 DEF Reports, CheckAdoptedTables
      <3>3. ~Drifted(t)
        BY <1>2, <3>1, <3>2, SilentQuery
      <3>4. QED
        BY <3>3 DEF Drifted
    <2>5. QED
      BY <2>1, <2>2, <2>3, <2>4
  <1>3. QED
    BY <1>1, <1>2

\* A table no query of which was skipped isolates the tenants when the checks
\* report nothing: for the application's role, and for the test role when
\* assert_rls_enforced() passes, whatever was migrated, altered or configured
\* before. Each check reads the present state, and together they leave no way
\* to the rows open.
THEOREM SilenceIsolates == Spec => []SilenceMeansIsolated
  <1>1. TypeOK => SilenceMeansIsolated
    <2> SUFFICES ASSUME TypeOK, Reports = {}, NEW t \in Targets, \A q \in Vouching(t) : ~Skipped(q)
                 PROVE  /\ Isolates(Default, t, "app")
                        /\ roles["test"] # "absent" /\ AssertionPasses
                              => Isolates(Default, t, "test")
      BY DEF SilenceMeansIsolated
    <2>1. ASSUME NEW role \in {"app", "test"}, Default \in postgres => roles[role] # "bypassing"
          PROVE  Isolates(Default, t, role)
      <3> SUFFICES ASSUME NEW who \in Tenants \cup {None}
                   PROVE  /\ Managed(Default, t, role, who) \subseteq {who}
                          /\ Default \in postgres =>
                                /\ Shown(Default, t, role, who) \subseteq {who}
                                /\ t \in Adopted =>
                                      /\ schema[Default][t].leads
                                      /\ who # None => who \in Shown(Default, t, role, who)
        BY DEF Isolates
      <3>1. Managed(Default, t, role, who) \subseteq {who}
        BY SilentTable DEF Managed
      <3>2. ASSUME Default \in postgres
            PROVE  Shown(Default, t, role, who) =
                      {w \in Tenants : schema[Default][t].isolation /\ settings["setVar"] /\ w = who}
        BY <2>1, <3>2, SilentTable DEF Shown, Enforced, On
      <3>3. QED
        BY <3>1, <3>2, SilentTable DEF On
    <2>2. Isolates(Default, t, "app")
      BY <2>1, SilentTable
    <2>3. ASSUME AssertionPasses PROVE Isolates(Default, t, "test")
      <3>1. Default \in postgres => roles["test"] # "bypassing"
        BY <2>3 DEF AssertionPasses
      <3>2. QED
        BY <3>1, <2>1
    <2>4. QED
      BY <2>2, <2>3
  <1>2. QED
    BY <1>1, GuardsTypeCorrect, PTL

-----------------------------------------------------------------------------
(* The order of a chain *)

\* Some operation of ops is on t among the first n migrations.
Past(ops, t, n) == \E i \in 1..n : Chain[i].op \in ops /\ Chain[i].table = t

\* The first n migrations leave t with the policies of one of them.
InForce(t, n) ==
    \E i \in 1..n : /\ Chain[i].op \in {"policy", "adopt"} /\ Chain[i].table = t
                    /\ \A j \in (i + 1)..n : Chain[j].op = "drop" => Chain[j].table # t

\* A table is enabled or adopted once, before anything else gives it RLS or
\* policies, and loses policies it has: what the reversals of EnableRLS,
\* AdoptTenantApp and DropTenantPolicy take for granted. The other operations
\* are refused where they would repeat one.
ChainInOrder ==
    \A n \in 1..Len(Chain) :
        /\ Chain[n].op \in {"enable", "adopt"} =>
              ~Past({"enable", "policy", "adopt"}, Chain[n].table, n - 1)
        /\ Chain[n].op = "drop" => InForce(Chain[n].table, n - 1)

-----------------------------------------------------------------------------
(* Migrations as functions of the table they are on, P the aliases on PostgreSQL *)

GatedOf(P, a, t) == t \in Allowed[a] /\ a \in P

Migrated(P, a, m, s) ==
    IF m.op = "create" THEN (IF m.table \in Allowed[a] THEN Created ELSE s)
    ELSE IF ~GatedOf(P, a, m.table) THEN s
    ELSE CASE m.op = "enable" -> Rls(s, TRUE)
           [] m.op = "policy" -> Policies(s, TRUE)
           [] m.op = "drop"   -> Policies(s, FALSE)
           [] m.op = "adopt"  -> IF s.column THEN s
                                 ELSE Policies(Rls([s EXCEPT !.column = TRUE, !.leads = TRUE], TRUE), TRUE)

Undone(P, a, m, s) ==
    IF m.op = "create" THEN (IF m.table \in Allowed[a] THEN Absent ELSE s)
    ELSE IF ~GatedOf(P, a, m.table) THEN s
    ELSE CASE m.op = "enable" -> Policies(Rls(s, FALSE), FALSE)
           [] m.op = "policy" -> Policies(s, FALSE)
           [] m.op = "drop"   -> Policies(s, TRUE)
           [] m.op = "adopt"  -> IF ~s.column THEN s
                                 ELSE Policies(Rls([s EXCEPT !.column = FALSE, !.leads = FALSE], FALSE), FALSE)

\* What is left of a refusal for the table.
Admitted(P, a, m, s) ==
    /\ m.op = "create" /\ m.table \in Allowed[a] => ~s.there
    /\ m.op \in {"enable", "policy", "adopt"} /\ GatedOf(P, a, m.table) => s.there
    /\ m.op = "policy" /\ GatedOf(P, a, m.table) => ~s.isolation /\ ~s.bypass

LEMMA MigrationsOfTables ==
    ASSUME NEW a \in Aliases, NEW m \in Migration
    PROVE  /\ Forwards(a, m) = Migrated(postgres, a, m, schema[a][m.table])
           /\ Backwards(a, m) = Undone(postgres, a, m, schema[a][m.table])
           /\ ~Refused(a, m, TRUE) => Admitted(postgres, a, m, schema[a][m.table])
  <1>1. Gated(a, m.table) <=> GatedOf(postgres, a, m.table)
    BY DEF Gated, GatedOf
  <1>o. m.op \in {"create", "enable", "policy", "drop", "adopt"}
    BY DEF Migration
  <1>2. Forwards(a, m) = Migrated(postgres, a, m, schema[a][m.table])
    <2>1. CASE m.op = "create"
      BY <2>1 DEF Forwards, Migrated
    <2>2. CASE m.op = "enable"
      BY <2>2, <1>1 DEF Forwards, Migrated
    <2>3. CASE m.op = "policy"
      BY <2>3, <1>1 DEF Forwards, Migrated
    <2>4. CASE m.op = "drop"
      BY <2>4, <1>1 DEF Forwards, Migrated
    <2>5. CASE m.op = "adopt"
      BY <2>5, <1>1 DEF Forwards, Migrated
    <2>6. QED
      BY <1>o, <2>1, <2>2, <2>3, <2>4, <2>5
  <1>3. Backwards(a, m) = Undone(postgres, a, m, schema[a][m.table])
    <2>1. CASE m.op = "create"
      BY <2>1 DEF Backwards, Undone
    <2>2. CASE m.op = "enable"
      BY <2>2, <1>1 DEF Backwards, Undone
    <2>3. CASE m.op = "policy"
      BY <2>3, <1>1 DEF Backwards, Undone
    <2>4. CASE m.op = "drop"
      BY <2>4, <1>1 DEF Backwards, Undone
    <2>5. CASE m.op = "adopt"
      BY <2>5, <1>1 DEF Backwards, Undone
    <2>6. QED
      BY <1>o, <2>1, <2>2, <2>3, <2>4, <2>5
  <1>4. ~Refused(a, m, TRUE) => Admitted(postgres, a, m, schema[a][m.table])
    BY <1>1 DEF Refused, Admitted, NeedsTable, CreatesPolicies
  <1>5. QED
    BY <1>2, <1>3, <1>4

-----------------------------------------------------------------------------
(* What a table owes to the first n migrations when nobody altered it *)

Owed(P, a, t, s, n) ==
    /\ ~s.there => s = Absent
    /\ s.column \/ s.leads => Past({"adopt"}, t, n)
    /\ s.enabled \/ s.forced => Past({"enable", "adopt"}, t, n)
    /\ s.isolation \/ s.bypass => Past({"policy", "adopt"}, t, n)
    /\ GatedOf(P, a, t) /\ InForce(t, n) => s.isolation /\ s.bypass

\* The tables x with the i-th migration undone.
Restored(P, a, i, x) == [x EXCEPT ![Chain[i].table] = Undone(P, a, Chain[i], x[Chain[i].table])]

\* The tables x, and those in h before each of the n migrations, are what the
\* migrations before them made of them; and undoing a migration on the tables
\* after it gives those before it.
Traced(P, a, x, n, h) ==
    /\ \A t \in Tables : Owed(P, a, t, x[t], n)
    /\ \A i \in 1..n :
          /\ \A t \in Tables : Owed(P, a, t, h[i][t], i - 1)
          /\ h[i] = Restored(P, a, i, IF i = n THEN x ELSE h[i + 1])

\* Until somebody alters a table, every database is what its migrations made of it.
HistoryUndoes ==
    drifts = 0 => \A a \in Aliases : Traced(postgres, a, schema[a], applied[a], before[a])

\* More migrations leave more behind.
LEMMA PastGrows ==
    ASSUME NEW ops, NEW t, NEW n \in Nat
    PROVE  /\ Past(ops, t, n - 1) => Past(ops, t, n)
           /\ n > 0 /\ Chain[n].op \in ops /\ Chain[n].table = t => Past(ops, t, n)
  BY DEF Past

LEMMA PastOfMore ==
    ASSUME NEW ops, NEW more, NEW t, NEW n \in Nat, ops \subseteq more, Past(ops, t, n)
    PROVE  Past(more, t, n)
  BY DEF Past

\* Policies in force after n migrations were so before the n-th or are its own.
LEMMA InForceFrom ==
    ASSUME NEW t, NEW n \in Nat \ {0}, InForce(t, n)
    PROVE  /\ ~(Chain[n].op = "drop" /\ Chain[n].table = t)
           /\ \/ Chain[n].op \in {"policy", "adopt"} /\ Chain[n].table = t
              \/ InForce(t, n - 1)
  <1>1. PICK i \in 1..n :
           /\ Chain[i].op \in {"policy", "adopt"} /\ Chain[i].table = t
           /\ \A j \in (i + 1)..n : Chain[j].op = "drop" => Chain[j].table # t
    BY DEF InForce
  <1>2. CASE i = n
    BY <1>1, <1>2
  <1>3. CASE i # n
    <2>1. n \in (i + 1)..n /\ i \in 1..(n - 1)
      BY <1>3
    <2>2. \A j \in (i + 1)..(n - 1) : j \in (i + 1)..n
      BY <1>1
    <2>3. InForce(t, n - 1)
      BY <1>1, <2>1, <2>2 DEF InForce
    <2>4. QED
      BY <1>1, <2>1, <2>3
  <1>4. QED
    BY <1>2, <1>3

\* A table record is its seven fields.
LEMMA SameTable ==
    ASSUME NEW s \in Table, NEW u \in Table,
           s.there = u.there, s.enabled = u.enabled, s.forced = u.forced,
           s.isolation = u.isolation, s.bypass = u.bypass, s.column = u.column, s.leads = u.leads
    PROVE  s = u
  BY DEF Table

-----------------------------------------------------------------------------
(* Applying one more migration *)

\* A table the n-th migration leaves alone owes no more than before.
LEMMA OwedStays ==
    ASSUME NEW P, NEW a, NEW t, NEW s, NEW n \in Nat \ {0}, Owed(P, a, t, s, n - 1),
           GatedOf(P, a, t) /\ Chain[n].op \in {"policy", "adopt"} => Chain[n].table # t
    PROVE  Owed(P, a, t, s, n)
  <1>1. \A ops : Past(ops, t, n - 1) => Past(ops, t, n)
    BY PastGrows
  <1>2. GatedOf(P, a, t) /\ InForce(t, n) => InForce(t, n - 1)
    BY InForceFrom
  <1>3. QED
    BY <1>1, <1>2 DEF Owed

\* A migration in its order can be undone on the table it was applied to.
LEMMA MigratedUndone ==
    ASSUME ChainInOrder, NEW P, NEW a, NEW n \in 1..Len(Chain), NEW s \in Table,
           Owed(P, a, Chain[n].table, s, n - 1), Admitted(P, a, Chain[n], s)
    PROVE  /\ Owed(P, a, Chain[n].table, Migrated(P, a, Chain[n], s), n)
           /\ s = Undone(P, a, Chain[n], Migrated(P, a, Chain[n], s))
  <1> DEFINE m == Chain[n]
             t == Chain[n].table
             after == Migrated(P, a, m, s)
  <1>m. m \in Migration /\ n \in Nat \ {0} /\ n - 1 \in Nat
    BY ChainOfMigrations
  <1> SUFFICES Owed(P, a, t, after, n) /\ s = Undone(P, a, m, after)
    OBVIOUS
  <1>t. t = m.table
    OBVIOUS
  <1>o. Owed(P, a, t, s, n - 1) /\ Admitted(P, a, m, s)
    OBVIOUS
  <1>p. \A ops : /\ Past(ops, t, n - 1) => Past(ops, t, n)
                 /\ m.op \in ops => Past(ops, t, n)
    BY <1>m, PastGrows
  <1>s. Owed(P, a, t, s, n - 1) /\ (GatedOf(P, a, t) => m.op \notin {"policy", "adopt"})
           => Owed(P, a, t, s, n)
    BY <1>m, OwedStays
  <1>c. m.op \in {"enable", "adopt"} => ~Past({"enable", "policy", "adopt"}, t, n - 1)
    BY DEF ChainInOrder
  <1>d. m.op = "drop" => InForce(t, n - 1)
    BY DEF ChainInOrder
  <1>f. InForce(t, n) => m.op # "drop"
    BY <1>m, InForceFrom
  <1> HIDE DEF m, t
  \* Before an enabling or an adoption the table has nothing of either.
  <1>b. ASSUME m.op \in {"enable", "adopt"}, s.there
        PROVE  s = Created
    <2>1. \A ops : ops \subseteq {"enable", "policy", "adopt"} => ~Past(ops, t, n - 1)
      BY <1>b, <1>c, <1>m, PastOfMore
    <2>2. /\ ~s.column /\ ~s.leads /\ ~s.enabled /\ ~s.forced /\ ~s.isolation /\ ~s.bypass
      BY <1>o, <2>1 DEF Owed
    <2>3. QED
      BY <1>b, <2>2 DEF Table, Created, Absent
  <1>1. CASE m.op = "create" /\ m.table \in Allowed[a]
    <2>1. after = Created /\ Undone(P, a, m, after) = Absent
      BY <1>1 DEF Migrated, Undone
    <2>2. s = Absent
      BY <1>1, <1>o DEF Admitted, Owed
    <2>3. Created.there /\ ~Created.column /\ ~Created.leads
      BY DEF Created, Absent
    <2>4. ~InForce(t, n) \/ ~GatedOf(P, a, t)
      <3>1. ~s.isolation
        BY <2>2, TableRecords
      <3>2. InForce(t, n) => InForce(t, n - 1)
        BY <1>1, <1>m, InForceFrom DEF m
      <3>3. QED
        BY <3>1, <3>2, <1>o DEF Owed
    <2>5. Owed(P, a, t, Created, n)
      BY <2>3, <2>4, TableRecords DEF Owed
    <2>6. QED
      BY <2>1, <2>2, <2>5
  <1>2. CASE \/ m.op = "create" /\ m.table \notin Allowed[a]
             \/ m.op # "create" /\ ~GatedOf(P, a, m.table)
    <2>1. after = s /\ Undone(P, a, m, s) = s
      BY <1>2 DEF Migrated, Undone
    <2>2. ~GatedOf(P, a, t)
      BY <1>2, <1>t DEF GatedOf
    <2>3. QED
      BY <2>1, <2>2, <1>o, <1>s
  <1>3. CASE m.op = "enable" /\ GatedOf(P, a, m.table)
    <2>1. s = Created
      BY <1>3, <1>b, <1>o DEF Admitted
    <2>2. after = Rls(Created, TRUE) /\ Undone(P, a, m, after) = Policies(Rls(after, FALSE), FALSE)
      BY <1>3, <2>1 DEF Migrated, Undone
    <2>3. /\ after.there /\ ~after.column /\ ~after.leads /\ ~after.isolation /\ ~after.bypass
          /\ Policies(Rls(after, FALSE), FALSE) = Created
      BY <2>2 DEF Rls, Policies, Created, Absent
    <2>4. InForce(t, n) => InForce(t, n - 1)
      BY <1>3, <1>m, InForceFrom DEF m
    <2>5. ~InForce(t, n - 1)
      BY <1>3, <1>o, <1>t, <2>1, TableRecords DEF Owed
    <2>6. Owed(P, a, t, after, n)
      BY <1>3, <1>p, <2>3, <2>4, <2>5 DEF Owed
    <2>7. QED
      BY <2>1, <2>2, <2>3, <2>6
  <1>4. CASE m.op = "policy" /\ GatedOf(P, a, m.table)
    <2>1. s.there /\ ~s.isolation /\ ~s.bypass
      BY <1>4, <1>o DEF Admitted
    <2>2. after = Policies(s, TRUE) /\ Undone(P, a, m, after) = Policies(after, FALSE)
      BY <1>4 DEF Migrated, Undone
    <2>3. /\ after.there /\ after.isolation /\ after.bypass
          /\ after.column = s.column /\ after.leads = s.leads
          /\ after.enabled = s.enabled /\ after.forced = s.forced
          /\ Policies(after, FALSE) = s
      BY <2>1, <2>2 DEF Policies, Table
    <2>4. Owed(P, a, t, after, n)
      BY <1>4, <1>o, <1>p, <2>3 DEF Owed
    <2>5. QED
      BY <2>2, <2>3, <2>4
  <1>5. CASE m.op = "drop" /\ GatedOf(P, a, m.table)
    <2>1. s.isolation /\ s.bypass
      BY <1>5, <1>o, <1>d, <1>t DEF Owed
    <2>2. after = Policies(s, FALSE) /\ Undone(P, a, m, after) = Policies(after, TRUE)
      BY <1>5 DEF Migrated, Undone
    <2>3. /\ after.there = s.there /\ ~after.isolation /\ ~after.bypass
          /\ after.column = s.column /\ after.leads = s.leads
          /\ after.enabled = s.enabled /\ after.forced = s.forced
          /\ Policies(after, TRUE) = s
      BY <2>1, <2>2 DEF Policies, Table
    <2>4. s.there
      BY <2>1, <1>o, TableRecords DEF Owed
    <2>5. Owed(P, a, t, after, n)
      BY <1>5, <1>f, <1>o, <1>p, <2>3, <2>4 DEF Owed
    <2>6. QED
      BY <2>2, <2>3, <2>5
  <1>6. CASE m.op = "adopt" /\ GatedOf(P, a, m.table)
    <2>1. s = Created
      BY <1>6, <1>b, <1>o DEF Admitted
    <2> DEFINE n1 == [Created EXCEPT !.column = TRUE, !.leads = TRUE]
               n2 == [after EXCEPT !.column = FALSE, !.leads = FALSE]
    <2>2. ~Created.column
      BY DEF Created, Absent
    <2>3. after = Policies(Rls(n1, TRUE), TRUE)
      BY <1>6, <2>1, <2>2 DEF Migrated
    <2>4. after.there /\ after.isolation /\ after.bypass /\ after.column
      BY <2>3 DEF Policies, Rls, Created, Absent
    <2>5. Undone(P, a, m, after) = Policies(Rls(n2, FALSE), FALSE)
      BY <1>6, <2>4 DEF Undone
    <2>6. Policies(Rls(n2, FALSE), FALSE) = Created
      BY <2>3 DEF Policies, Rls, Created, Absent
    <2> HIDE DEF n1, n2, after
    <2>7. Owed(P, a, t, after, n)
      BY <1>6, <1>p, <2>4 DEF Owed
    <2>8. QED
      BY <2>1, <2>5, <2>6, <2>7 DEF after
  <1>7. QED
    BY <1>1, <1>2, <1>3, <1>4, <1>5, <1>6, <1>m DEF Migration, m, t

-----------------------------------------------------------------------------
(* A database through its migrations *)

\* One more migration, in its order and not refused.
LEMMA MigratedIsTraced ==
    ASSUME ChainInOrder, NEW P, NEW a, NEW x \in [Tables -> Table], NEW n \in Nat,
           NEW h \in Seq([Tables -> Table]), Len(h) = n, n + 1 \in 1..Len(Chain),
           Traced(P, a, x, n, h), Admitted(P, a, Chain[n + 1], x[Chain[n + 1].table])
    PROVE  Traced(P, a, [x EXCEPT ![Chain[n + 1].table] =
                            Migrated(P, a, Chain[n + 1], x[Chain[n + 1].table])],
                  n + 1, Append(h, x))
  <1> DEFINE m == Chain[n + 1]
             u == Chain[n + 1].table
             s == x[u]
             after == Migrated(P, a, m, s)
             y == [x EXCEPT ![u] = after]
             g == Append(h, x)
  <1>m. u \in Tables /\ s \in Table
    BY ChainOfMigrations DEF Migration
  <1>a. \A t \in Tables : Owed(P, a, t, x[t], n)
    BY DEF Traced
  <1>1. Owed(P, a, u, after, n + 1) /\ s = Undone(P, a, m, after)
    <2>1. ASSUME NEW k \in 1..Len(Chain), NEW r \in Table,
                 Owed(P, a, Chain[k].table, r, k - 1), Admitted(P, a, Chain[k], r)
          PROVE  /\ Owed(P, a, Chain[k].table, Migrated(P, a, Chain[k], r), k)
                 /\ r = Undone(P, a, Chain[k], Migrated(P, a, Chain[k], r))
      BY <2>1, MigratedUndone, Zenon
    <2>2. (n + 1) - 1 = n
      OBVIOUS
    <2>3. Owed(P, a, u, s, (n + 1) - 1)
      BY <2>2, <1>a, <1>m
    <2>4. QED
      BY <2>1, <2>3, <1>m
  <1>2. ASSUME NEW t \in Tables PROVE Owed(P, a, t, y[t], n + 1)
    <2>1. CASE t = u
      BY <2>1, <1>1
    <2>2. CASE t # u
      <3>1. Owed(P, a, t, x[t], (n + 1) - 1)
        BY <1>a
      <3>2. Owed(P, a, t, x[t], n + 1)
        BY <2>2, <3>1, OwedStays
      <3>3. QED
        BY <2>2, <3>2
    <2>3. QED
      BY <2>1, <2>2
  <1>3. /\ \A i \in 1..n : g[i] = h[i]
        /\ g[n + 1] = x
    OBVIOUS
  <1>4. x = Restored(P, a, n + 1, y)
    <2>1. y[u] = after /\ y = [x EXCEPT ![u] = after]
      BY <1>m
    <2>2. Restored(P, a, n + 1, y) = [y EXCEPT ![u] = s]
      BY <1>1, <2>1 DEF Restored
    <2>3. [y EXCEPT ![u] = s] = x
      BY <1>m, <2>1
    <2>4. QED
      BY <2>2, <2>3
  <1> HIDE DEF y, g
  <1>5. ASSUME NEW i \in 1..(n + 1)
        PROVE  /\ \A t \in Tables : Owed(P, a, t, g[i][t], i - 1)
               /\ g[i] = Restored(P, a, i, IF i = n + 1 THEN y ELSE g[i + 1])
    <2>1. CASE i = n + 1
      BY <2>1, <1>3, <1>4, <1>a
    <2>2. CASE i = n
      <3>1. i \in 1..n /\ g[i + 1] = x /\ g[i] = h[i] /\ i # n + 1
        BY <2>2, <1>3
      <3>2. /\ \A t \in Tables : Owed(P, a, t, h[i][t], i - 1)
            /\ h[i] = Restored(P, a, i, x)
        BY <2>2, <3>1 DEF Traced
      <3>3. QED
        BY <3>1, <3>2
    <2>3. CASE i < n
      <3>1. i \in 1..n /\ i + 1 \in 1..n /\ i # n /\ i # n + 1
        BY <2>3
      <3>2. /\ \A t \in Tables : Owed(P, a, t, h[i][t], i - 1)
            /\ h[i] = Restored(P, a, i, h[i + 1])
        BY <3>1 DEF Traced
      <3>3. g[i] = h[i] /\ g[i + 1] = h[i + 1]
        BY <3>1, <1>3
      <3>4. QED
        BY <3>1, <3>2, <3>3
    <2>4. QED
      BY <2>1, <2>2, <2>3
  <1>6. QED
    BY <1>2, <1>5 DEF Traced, y, g

\* One migration less.
LEMMA UndoneIsTraced ==
    ASSUME NEW P, NEW a, NEW x, NEW n \in Nat \ {0},
           NEW h \in Seq([Tables -> Table]), Len(h) = n, Traced(P, a, x, n, h)
    PROVE  /\ Restored(P, a, n, x) = h[n]
           /\ Traced(P, a, h[n], n - 1, SubSeq(h, 1, n - 1))
  <1> DEFINE g == SubSeq(h, 1, n - 1)
  <1>1. \A i \in 1..(n - 1) : g[i] = h[i]
    OBVIOUS
  <1> HIDE DEF g
  <1>2. n \in 1..n
    OBVIOUS
  <1>3. Restored(P, a, n, x) = h[n] /\ \A t \in Tables : Owed(P, a, t, h[n][t], n - 1)
    BY <1>2 DEF Traced
  <1>4. ASSUME NEW i \in 1..(n - 1)
        PROVE  /\ \A t \in Tables : Owed(P, a, t, g[i][t], i - 1)
               /\ g[i] = Restored(P, a, i, IF i = n - 1 THEN h[n] ELSE g[i + 1])
    <2>1. i \in 1..n /\ i # n
      OBVIOUS
    <2>2. /\ \A t \in Tables : Owed(P, a, t, h[i][t], i - 1)
          /\ h[i] = Restored(P, a, i, h[i + 1])
      BY <2>1 DEF Traced
    <2>3. h[i + 1] = IF i = n - 1 THEN h[n] ELSE g[i + 1]
      <3>1. CASE i = n - 1
        BY <3>1
      <3>2. CASE i # n - 1
        <4>1. i + 1 \in 1..(n - 1)
          BY <3>2
        <4>2. QED
          BY <4>1, <3>2, <1>1
      <3>3. QED
        BY <3>1, <3>2
    <2>4. g[i] = h[i]
      BY <1>1
    <2>5. QED
      BY <2>2, <2>3, <2>4
  <1>5. QED
    BY <1>3, <1>4 DEF Traced, g

-----------------------------------------------------------------------------
(* Reversals *)

\* Reversing a migration gives back the tables its history has.
LEMMA ReversedIsBefore ==
    ASSUME TypeOK, HistoryUndoes, drifts = 0, NEW a \in Aliases, Reverse(a)
    PROVE  /\ applied[a] \in 1..Len(Chain)
           /\ schema' = [schema EXCEPT ![a] = before[a][applied[a]]]
  <1> DEFINE n == applied[a]
             m == Chain[n]
  <1>1. n \in 0..Len(Chain) /\ n > 0 /\ schema' = [schema EXCEPT ![a][m.table] = Backwards(a, m)]
    BY DEF TypeOK, Reverse
  <1>2. n \in 1..Len(Chain) /\ n \in Nat \ {0}
    BY <1>1, ChainOfMigrations
  <1>3. m \in Migration
    BY <1>2, ChainOfMigrations
  <1>4. Backwards(a, m) = Undone(postgres, a, m, schema[a][m.table])
    BY <1>3, MigrationsOfTables
  <1>5. schema' = [schema EXCEPT ![a] = Restored(postgres, a, n, schema[a])]
    BY <1>1, <1>4 DEF Restored
  <1>6. /\ before[a] \in Seq([Tables -> Table]) /\ Len(before[a]) = n
        /\ Traced(postgres, a, schema[a], n, before[a])
    BY DEF TypeOK, HistoryUndoes
  <1> HIDE DEF n
  <1>7. Restored(postgres, a, n, schema[a]) = before[a][n]
    BY <1>2, <1>6, UndoneIsTraced
  <1>8. QED
    BY <1>2, <1>5, <1>7 DEF n

\* What a step does to the databases it does not migrate.
LEMMA OthersStayTraced ==
    ASSUME HistoryUndoes, drifts' = drifts, drifts = 0, postgres' = postgres, NEW b \in Aliases,
           schema'[b] = schema[b], applied'[b] = applied[b], before'[b] = before[b]
    PROVE  Traced(postgres', b, schema'[b], applied'[b], before'[b])
  BY DEF HistoryUndoes

LEMMA MigrateKeepsHistory ==
    ASSUME TypeOK, ChainInOrder, HistoryUndoes, NEW a \in Aliases, Migrate(a)
    PROVE  HistoryUndoes'
  <1> SUFFICES ASSUME drifts' = 0, NEW b \in Aliases
               PROVE  Traced(postgres', b, schema'[b], applied'[b], before'[b])
    BY DEF HistoryUndoes
  <1> DEFINE n == applied[a]
             m == Chain[n + 1]
  <1>1. /\ n < Len(Chain) /\ ~Refused(a, m, TRUE) /\ postgres' = postgres /\ drifts' = drifts
        /\ applied' = [applied EXCEPT ![a] = @ + 1]
        /\ before' = [before EXCEPT ![a] = Append(@, schema[a])]
        /\ schema' = [schema EXCEPT ![a][m.table] = Forwards(a, m)]
    BY DEF Migrate
  <1>2. /\ schema \in [Aliases -> [Tables -> Table]] /\ before[a] \in Seq([Tables -> Table])
        /\ Len(before[a]) = n /\ n \in 0..Len(Chain)
        /\ applied \in [Aliases -> 0..Len(Chain)] /\ before \in [Aliases -> Seq([Tables -> Table])]
    BY DEF TypeOK
  <1>3. CASE b # a
    <2>1. schema'[b] = schema[b] /\ applied'[b] = applied[b] /\ before'[b] = before[b]
      BY <1>1, <1>2, <1>3
    <2>2. QED
      BY <1>1, <2>1, OthersStayTraced
  <1>4. CASE b = a
    <2>1. n \in Nat /\ n + 1 \in 1..Len(Chain)
      BY <1>1, <1>2, ChainOfMigrations
    <2>2. m \in Migration
      BY <2>1, ChainOfMigrations
    <2>3. /\ Forwards(a, m) = Migrated(postgres, a, m, schema[a][m.table])
          /\ Admitted(postgres, a, m, schema[a][m.table])
      BY <1>1, <2>2, MigrationsOfTables
    <2>4. /\ schema'[a] = [schema[a] EXCEPT ![m.table] = Migrated(postgres, a, m, schema[a][m.table])]
          /\ applied'[a] = n + 1 /\ before'[a] = Append(before[a], schema[a])
      BY <1>1, <1>2, <2>3
    <2>5. Traced(postgres, a, schema[a], n, before[a])
      BY <1>1 DEF HistoryUndoes
    <2> HIDE DEF n
    <2>6. Traced(postgres, a,
                 [schema[a] EXCEPT ![m.table] = Migrated(postgres, a, m, schema[a][m.table])],
                 n + 1, Append(before[a], schema[a]))
      BY <1>2, <2>1, <2>3, <2>5, MigratedIsTraced
    <2>7. QED
      BY <1>1, <1>4, <2>4, <2>6
  <1>5. QED
    BY <1>3, <1>4

LEMMA ReverseKeepsHistory ==
    ASSUME TypeOK, HistoryUndoes, NEW a \in Aliases, Reverse(a)
    PROVE  HistoryUndoes'
  <1> SUFFICES ASSUME drifts' = 0, NEW b \in Aliases
               PROVE  Traced(postgres', b, schema'[b], applied'[b], before'[b])
    BY DEF HistoryUndoes
  <1> DEFINE n == applied[a]
  <1>1. /\ postgres' = postgres /\ drifts' = drifts /\ drifts = 0
        /\ applied' = [applied EXCEPT ![a] = @ - 1]
        /\ before' = [before EXCEPT ![a] = SubSeq(@, 1, Len(@) - 1)]
    BY DEF Reverse
  <1>2. schema' = [schema EXCEPT ![a] = before[a][n]] /\ n \in 1..Len(Chain)
    BY <1>1, ReversedIsBefore
  <1>3. /\ schema \in [Aliases -> [Tables -> Table]] /\ before[a] \in Seq([Tables -> Table])
        /\ Len(before[a]) = n
        /\ applied \in [Aliases -> 0..Len(Chain)] /\ before \in [Aliases -> Seq([Tables -> Table])]
    BY DEF TypeOK
  <1>4. CASE b # a
    <2>1. schema'[b] = schema[b] /\ applied'[b] = applied[b] /\ before'[b] = before[b]
      BY <1>1, <1>2, <1>3, <1>4
    <2>2. QED
      BY <1>1, <2>1, OthersStayTraced
  <1>5. CASE b = a
    <2>1. /\ schema'[a] = before[a][n] /\ applied'[a] = n - 1
          /\ before'[a] = SubSeq(before[a], 1, n - 1)
      BY <1>1, <1>2, <1>3
    <2>2. Traced(postgres, a, schema[a], n, before[a])
      BY <1>1 DEF HistoryUndoes
    <2>3. n \in Nat \ {0}
      BY <1>2, ChainOfMigrations
    <2> HIDE DEF n
    <2>4. Traced(postgres, a, before[a][n], n - 1, SubSeq(before[a], 1, n - 1))
      BY <1>3, <2>2, <2>3, UndoneIsTraced
    <2>5. QED
      BY <1>1, <1>5, <2>1, <2>4
  <1>6. QED
    BY <1>4, <1>5

\* When the chain gives each table its row-level security once and drops only
\* policies that are there, reversing a migration gives its database back as
\* it was before it, on every backend, behind the router, and however
\* migrations were applied and reversed before, until somebody alters a table.
THEOREM ReversalsRestore ==
    ASSUME ChainInOrder
    PROVE  Spec => ReversalRestores
  <1> DEFINE Restores ==
                \A a \in Aliases : applied'[a] = applied[a] - 1 /\ drifts = 0
                                      => schema'[a] = before[a][applied[a]]
  <1>1. Init => HistoryUndoes
    <2> SUFFICES ASSUME Init, NEW a \in Aliases
                 PROVE  Traced(postgres, a, schema[a], applied[a], before[a])
      BY DEF HistoryUndoes
    <2>1. applied[a] = 0 /\ \A t \in Tables : schema[a][t] = Absent
      BY DEF Init
    <2>2. ~Absent.column /\ ~Absent.leads
      BY DEF Absent
    <2>3. \A t \in Tables : ~InForce(t, 0)
      BY DEF InForce
    <2>4. \A t \in Tables : Owed(postgres, a, t, Absent, 0)
      BY <2>2, <2>3, TableRecords DEF Owed
    <2>5. QED
      BY <2>1, <2>4 DEF Traced
  <1>2. ASSUME TypeOK, HistoryUndoes, [Next]_vars PROVE HistoryUndoes'
    <2>u. UNCHANGED <<postgres, schema, applied, before, drifts>> => HistoryUndoes'
      BY <1>2 DEF HistoryUndoes
    <2>1. ASSUME NEW a \in Aliases, Migrate(a) PROVE HistoryUndoes'
      BY <1>2, <2>1, MigrateKeepsHistory
    <2>2. ASSUME NEW a \in Aliases, Reverse(a) PROVE HistoryUndoes'
      BY <1>2, <2>2, ReverseKeepsHistory
    <2>3. ASSUME NEW a \in Aliases, NEW t \in Tables,
                 NEW what \in {"enabled", "forced", "isolation", "bypass", "leads"},
                 Drift(a, t, what)
          PROVE  HistoryUndoes'
      <3>1. drifts' = drifts + 1 /\ drifts \in Nat
        BY <1>2, <2>3, GuardsAssumption DEF Drift, TypeOK
      <3>2. drifts' # 0
        BY <3>1
      <3>3. QED
        BY <3>2 DEF HistoryUndoes
    <2>4. ASSUME NEW r \in {"app", "test"}, AlterRole(r) PROVE HistoryUndoes'
      BY <2>4, <2>u DEF AlterRole
    <2>5. CASE ProvisionRlsTestRole
      BY <2>5, <2>u DEF ProvisionRlsTestRole
    <2>6. ASSUME NEW f \in {"debug", "strict", "setVar"}, Redeploy(f) PROVE HistoryUndoes'
      BY <2>6, <2>u DEF Redeploy
    <2>7. ASSUME NEW outcome \in Outcomes, CatalogueBecomes(outcome)
          PROVE  HistoryUndoes'
      BY <2>7, <2>u DEF CatalogueBecomes
    <2>8. CASE UNCHANGED vars
      BY <2>8, <2>u DEF vars
    <2>9. QED
      BY <1>2, <2>1, <2>2, <2>3, <2>4, <2>5, <2>6, <2>7, <2>8 DEF Next
  <1>3. ASSUME TypeOK, HistoryUndoes, Next PROVE Restores
    <2> SUFFICES ASSUME NEW b \in Aliases, applied'[b] = applied[b] - 1, drifts = 0
                 PROVE  schema'[b] = before[b][applied[b]]
      OBVIOUS
    <2>t. /\ applied \in [Aliases -> 0..Len(Chain)] /\ applied[b] \in Nat
          /\ schema \in [Aliases -> [Tables -> Table]]
      BY <1>3, ChainOfMigrations DEF TypeOK
    <2>u. applied' # applied
      BY <2>t
    <2>1. ASSUME NEW a \in Aliases, Migrate(a) PROVE FALSE
      <3>1. applied' = [applied EXCEPT ![a] = @ + 1]
        BY <2>1 DEF Migrate
      <3>2. applied'[b] = IF b = a THEN applied[b] + 1 ELSE applied[b]
        BY <3>1, <2>t
      <3>3. QED
        BY <3>2, <2>t
    <2>2. ASSUME NEW a \in Aliases, Reverse(a) PROVE schema'[b] = before[b][applied[b]]
      <3>1. applied' = [applied EXCEPT ![a] = @ - 1]
        BY <2>2 DEF Reverse
      <3>2. applied'[b] = IF b = a THEN applied[b] - 1 ELSE applied[b]
        BY <3>1, <2>t
      <3>3. b = a
        BY <3>2, <2>t
      <3>4. schema' = [schema EXCEPT ![a] = before[a][applied[a]]]
        BY <1>3, <2>2, ReversedIsBefore
      <3>5. QED
        BY <3>3, <3>4, <2>t
    <2>3. QED
      BY <1>3, <2>1, <2>2, <2>u
         DEF Next, Drift, AlterRole, ProvisionRlsTestRole, Redeploy, CatalogueBecomes
  <1>4. ASSUME TypeOK, HistoryUndoes, [Next]_vars PROVE [Restores]_vars
    BY <1>3, <1>4
  <1>5. QED
    BY <1>1, <1>2, <1>4, GuardsTypeCorrect, PTL DEF Spec, ReversalRestores
=============================================================================
