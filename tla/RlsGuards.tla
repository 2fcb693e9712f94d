------------------------------ MODULE RlsGuards ------------------------------
(***************************************************************************)
(* The row-level security of a deployment over its life: the migration     *)
(* operations for the project's own models (EnableRLS, CreateTenantPolicy, *)
(* DropTenantPolicy), applied and reversed on several databases behind the *)
(* router and the vendor gate, next to an adopted table; what happens to   *)
(* the schema, the roles and the settings outside of migrations; and the   *)
(* guards that are to notice it, the system checks of boundary/checks.py   *)
(* and assert_rls_enforced() of boundary/testing.py.                       *)
(***************************************************************************)
EXTENDS Naturals, Sequences

CONSTANTS
    Tenants, None,
    Aliases, Default,  \* databases; the one the checks connect to
    Columns,           \* tables of tenant models with a tenant column
    Adopted,           \* tables of the apps in BOUNDARY_TENANT_APPS
    Chain,             \* the operations in order, one a migration
    Allowed,           \* per alias, the tables the router admits there
    Outcomes,          \* bound: how the queries of the guards may end together
    MaxDrifts          \* bound: changes to the schema outside of migrations

Tables == Columns \cup Adopted

\* The queries of the guards on the catalogue, by the check that asks: one per
\* table, or (None) one about the role; "assertion" is assert_rls_enforced().
Queries == ({"E006", "W009"} \X Tables) \cup ({"E007"} \X Adopted)
              \cup {<<"W003", None>>, <<"assertion", None>>}

\* How a query ends: without a connection, with a timeout (of the statement or
\* of a lock), or refused, for want of a privilege say.
Answer == {"answered", "unreachable", "timeout", "refused"}

ASSUME GuardsAssumption ==
    /\ None \notin Tenants /\ Default \in Aliases
    /\ Chain \in Seq([op : {"create", "enable", "policy", "drop", "adopt"}, table : Columns \cup Adopted])
    /\ Outcomes \subseteq [Queries -> Answer]
    /\ MaxDrifts \in Nat

VARIABLES
    postgres,   \* the aliases whose vendor is "postgresql"
    schema,     \* per alias, the tables
    applied,    \* per alias, how many of Chain are recorded as applied
    before,     \* history: per alias, the tables before each of those
    settings,   \* DEBUG, STRICT_MODE and SET_DB_SESSION_VAR
    roles,      \* the application's role, and the one for tests
    catalogue,  \* how a query on it would end now
    drifts

vars == <<postgres, schema, applied, before, settings, roles, catalogue, drifts>>

-----------------------------------------------------------------------------
\* A table: RLS enabled and forced, boundary_tenant_isolation and
\* boundary_admin_bypass, the tenant_id column adoption adds, and whether
\* every unique form leads with it.
Table == [there : BOOLEAN, enabled : BOOLEAN, forced : BOOLEAN, isolation : BOOLEAN,
          bypass : BOOLEAN, column : BOOLEAN, leads : BOOLEAN]

Absent == [f \in {"there", "enabled", "forced", "isolation", "bypass", "column", "leads"} |-> FALSE]
Created == [Absent EXCEPT !.there = TRUE]

Rls(s, on) == [s EXCEPT !.enabled = on, !.forced = on]
Policies(s, on) == [s EXCEPT !.isolation = on, !.bypass = on]

-----------------------------------------------------------------------------
(* Migrations *)

\* The gates of BR-RLS-021: the router, then the vendor.
Gated(a, t) == t \in Allowed[a] /\ a \in postgres

\* Whether PostgreSQL or the operation refuses: a table or policy that exists
\* is not created again, a statement that is not DROP POLICY IF EXISTS needs
\* its table, and adoption is nothing to skip off PostgreSQL.
CreatesPolicies(op, forwards) == op = IF forwards THEN "policy" ELSE "drop"
NeedsTable(op, forwards) ==
    op = "enable" \/ CreatesPolicies(op, forwards) \/ (op = "adopt" /\ forwards)
Refused(a, m, forwards) ==
    LET s == schema[a][m.table] IN
    \/ m.op = "create" /\ m.table \in Allowed[a] /\ s.there = forwards
    \/ NeedsTable(m.op, forwards) /\ Gated(a, m.table) /\ ~s.there
    \/ CreatesPolicies(m.op, forwards) /\ Gated(a, m.table) /\ (s.isolation \/ s.bypass)
    \/ m.op = "adopt" /\ m.table \in Allowed[a] /\ a \notin postgres

\* database_forwards(): a table that has its tenant_id is adopted already.
Forwards(a, m) ==
    LET s == schema[a][m.table] IN
    IF m.op = "create" THEN (IF m.table \in Allowed[a] THEN Created ELSE s)
    ELSE IF ~Gated(a, m.table) THEN s
    ELSE CASE m.op = "enable" -> Rls(s, TRUE)
           [] m.op = "policy" -> Policies(s, TRUE)
           [] m.op = "drop"   -> Policies(s, FALSE)
           [] m.op = "adopt"  -> IF s.column THEN s
                                 ELSE Policies(Rls([s EXCEPT !.column = TRUE, !.leads = TRUE], TRUE), TRUE)

\* Mutants of the operator below: reversing DropTenantPolicy is not gated;
\* it leaves the policies away.
BackwardsUngated(a, m) ==
    LET s == schema[a][m.table] IN
    IF m.op = "drop" THEN Policies(s, TRUE)
    ELSE IF m.op = "create" THEN (IF m.table \in Allowed[a] THEN Absent ELSE s)
    ELSE IF ~Gated(a, m.table) THEN s
    ELSE IF m.op = "policy" THEN Policies(s, FALSE)
    ELSE Policies(Rls([s EXCEPT !.column = FALSE, !.leads = FALSE], FALSE), FALSE)
BackwardsForgetsPolicies(a, m) ==
    LET s == schema[a][m.table] IN
    IF m.op = "create" THEN (IF m.table \in Allowed[a] THEN Absent ELSE s)
    ELSE IF ~Gated(a, m.table) THEN s
    ELSE IF m.op \in {"policy", "drop"} THEN Policies(s, FALSE)
    ELSE Policies(Rls([s EXCEPT !.column = FALSE, !.leads = FALSE], FALSE), FALSE)

\* database_backwards(): EnableRLS takes the policies with it.
Backwards(a, m) ==
    LET s == schema[a][m.table] IN
    IF m.op = "create" THEN (IF m.table \in Allowed[a] THEN Absent ELSE s)
    ELSE IF ~Gated(a, m.table) THEN s
    ELSE CASE m.op = "enable" -> Policies(Rls(s, FALSE), FALSE)
           [] m.op = "policy" -> Policies(s, FALSE)
           [] m.op = "drop"   -> Policies(s, TRUE)
           [] m.op = "adopt"  -> IF ~s.column THEN s
                                 ELSE Policies(Rls([s EXCEPT !.column = FALSE, !.leads = FALSE], FALSE), FALSE)

Migrate(a) ==
    LET m == Chain[applied[a] + 1] IN
    /\ applied[a] < Len(Chain) /\ ~Refused(a, m, TRUE)
    /\ applied' = [applied EXCEPT ![a] = @ + 1]
    /\ before' = [before EXCEPT ![a] = Append(@, schema[a])]
    /\ schema' = [schema EXCEPT ![a][m.table] = Forwards(a, m)]
    /\ UNCHANGED <<postgres, settings, roles, catalogue, drifts>>

Reverse(a) ==
    LET m == Chain[applied[a]] IN
    /\ applied[a] > 0 /\ ~Refused(a, m, FALSE)
    /\ applied' = [applied EXCEPT ![a] = @ - 1]
    /\ before' = [before EXCEPT ![a] = SubSeq(@, 1, Len(@) - 1)]
    /\ schema' = [schema EXCEPT ![a][m.table] = Backwards(a, m)]
    /\ UNCHANGED <<postgres, settings, roles, catalogue, drifts>>

-----------------------------------------------------------------------------
(* Outside of migrations *)

\* Somebody alters a table, or an upgrade of the adopted app recreates an
\* index without tenant_id.
Drift(a, t, what) ==
    /\ a \in postgres /\ schema[a][t][what] /\ drifts < MaxDrifts
    /\ drifts' = drifts + 1
    /\ schema' = [schema EXCEPT ![a][t][what] = FALSE]
    /\ UNCHANGED <<postgres, applied, before, settings, roles, catalogue>>

\* ALTER ROLE, and provision_rls_test_role(), which leaves a role it finds.
AlterRole(r) ==
    /\ roles[r] # "absent"
    /\ roles' = [roles EXCEPT ![r] = IF @ = "plain" THEN "bypassing" ELSE "plain"]
    /\ UNCHANGED <<postgres, schema, applied, before, settings, catalogue, drifts>>

ProvisionRlsTestRole ==
    /\ Default \in postgres /\ roles["test"] = "absent"
    /\ roles' = [roles EXCEPT !["test"] = "plain"]
    /\ UNCHANGED <<postgres, schema, applied, before, settings, catalogue, drifts>>

Redeploy(s) ==
    /\ settings' = [settings EXCEPT ![s] = ~@]
    /\ UNCHANGED <<postgres, schema, applied, before, roles, catalogue, drifts>>

\* The database cannot be reached, the role may not read some of the catalogue,
\* or statements on it time out.
CatalogueBecomes(outcome) ==
    /\ catalogue' = outcome
    /\ UNCHANGED <<postgres, schema, applied, before, settings, roles, drifts>>

-----------------------------------------------------------------------------
(* System checks, on the default alias: the ids they report *)

On(t) == schema[Default][t]

\* _rls_probe_targets()
Targets == {t \in Tables : On(t).there}

Enforced(t) == On(t).enabled /\ On(t).forced

\* _CONNECTION_UNAVAILABLE_ERRORS: a timeout is an OperationalError as well.
Skipped(q) == Default \in postgres /\ catalogue[q] \in {"unreachable", "timeout"}

\* What the check that asks q reports of it.
Ask(q, bad) ==
    IF Default \notin postgres \/ Skipped(q) THEN {}
    ELSE IF catalogue[q] = "refused" THEN {"W007"}
    ELSE IF bad THEN {q[1]} ELSE {}

\* Mutant: FORCE is not looked at.
CheckRlsEnabledOnly == UNION {Ask(<<"E006", t>>, t \in Targets /\ ~On(t).enabled) : t \in Tables}

\* _check_rls_enabled()
CheckRlsEnabled == UNION {Ask(<<"E006", t>>, t \in Targets /\ ~Enforced(t)) : t \in Tables}

\* _check_rls_bypassable()
CheckRlsBypassable == Ask(<<"W003", None>>, roles["app"] = "bypassing")

\* _check_db_session_var_disabled_with_rls_enabled()
CheckSessionVar ==
    UNION {Ask(<<"W009", t>>, t \in Targets /\ Enforced(t)) : t \in {u \in Tables : ~settings["setVar"]}}

\* _check_one_adopted_table() and _check_adopted_unique_forms()
Drifted(t) ==
    /\ t \in Targets
    /\ \/ ~On(t).column \/ ~Enforced(t)
       \/ ~On(t).isolation \/ ~On(t).bypass
       \/ ~On(t).leads
CheckAdoptedTables == UNION {Ask(<<"E007", t>>, Drifted(t)) : t \in Adopted}

\* _check_strict_mode() and _check_production_posture()
CheckStrictMode == IF settings["strict"] THEN {} ELSE {"W001"}
CheckPosture ==
    IF settings["debug"] \/ (settings["strict"] /\ settings["setVar"]) THEN {} ELSE {"E008"}

Reports ==
    CheckRlsEnabled \cup CheckRlsBypassable \cup CheckSessionVar \cup CheckAdoptedTables
        \cup CheckStrictMode \cup CheckPosture

\* assert_rls_enforced() for the test role does not raise.
AssertionPasses ==
    \/ Default \notin postgres
    \/ /\ catalogue[<<"assertion", None>>] = "answered"
       /\ roles["test"] = "plain"
       /\ Targets = {} \/ \E t \in Targets : Enforced(t)

-----------------------------------------------------------------------------
Init ==
    /\ postgres \in SUBSET Aliases
    /\ schema = [a \in Aliases |-> [t \in Tables |-> Absent]]
    /\ applied = [a \in Aliases |-> 0]
    /\ before = [a \in Aliases |-> <<>>]
    /\ settings = [s \in {"debug", "strict", "setVar"} |-> s # "debug"]
    /\ roles = [r \in {"app", "test"} |-> IF r = "app" THEN "plain" ELSE "absent"]
    /\ catalogue = [q \in Queries |-> "answered"]
    /\ drifts = 0

Next ==
    \/ \E a \in Aliases : Migrate(a)
    \/ \E a \in Aliases : Reverse(a)
    \/ \E a \in Aliases, t \in Tables, what \in {"enabled", "forced", "isolation", "bypass", "leads"} :
          Drift(a, t, what)
    \/ \E r \in {"app", "test"} : AlterRole(r)
    \/ ProvisionRlsTestRole
    \/ \E s \in {"debug", "strict", "setVar"} : Redeploy(s)
    \/ \E outcome \in Outcomes : CatalogueBecomes(outcome)

Spec == Init /\ [][Next]_vars

-----------------------------------------------------------------------------
(* Properties *)

\* The variables have their types, a history entry stands for each applied
\* migration, and RLS and policies are found on nothing but tables of
\* PostgreSQL databases the router admits.
TypeOK ==
    /\ postgres \subseteq Aliases
    /\ schema \in [Aliases -> [Tables -> Table]]
    /\ applied \in [Aliases -> 0..Len(Chain)]
    /\ before \in [Aliases -> Seq([Tables -> Table])]
    /\ \A a \in Aliases : Len(before[a]) = applied[a]
    /\ \A a \in Aliases, t \in Tables :
          LET s == schema[a][t] IN
          s.enabled \/ s.forced \/ s.isolation \/ s.bypass => s.there /\ Gated(a, t)
    /\ settings \in [{"debug", "strict", "setVar"} -> BOOLEAN]
    /\ roles \in [{"app", "test"} -> {"absent", "plain", "bypassing"}]
    /\ catalogue \in [Queries -> Answer]
    /\ drifts \in 0..MaxDrifts

\* The tenants whose rows the database shows a role when the program is in
\* the scope of who: a table's owner, the application's role, is exempt
\* unless RLS is forced.
Shown(a, t, role, who) ==
    LET s == schema[a][t] IN
    IF \/ a \notin postgres \/ ~s.enabled \/ roles[role] = "bypassing"
       \/ role = "app" /\ ~s.forced
    THEN Tenants
    ELSE {w \in Tenants : s.isolation /\ settings["setVar"] /\ w = who}

\* TenantManager on top: its filter, and without a tenant its strictness.
Managed(a, t, role, who) ==
    IF who = None THEN (IF settings["strict"] THEN {} ELSE Shown(a, t, role, None))
    ELSE Shown(a, t, role, who) \cap {who}

\* On alias a no scope sees another tenant's rows: through the manager on any
\* backend, past it on PostgreSQL, where a tenant of an adopted table also
\* sees its own, and keys are per tenant.
Isolates(a, t, role) ==
    \A who \in Tenants \cup {None} :
        /\ t \in Columns => Managed(a, t, role, who) \subseteq {who}
        /\ a \in postgres => Shown(a, t, role, who) \subseteq {who}
        /\ a \in postgres /\ t \in Adopted =>
              schema[a][t].leads /\ (who # None => who \in Shown(a, t, role, who))

\* The queries that vouch for t: W009 is asked only without session variables.
Vouching(t) ==
    {q \in Queries : /\ q[2] \in {t, None} /\ q[1] # "assertion"
                      /\ q[1] = "W009" => ~settings["setVar"]}

\* When the checks report nothing, each table none of them skipped isolates
\* the tenants, whatever was migrated, reversed, altered or configured before;
\* and for the test role it does when assert_rls_enforced() passes as well.
SilenceMeansIsolated ==
    Reports = {} =>
        \A t \in Targets :
            (\A q \in Vouching(t) : ~Skipped(q)) =>
                /\ Isolates(Default, t, "app")
                /\ roles["test"] # "absent" /\ AssertionPasses => Isolates(Default, t, "test")

\* The same for every database: E006's docstring, "Verify RLS is enabled on
\* all tenant-scoped tables". The checks look at one.
SilenceMeansIsolatedEverywhere ==
    Reports = {} /\ (\A q \in Queries : ~Skipped(q)) =>
        \A a \in Aliases, t \in Tables : schema[a][t].there => Isolates(a, t, "app")

\* checks.py:710, of E006: "The connection IS there and the query failed for
\* some other reason (a permissions error reading pg_class, a statement
\* timeout, a lock). [...] Report it instead of staying silent." A timeout is
\* skipped like a database that is not there.
FailuresAreReported ==
    Default \in postgres /\ (\E t \in Tables : catalogue[<<"E006", t>>] \in {"timeout", "refused"})
        => "W007" \in Reports

\* Reversing a migration gives its tables back as they were before it, on
\* every backend, unless they were altered otherwise ("Reversible").
ReversalRestores ==
    [][\A a \in Aliases :
          applied'[a] = applied[a] - 1 /\ drifts = 0 => schema'[a] = before[a][applied[a]]]_vars

\* checks.py, hints of E007: "Re-apply the AdoptTenantApp migration, which
\* rewrites each unique form to lead with tenant_id". A table that has its
\* column is skipped.
ReapplyingHeals ==
    [][applied'[Default] = applied[Default] + 1 /\ Chain[applied'[Default]].op = "adopt"
          => \A t \in Adopted : ~Drifted(t)']_vars
=============================================================================
