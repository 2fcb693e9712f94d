--------------------------- MODULE TenantLifecycle ---------------------------
(***************************************************************************)
(* boundary_provision and boundary_deprovision, next to an application     *)
(* that keeps writing rows, over the databases of BOUNDARY_REGIONS. Every  *)
(* query of a command is a transaction of its own (management commands run *)
(* in autocommit), so another process may act, and the command may die,    *)
(* between any two of them; deprovision is run again until it succeeds.    *)
(*                                                                         *)
(* Target is the tenant being deprovisioned. A command has no tenant in    *)
(* context, so RegionalRouter sends every query of it to "default".        *)
(***************************************************************************)
EXTENDS Naturals, Sequences

CONSTANTS
    Tenants,     \* tenants
    Target,      \* the one deprovisioned
    Scoped,      \* sequence of the tables of column- or path-scoped models
    Adopted,     \* sequence of the adopted tables (BOUNDARY_TENANT_APPS)
    RowIds,      \* bound: rows the application ever writes
    Aliases,     \* DATABASES
    Default,     \* "default"
    Regions,     \* keys of BOUNDARY_REGIONS
    RegionOf,    \* the region of each tenant; "default" stands for none
    RlsForced,   \* the scoped tables force RLS on the commands' role
    Exporting,   \* --export given, always with the same path
    Concurrent,  \* the application writes while the command runs
    MaxCrashes   \* bound: how often the command dies

Tables == Scoped \o Adopted
IsAdopted(table) == \E i \in DOMAIN Adopted : Adopted[i] = table

ASSUME LifecycleAssumption ==
    /\ Target \in Tenants
    /\ Default \in Aliases
    /\ RegionOf \in [Tenants -> Aliases]
    /\ MaxCrashes \in Nat
    /\ \A s \in {Scoped, Adopted} : s \in Seq({s[i] : i \in DOMAIN s})
    /\ \A i, j \in DOMAIN Tables : Tables[i] = Tables[j] => i = j

VARIABLES
    tenantAt,   \* tenant rows: pairs of a tenant and the alias that has it
    data,       \* rows of tenant tables
    born,       \* row ids already used
    file,       \* rows in the export file
    cmd,        \* the deprovision command
    destroyed,  \* history: the target's rows the command has deleted
    crashes     \* how often it died

vars == <<tenantAt, data, born, file, cmd, destroyed, crashes>>
world == <<tenantAt, data, born, file, destroyed, crashes>>

-----------------------------------------------------------------------------
TableSet == {Tables[i] : i \in DOMAIN Tables}
DataRow == [id : RowIds, table : TableSet, tenant : Tenants, alias : Aliases]
Idle == [pc |-> "idle", at |-> 0, affected |-> {}]

\* RegionalRouter._route() with the tenant in context (None: no tenant).
\* Adopted models are not tenant models, so they stay on "default".
Route(t, table) ==
    IF ~IsAdopted(table) /\ RegionOf[t] \in Regions THEN RegionOf[t] ELSE Default

\* Mutant: a statement without the tenant in its WHERE.
VisibleAnyTenant(table) ==
    IF RlsForced /\ ~IsAdopted(table) THEN {}
    ELSE {r \in data : r.table = table /\ r.alias = Default}

\* The target's rows the command's statement on a table can see: on the
\* alias the router gives it, and on an adopted table under admin_bypass().
Visible(table) ==
    IF RlsForced /\ ~IsAdopted(table) THEN {}
    ELSE {r \in data : r.table = table /\ r.tenant = Target /\ r.alias = Default}

-----------------------------------------------------------------------------
(* Provisioning and the application *)

\* boundary_provision: straight to the region, when there is one.
Provision(t) ==
    /\ cmd = Idle
    /\ \A a \in Aliases : <<t, a>> \notin tenantAt
    /\ tenantAt' = tenantAt \cup {<<t, IF RegionOf[t] \in Regions THEN RegionOf[t] ELSE Default>>}
    /\ UNCHANGED <<data, born, file, cmd, destroyed, crashes>>

\* The consumer's own tenant.save(using=a), for a tenant needed on more
\* databases than boundary_provision writes to.
SaveTenant(t, a) ==
    /\ cmd = Idle
    /\ \E b \in Aliases \ {a} : <<t, b>> \in tenantAt
    /\ tenantAt' = tenantAt \cup {<<t, a>>}
    /\ UNCHANGED <<data, born, file, cmd, destroyed, crashes>>

\* A request of tenant t, which the resolvers found on "default", inserts a
\* row; a scoped row has a foreign key to the tenant row of its database.
Insert(id, t, table) ==
    /\ id \notin born
    /\ cmd = Idle \/ Concurrent
    /\ <<t, Default>> \in tenantAt
    /\ IsAdopted(table) \/ <<t, Route(t, table)>> \in tenantAt
    /\ data' = data \cup {[id |-> id, table |-> table, tenant |-> t, alias |-> Route(t, table)]}
    /\ born' = born \cup {id}
    /\ UNCHANGED <<tenantAt, file, cmd, destroyed, crashes>>

-----------------------------------------------------------------------------
(* boundary_deprovision *)

\* handle() resolves the tenant, or raises "Tenant not found".
Begin ==
    /\ cmd = Idle
    /\ <<Target, Default>> \in tenantAt
    /\ cmd' = [pc |-> "collect", at |-> 1, affected |-> {}]
    /\ UNCHANGED world

\* Mutant: what is found is recorded instead of where.
CollectRecordsRows ==
    /\ cmd.pc = "collect" /\ cmd.at <= Len(Tables)
    /\ cmd' = [cmd EXCEPT !.at = @ + 1, !.affected = @ \cup Visible(Tables[cmd.at])]
    /\ UNCHANGED world

\* _collect_affected counts table after table.
Collect ==
    /\ cmd.pc = "collect" /\ cmd.at <= Len(Tables)
    /\ cmd' = [cmd EXCEPT !.at = @ + 1,
                          !.affected = IF Visible(Tables[cmd.at]) = {} THEN @
                                       ELSE @ \cup {Tables[cmd.at]}]
    /\ UNCHANGED world

\* A dry run, or an operator who does not type "yes".
Decline ==
    /\ cmd.pc = "collect" /\ cmd.at > Len(Tables)
    /\ cmd' = Idle
    /\ UNCHANGED world

\* Mutant: the tenant row is deleted first.
ConfirmDeletesTenant ==
    /\ cmd.pc = "collect" /\ cmd.at > Len(Tables)
    /\ cmd' = [cmd EXCEPT !.pc = IF Exporting THEN "export" ELSE "delete", !.at = 1]
    /\ file' = IF Exporting THEN {} ELSE file
    /\ tenantAt' = tenantAt \ {<<Target, Default>>}
    /\ UNCHANGED <<data, born, destroyed, crashes>>

\* Confirmed. The export opens its file with mode "w".
Confirm ==
    /\ cmd.pc = "collect" /\ cmd.at > Len(Tables)
    /\ cmd' = [cmd EXCEPT !.pc = IF Exporting THEN "export" ELSE "delete", !.at = 1]
    /\ file' = IF Exporting THEN {} ELSE file
    /\ UNCHANGED <<tenantAt, data, born, destroyed, crashes>>

\* Mutant: the adopted tables are not exported.
ExportScopedOnly ==
    /\ cmd.pc = "export" /\ cmd.at <= Len(Tables)
    /\ file' = file \cup IF IsAdopted(Tables[cmd.at]) THEN {} ELSE Visible(Tables[cmd.at])
    /\ cmd' = [cmd EXCEPT !.at = @ + 1]
    /\ UNCHANGED <<tenantAt, data, born, destroyed, crashes>>

\* _export writes every table, counted or not.
Export ==
    /\ cmd.pc = "export" /\ cmd.at <= Len(Tables)
    /\ file' = file \cup Visible(Tables[cmd.at])
    /\ cmd' = [cmd EXCEPT !.at = @ + 1]
    /\ UNCHANGED <<tenantAt, data, born, destroyed, crashes>>

ExportDone ==
    /\ cmd.pc = "export" /\ cmd.at > Len(Tables)
    /\ cmd' = [cmd EXCEPT !.pc = "delete", !.at = 1]
    /\ UNCHANGED world

Remove(rows) == data' = data \ rows /\ destroyed' = destroyed \cup rows

\* Mutant: the adopted tables are not deleted from.
DeleteScopedOnly ==
    /\ cmd.pc = "delete" /\ cmd.at <= Len(Tables)
    /\ Remove(IF Tables[cmd.at] \in cmd.affected /\ ~IsAdopted(Tables[cmd.at])
              THEN Visible(Tables[cmd.at]) ELSE {})
    /\ cmd' = [cmd EXCEPT !.at = @ + 1]
    /\ UNCHANGED <<tenantAt, born, file, crashes>>

\* The delete loop, over the tables that had rows when they were counted.
Delete ==
    /\ cmd.pc = "delete" /\ cmd.at <= Len(Tables)
    /\ Remove(IF Tables[cmd.at] \in cmd.affected THEN Visible(Tables[cmd.at]) ELSE {})
    /\ cmd' = [cmd EXCEPT !.at = @ + 1]
    /\ UNCHANGED <<tenantAt, born, file, crashes>>

\* The scoped rows of the target on the database of its tenant row.
Referencing == {r \in data : r.tenant = Target /\ r.alias = Default /\ ~IsAdopted(r.table)}

\* Mutant: the command ends without tenant.delete().
DeleteTenantForgotten ==
    /\ cmd.pc = "delete" /\ cmd.at > Len(Tables)
    /\ cmd' = [Idle EXCEPT !.pc = "done"]
    /\ UNCHANGED world

\* tenant.delete(): Django cascades over the scoped rows it can see, and the
\* foreign keys refuse while others still reference the row.
DeleteTenant ==
    /\ cmd.pc = "delete" /\ cmd.at > Len(Tables)
    /\ LET cascade == UNION {Visible(Tables[i]) : i \in DOMAIN Scoped} IN
       IF Referencing \subseteq cascade
       THEN /\ Remove(cascade)
            /\ tenantAt' = tenantAt \ {<<Target, Default>>}
            /\ cmd' = [Idle EXCEPT !.pc = "done"]
       ELSE /\ cmd' = Idle
            /\ UNCHANGED <<data, destroyed, tenantAt>>
    /\ UNCHANGED <<born, file, crashes>>

\* The command is killed, or a query of it fails.
Crash ==
    /\ crashes < MaxCrashes
    /\ cmd.pc \in {"collect", "export", "delete"}
    /\ cmd' = Idle
    /\ crashes' = crashes + 1
    /\ UNCHANGED <<tenantAt, data, born, file, destroyed>>

-----------------------------------------------------------------------------
Init ==
    /\ tenantAt = {}
    /\ data = {}
    /\ born = {}
    /\ file = {}
    /\ cmd = Idle
    /\ destroyed = {}
    /\ crashes = 0

Step == Collect \/ Confirm \/ Export \/ ExportDone \/ Delete \/ DeleteTenant

Next ==
    \/ \E t \in Tenants : Provision(t)
    \/ \E t \in Tenants, a \in Aliases : SaveTenant(t, a)
    \/ \E id \in RowIds, t \in Tenants, table \in TableSet : Insert(id, t, table)
    \/ Begin
    \/ Decline
    \/ Step
    \/ Crash

Spec == Init /\ [][Next]_vars

\* The operator runs the command until it succeeds and in the end confirms;
\* a command that is not killed goes on.
FairSpec == Spec /\ WF_vars(Begin) /\ SF_vars(Confirm) /\ WF_vars(Step)

-----------------------------------------------------------------------------
(* Properties *)

\* The command's cursor stays in the list of tables, the file and the
\* history hold rows, and the crash bound is respected.
TypeOK ==
    /\ tenantAt \subseteq Tenants \X Aliases
    /\ data \subseteq DataRow /\ file \subseteq DataRow /\ destroyed \subseteq DataRow
    /\ born \subseteq RowIds
    /\ cmd \in {Idle, [Idle EXCEPT !.pc = "done"]} \cup
              [pc : {"collect", "export", "delete"}, at : 1..(Len(Tables) + 1),
               affected : SUBSET TableSet]
    /\ crashes \in 0..MaxCrashes

\* No step of the command touches a row of another tenant (the WHERE of the
\* raw deletes, the filters of the unscoped querysets, the cascade).
OthersUntouched == [][\A r \in data : r.tenant # Target => r \in data']_data

\* Nothing that references the tenant survives it: when the tenant row is
\* deleted no row of the target is left on any database (handle(): "so
\* nothing referencing the tenant's primary key survives it").
NothingLeftBehind == cmd.pc = "done" => \A r \in data : r.tenant # Target

\* At no time, a crash included, is there a row of the target without the
\* tenant row the command looks it up by: that row goes last, so the command
\* can be run again.
NoOrphans == \A r \in data : r.tenant = Target => <<Target, Default>> \in tenantAt

\* The export is the operator's only copy of what is destroyed (BR-PRV-004):
\* whatever the command has deleted is in the file.
ExportIsACopy == Exporting => destroyed \subseteq file

\* The export of a command that was not killed tells all: what it deletes,
\* adopted rows and those the cascade of tenant.delete() takes included, is
\* first written to the file; and when it begins to delete, "an empty export
\* file means the tenant had no scoped data" (docs/how-to/
\* provision-and-deprovision-tenants.md).
ExportTellsAll ==
    /\ crashes = 0 => ExportIsACopy
    /\ Exporting /\ cmd.pc = "delete" /\ file = {} => \A r \in data : r.tenant # Target

\* A tenant the command can find is eventually deprovisioned, wherever the
\* earlier runs died.
Completes == (<<Target, Default>> \in tenantAt) ~> (<<Target, Default>> \notin tenantAt)
=============================================================================
