------------------------ MODULE TenantLifecycleProofs ------------------------
(***************************************************************************)
(* Theorems about TenantLifecycle, for any tenants, tables, databases and  *)
(* number of crashes: the command never touches another tenant's rows; and *)
(* for a tenant of the default database, while the application does not    *)
(* write, the tenant row goes last and nothing is left behind.             *)
(***************************************************************************)
EXTENDS TenantLifecycle, TLAPS

-----------------------------------------------------------------------------
(* Tables *)

Last == Len(Tables)

\* Scoped tables come first; the adopted ones are the others.
LEMMA TablesInOrder ==
    /\ Last \in Nat
    /\ DOMAIN Tables = 1..Last
    /\ \A i \in 1..Last : Tables[i] \in TableSet
    /\ \A table \in TableSet : \E i \in 1..Last : Tables[i] = table
    /\ DOMAIN Scoped \subseteq 1..Last
    /\ \A table \in TableSet : ~IsAdopted(table) => \E i \in DOMAIN Scoped : Tables[i] = table
  <1> DEFINE S == {Scoped[i] : i \in DOMAIN Scoped}
             A == {Adopted[i] : i \in DOMAIN Adopted}
  <1>1. Scoped \in Seq(S) /\ Adopted \in Seq(A)
    BY LifecycleAssumption
  <1> HIDE DEF S, A
  <1>2. /\ Last = Len(Scoped) + Len(Adopted)
        /\ Len(Scoped) \in Nat /\ Len(Adopted) \in Nat
        /\ DOMAIN Tables = 1..Last
        /\ DOMAIN Scoped = 1..Len(Scoped) /\ DOMAIN Adopted = 1..Len(Adopted)
    BY <1>1 DEF Tables, Last
  <1>3. \A i \in 1..Last : Tables[i] = IF i <= Len(Scoped) THEN Scoped[i]
                                       ELSE Adopted[i - Len(Scoped)]
    BY <1>1, <1>2 DEF Tables
  <1>4. \A i \in 1..Last : Tables[i] \in TableSet
    BY <1>2 DEF TableSet
  <1>5. \A table \in TableSet : \E i \in 1..Last : Tables[i] = table
    BY <1>2 DEF TableSet
  <1>6. ASSUME NEW i \in 1..Last, ~IsAdopted(Tables[i])
        PROVE  i \in DOMAIN Scoped
    <2>1. CASE i <= Len(Scoped)
      BY <2>1, <1>2
    <2>2. CASE ~(i <= Len(Scoped))
      <3>1. i - Len(Scoped) \in DOMAIN Adopted
        BY <2>2, <1>2
      <3>2. Tables[i] = Adopted[i - Len(Scoped)]
        BY <2>2, <1>3, <1>6
      <3>3. IsAdopted(Tables[i])
        BY <3>1, <3>2 DEF IsAdopted
      <3>4. QED
        BY <1>6, <3>3
    <2>3. QED
      BY <2>1, <2>2
  <1>7. DOMAIN Scoped \subseteq 1..Last
    BY <1>2
  <1>8. \A table \in TableSet : ~IsAdopted(table) => \E i \in DOMAIN Scoped : Tables[i] = table
    BY <1>5, <1>6
  <1>9. QED
    BY <1>2, <1>4, <1>5, <1>7, <1>8

-----------------------------------------------------------------------------
(* Types *)

Running == [pc : {"collect", "export", "delete"}, at : 1..(Last + 1), affected : SUBSET TableSet]
Ended == {Idle, [Idle EXCEPT !.pc = "done"]}

\* Every statement of the command works on rows of the target.
LEMMA VisibleRows ==
    ASSUME NEW table
    PROVE  \A r \in Visible(table) : r \in data /\ r.tenant = Target /\ r.table = table
  BY DEF Visible

\* What a running command's record holds, and its next values.
LEMMA Cursor ==
    ASSUME cmd \in Ended \cup Running
    PROVE  /\ cmd.pc = "idle" => cmd = Idle
           /\ cmd.pc \in {"idle", "done"} => cmd.affected = {}
           /\ cmd.pc \in {"collect", "export", "delete"} =>
                 cmd \in Running /\ cmd.at \in 1..(Last + 1) /\ cmd.affected \subseteq TableSet
           /\ cmd.pc \in {"collect", "export", "delete"} /\ cmd.at <= Last =>
                 cmd.at \in 1..Last /\ cmd.at + 1 \in 1..(Last + 1) /\ Tables[cmd.at] \in TableSet
  BY TablesInOrder DEF Ended, Running, Idle

\* The command goes on to its next table.
LEMMA Advances ==
    ASSUME cmd \in Running, cmd.at <= Last
    PROVE  /\ [cmd EXCEPT !.at = @ + 1] \in Running
           /\ \A affected \in SUBSET TableSet :
                 [cmd EXCEPT !.at = @ + 1, !.affected = affected] \in Running
  <1>1. cmd.at + 1 \in 1..(Last + 1)
    BY TablesInOrder DEF Running
  <1>2. QED
    BY <1>1 DEF Running

\* The command enters its next phase at the first table.
LEMMA Enters ==
    ASSUME cmd \in Running
    PROVE  \A pc \in {"collect", "export", "delete"} :
              [cmd EXCEPT !.pc = pc, !.at = 1] \in Running
  <1>1. 1 \in 1..(Last + 1)
    BY TablesInOrder
  <1>2. QED
    BY <1>1 DEF Running

\* Whatever the interleaving, the command's place is in the list of tables
\* and the file and the history hold rows.
THEOREM LifecycleTypeCorrect == Spec => []TypeOK
  <1>1. Init => TypeOK
    BY LifecycleAssumption DEF Init, TypeOK
  <1>2. TypeOK /\ [Next]_vars => TypeOK'
    <2> SUFFICES ASSUME TypeOK, [Next]_vars PROVE TypeOK'
      OBVIOUS
    <2> DEFINE CmdOK == cmd \in Ended \cup Running
               RowsOK == /\ data \subseteq DataRow /\ file \subseteq DataRow
                         /\ destroyed \subseteq DataRow
               RestOK == /\ tenantAt \subseteq Tenants \X Aliases
                         /\ born \subseteq RowIds /\ crashes \in 0..MaxCrashes
    <2>t. CmdOK /\ RowsOK /\ RestOK
      BY DEF TypeOK, Ended, Running, Last
    <2>q. CmdOK' /\ RowsOK' /\ RestOK' => TypeOK'
      BY DEF TypeOK, Ended, Running, Last
    <2>1. ASSUME NEW t \in Tenants, Provision(t) PROVE TypeOK'
      <3>1. (IF RegionOf[t] \in Regions THEN RegionOf[t] ELSE Default) \in Aliases
        BY LifecycleAssumption
      <3>2. QED
        BY <2>1, <2>t, <2>q, <3>1 DEF Provision
    <2>2. ASSUME NEW t \in Tenants, NEW a \in Aliases, SaveTenant(t, a) PROVE TypeOK'
      BY <2>2, <2>t, <2>q DEF SaveTenant
    <2>3. ASSUME NEW id \in RowIds, NEW t \in Tenants, NEW table \in TableSet,
                 Insert(id, t, table)
          PROVE  TypeOK'
      <3>1. Route(t, table) \in Aliases
        BY LifecycleAssumption DEF Route
      <3>2. [id |-> id, table |-> table, tenant |-> t, alias |-> Route(t, table)] \in DataRow
        BY <3>1 DEF DataRow
      <3>3. QED
        BY <2>3, <2>t, <2>q, <3>2 DEF Insert
    <2>4. CASE Begin
      <3>1. cmd' \in Running
        <4>1. 1 \in 1..(Last + 1)
          BY TablesInOrder
        <4>2. QED
          BY <2>4, <4>1 DEF Begin, Running
      <3>2. QED
        BY <2>4, <2>t, <2>q, <3>1 DEF Begin, world
    <2>5. CASE Decline
      BY <2>5, <2>t, <2>q DEF Decline, Ended, world
    <2>6. CASE Collect
      <3>1. cmd' \in Running
        <4> DEFINE affected == IF Visible(Tables[cmd.at]) = {} THEN cmd.affected
                               ELSE cmd.affected \cup {Tables[cmd.at]}
        <4>1. cmd \in Running /\ cmd.at <= Last /\ affected \in SUBSET TableSet
          BY <2>6, <2>t, Cursor DEF Collect, Last
        <4>2. cmd' = [cmd EXCEPT !.at = @ + 1, !.affected = affected]
          BY <2>6 DEF Collect
        <4> HIDE DEF affected
        <4>3. QED
          BY <4>1, <4>2, Advances
      <3>2. QED
        BY <2>6, <2>t, <2>q, <3>1 DEF Collect, world
    <2>7. CASE Confirm
      <3>1. cmd' \in Running
        BY <2>7, <2>t, Cursor, Enters DEF Confirm
      <3>2. QED
        BY <2>7, <2>t, <2>q, <3>1 DEF Confirm
    <2>8. CASE Export
      <3>1. cmd' \in Running
        <4>1. cmd \in Running /\ cmd.at <= Last
          BY <2>8, <2>t, Cursor DEF Export, Last
        <4>2. QED
          BY <2>8, <4>1, Advances DEF Export
      <3>2. QED
        BY <2>8, <2>t, <2>q, <3>1, VisibleRows DEF Export
    <2>9. CASE ExportDone
      <3>1. cmd' \in Running
        BY <2>9, <2>t, Cursor, Enters DEF ExportDone
      <3>2. QED
        BY <2>9, <2>t, <2>q, <3>1 DEF ExportDone, world
    <2>10. CASE Delete
      <3>1. cmd' \in Running
        <4>1. cmd \in Running /\ cmd.at <= Last
          BY <2>10, <2>t, Cursor DEF Delete, Last
        <4>2. QED
          BY <2>10, <4>1, Advances DEF Delete
      <3>2. QED
        BY <2>10, <2>t, <2>q, <3>1, VisibleRows DEF Delete, Remove
    <2>11. CASE DeleteTenant
      <3>1. cmd' \in Ended
        BY <2>11 DEF DeleteTenant, Ended
      <3>2. QED
        BY <2>11, <2>t, <2>q, <3>1, VisibleRows DEF DeleteTenant, Remove
    <2>12. CASE Crash
      <3>1. crashes + 1 \in 0..MaxCrashes
        BY <2>12, <2>t, LifecycleAssumption DEF Crash
      <3>2. QED
        BY <2>12, <2>t, <2>q, <3>1 DEF Crash, Ended
    <2>13. CASE UNCHANGED vars
      BY <2>13, <2>t, <2>q DEF vars
    <2>14. QED
      BY <2>1, <2>2, <2>3, <2>4, <2>5, <2>6, <2>7, <2>8, <2>9, <2>10, <2>11, <2>12, <2>13
      DEF Next, Step
  <1>3. QED
    BY <1>1, <1>2, PTL DEF Spec

-----------------------------------------------------------------------------
(* Other tenants *)

\* No step takes a row of another tenant away, whoever writes or dies
\* meanwhile.
THEOREM OthersAreUntouched == Spec => OthersUntouched
  <1> DEFINE Kept == \A r \in data : r.tenant # Target => r \in data'
  <1>1. [Next]_vars => [Kept]_data
    <2> SUFFICES ASSUME [Next]_vars, data' # data PROVE Kept
      OBVIOUS
    <2>1. ASSUME NEW id \in RowIds, NEW t \in Tenants, NEW table \in TableSet,
                 Insert(id, t, table)
          PROVE  Kept
      BY <2>1 DEF Insert
    <2>2. CASE Delete
      BY <2>2, VisibleRows DEF Delete, Remove
    <2>3. CASE DeleteTenant
      BY <2>3, VisibleRows DEF DeleteTenant, Remove
    <2>4. QED
      BY <2>1, <2>2, <2>3 DEF Next, Step, Provision, SaveTenant, Begin, Decline, Collect,
         Confirm, Export, ExportDone, Crash, world, vars
  <1>2. QED
    BY <1>1, PTL DEF Spec, OthersUntouched

-----------------------------------------------------------------------------
(* The target's rows *)

\* The target is a tenant of the default database, and the application does
\* not write while the command runs.
Quiet == RegionOf[Target] \notin Regions /\ ~Concurrent

Mine == {r \in data : r.tenant = Target}
In(table) == {r \in Mine : r.table = table}

\* The command counted, or need not have counted, the table.
Counted(table) == IsAdopted(table) => In(table) = {} \/ table \in cmd.affected

\* All rows of the target are on the database the command looks at; what it
\* has passed over while counting has no rows, as long as it has not deleted
\* them, and what it has passed while deleting has none; and the tenant row
\* is there for as long as any row is.
IInv ==
    /\ TypeOK
    /\ \A r \in Mine : r.alias = Default /\ <<Target, Default>> \in tenantAt
    /\ cmd.pc = "collect" => \A i \in 1..Last : i < cmd.at => Counted(Tables[i])
    /\ cmd.pc \in {"export", "delete"} => \A i \in 1..Last : Counted(Tables[i])
    /\ cmd.pc = "delete" =>
          \A i \in 1..Last : i < cmd.at /\ IsAdopted(Tables[i]) => In(Tables[i]) = {}
    /\ cmd.pc = "done" => Mine = {}

\* The command sees all of the target's rows in an adopted table.
LEMMA Sees ==
    ASSUME IInv, NEW table \in TableSet, IsAdopted(table)
    PROVE  Visible(table) = In(table)
  BY DEF IInv, Visible, In, Mine

\* Counting, deleting and everything else but a new row leave no table with
\* uncounted rows.
LEMMA FewerRows ==
    ASSUME data' \subseteq data
    PROVE  /\ Mine' \subseteq Mine
           /\ \A table : In(table)' \subseteq In(table)
           /\ \A table : cmd.affected \subseteq cmd.affected' /\ Counted(table) => Counted(table)'
  BY DEF Mine, In, Counted

LEMMA IInvInit == Init => IInv
  BY LifecycleAssumption DEF Init, IInv, TypeOK, Idle, Mine

LEMMA IInvStep ==
    ASSUME Quiet, IInv, TypeOK', [Next]_vars
    PROVE  IInv'
  <1> DEFINE HomeOK == \A r \in Mine : r.alias = Default /\ <<Target, Default>> \in tenantAt
             CollectOK == cmd.pc = "collect" => \A i \in 1..Last : i < cmd.at => Counted(Tables[i])
             CountedOK == cmd.pc \in {"export", "delete"} => \A i \in 1..Last : Counted(Tables[i])
             DeleteOK == cmd.pc = "delete" =>
                            \A i \in 1..Last : i < cmd.at /\ IsAdopted(Tables[i]) => In(Tables[i]) = {}
             DoneOK == cmd.pc = "done" => Mine = {}
  <1>i. HomeOK /\ CollectOK /\ CountedOK /\ DeleteOK /\ DoneOK
    BY DEF IInv
  <1>q. HomeOK' /\ CollectOK' /\ CountedOK' /\ DeleteOK' /\ DoneOK' => IInv'
    BY DEF IInv, Last
  <1>c. /\ cmd.pc \in {"collect", "export", "delete"} => cmd \in Running /\ cmd.at \in 1..(Last + 1)
        /\ cmd.pc \in {"collect", "export", "delete"} /\ cmd.at <= Last => Tables[cmd.at] \in TableSet
        /\ Last \in Nat /\ \A i \in 1..Last : Tables[i] \in TableSet
        /\ Last' = Last /\ TableSet' = TableSet
    <2>1. cmd \in Ended \cup Running
      BY DEF IInv, TypeOK, Ended, Running, Last
    <2>2. QED
      BY <2>1, Cursor, TablesInOrder DEF Last, TableSet
  \* A command that is not running restricts nothing.
  <1>e. data' \subseteq data /\ cmd' = Idle /\ HomeOK' => IInv'
    BY <1>q DEF Idle
  <1>1. ASSUME NEW t \in Tenants, Provision(t) PROVE IInv'
    <2>1. data' = data /\ cmd' = cmd /\ tenantAt \subseteq tenantAt'
      BY <1>1 DEF Provision
    <2>2. QED
      BY <1>i, <1>q, <2>1, <1>1 DEF Provision, Mine, In, Counted, Idle
  <1>2. ASSUME NEW t \in Tenants, NEW a \in Aliases, SaveTenant(t, a) PROVE IInv'
    <2>1. data' = data /\ cmd' = cmd /\ tenantAt \subseteq tenantAt'
      BY <1>2 DEF SaveTenant
    <2>2. QED
      BY <1>i, <1>q, <2>1, <1>2 DEF SaveTenant, Mine, In, Counted, Idle
  <1>3. ASSUME NEW id \in RowIds, NEW t \in Tenants, NEW table \in TableSet, Insert(id, t, table)
        PROVE  IInv'
    <2> DEFINE new == [id |-> id, table |-> table, tenant |-> t, alias |-> Route(t, table)]
    <2>1. /\ cmd = Idle /\ cmd' = Idle /\ tenantAt' = tenantAt
          /\ data' = data \cup {new} /\ <<t, Default>> \in tenantAt
      BY <1>3 DEF Insert, Quiet
    <2>2. t = Target => new.alias = Default
      BY DEF Route, Quiet
    <2>3. HomeOK'
      BY <2>1, <2>2, <1>i DEF Mine
    <2>4. QED
      BY <2>1, <2>3, <1>q DEF Idle
  <1>4. CASE Begin
    BY <1>4, <1>i, <1>q DEF Begin, world, Mine
  <1>5. CASE Decline
    BY <1>5, <1>i, <1>e DEF Decline, world, Mine
  <1>6. CASE Collect
    <2>1. /\ cmd.pc = "collect" /\ cmd.at <= Last /\ cmd'.pc = "collect" /\ cmd'.at = cmd.at + 1
          /\ cmd.affected \subseteq cmd'.affected
          /\ Visible(Tables[cmd.at]) # {} => Tables[cmd.at] \in cmd'.affected
          /\ data' = data /\ tenantAt' = tenantAt
      BY <1>6, <1>c DEF Collect, world, Running, Last
    <2> PICK n \in 1..Last : n = cmd.at
      BY <2>1, <1>c
    <2>2. Counted(Tables[n])'
      BY <2>1, <1>c, Sees DEF Counted, In, Mine
    <2>3. \A i \in 1..Last : i < cmd.at => Counted(Tables[i])'
      BY <2>1, <1>i, FewerRows
    <2>4. CollectOK'
      BY <2>1, <2>2, <2>3, <1>c
    <2>5. QED
      BY <2>1, <2>4, <1>i, <1>q DEF Mine
  <1>7. CASE Confirm
    <2>1. /\ cmd.pc = "collect" /\ cmd.at > Last /\ cmd'.pc \in {"export", "delete"} /\ cmd'.at = 1
          /\ cmd'.affected = cmd.affected /\ data' = data /\ tenantAt' = tenantAt
      BY <1>7, <1>c DEF Confirm, Running, Last
    <2>2. \A i \in 1..Last : Counted(Tables[i])'
      BY <2>1, <1>i, <1>c, FewerRows
    <2>3. QED
      BY <2>1, <2>2, <1>i, <1>q, <1>c DEF Mine
  <1>8. CASE Export
    <2>1. /\ cmd.pc = "export" /\ cmd'.pc = "export"
          /\ cmd'.affected = cmd.affected /\ data' = data /\ tenantAt' = tenantAt
      BY <1>8, <1>c DEF Export, Running
    <2>2. \A i \in 1..Last : Counted(Tables[i])'
      BY <2>1, <1>i, FewerRows
    <2>3. QED
      BY <2>1, <2>2, <1>i, <1>q, <1>c DEF Mine
  <1>9. CASE ExportDone
    <2>1. /\ cmd.pc = "export" /\ cmd'.pc = "delete" /\ cmd'.at = 1
          /\ cmd'.affected = cmd.affected /\ data' = data /\ tenantAt' = tenantAt
      BY <1>9, <1>c DEF ExportDone, Running, world
    <2>2. \A i \in 1..Last : Counted(Tables[i])'
      BY <2>1, <1>i, FewerRows
    <2>3. QED
      BY <2>1, <2>2, <1>i, <1>q, <1>c DEF Mine
  <1>10. CASE Delete
    <2> DEFINE rows == IF Tables[cmd.at] \in cmd.affected THEN Visible(Tables[cmd.at]) ELSE {}
    <2>1. /\ cmd.pc = "delete" /\ cmd.at <= Last /\ cmd'.pc = "delete" /\ cmd'.at = cmd.at + 1
          /\ cmd'.affected = cmd.affected
          /\ data' = data \ rows /\ tenantAt' = tenantAt
      BY <1>10, <1>c DEF Delete, Remove, Running, Last
    <2>2. \A i \in 1..Last : Counted(Tables[i])'
      BY <2>1, <1>i, FewerRows
    <2> PICK n \in 1..Last : n = cmd.at
      BY <2>1, <1>c
    <2>3. IsAdopted(Tables[n]) => In(Tables[n])' = {}
      <3>1. CASE Tables[n] \in cmd.affected
        BY <3>1, <2>1, <1>c, Sees DEF In, Mine
      <3>2. CASE Tables[n] \notin cmd.affected
        BY <3>2, <2>1, <1>i, <1>c, FewerRows DEF Counted
      <3>3. QED
        BY <3>1, <3>2
    <2>4. \A i \in 1..Last : i < cmd.at /\ IsAdopted(Tables[i]) => In(Tables[i])' = {}
      BY <2>1, <1>i, FewerRows
    <2>5. DeleteOK'
      BY <2>1, <2>3, <2>4, <1>c
    <2>6. QED
      BY <2>1, <2>2, <2>5, <1>i, <1>q DEF Mine
  <1>11. CASE DeleteTenant
    <2> DEFINE cascade == UNION {Visible(Tables[i]) : i \in DOMAIN Scoped}
    <2>1. cmd.pc = "delete" /\ cmd.at > Last
      BY <1>11 DEF DeleteTenant, Last
    <2>2. CASE Referencing \subseteq cascade
      <3>1. data' = data \ cascade /\ cmd' = [Idle EXCEPT !.pc = "done"]
        BY <1>11, <2>2 DEF DeleteTenant, Remove
      <3>2. ASSUME NEW r \in Mine PROVE r \in cascade
        <4>1. r \in data /\ r.tenant = Target /\ r.alias = Default /\ r.table \in TableSet
          BY <1>i DEF Mine, IInv, TypeOK, DataRow
        <4>2. PICK i \in 1..Last : Tables[i] = r.table
          BY <4>1, TablesInOrder
        <4>3. ~IsAdopted(r.table)
          BY <4>1, <4>2, <2>1, <1>i, <1>c DEF In
        <4>4. QED
          BY <4>1, <4>3, <2>2 DEF Referencing
      <3>3. Mine' = {}
        BY <3>1, <3>2 DEF Mine
      <3>4. QED
        BY <3>1, <3>3, <1>q DEF Idle
    <2>3. CASE ~(Referencing \subseteq cascade)
      BY <1>11, <2>3, <1>i, <1>e DEF DeleteTenant, Mine
    <2>4. QED
      BY <2>2, <2>3
  <1>12. CASE Crash
    BY <1>12, <1>i, <1>e DEF Crash, Mine
  <1>13. CASE UNCHANGED vars
    BY <1>13, <1>i, <1>q DEF vars, Mine, In, Counted
  <1>14. QED
    BY <1>1, <1>2, <1>3, <1>4, <1>5, <1>6, <1>7, <1>8, <1>9, <1>10, <1>11, <1>12, <1>13
    DEF Next, Step

LEMMA Invariance == ASSUME Quiet PROVE Spec => []IInv
  <1>1. IInv /\ TypeOK' /\ [Next]_vars => IInv'
    BY IInvStep
  <1>2. QED
    BY <1>1, IInvInit, LifecycleTypeCorrect, PTL DEF Spec

\* The tenant row goes last: at no time, wherever the command died, is there
\* a row of the target that no further run of the command could find.
THEOREM TenantGoesLast == ASSUME Quiet PROVE Spec => []NoOrphans
  <1>1. IInv => NoOrphans
    BY DEF IInv, NoOrphans, Mine
  <1>2. QED
    BY <1>1, Invariance, PTL

\* A command that ends leaves nothing of the target behind, adopted rows,
\* which no foreign key would protect, included.
THEOREM NothingIsLeftBehind == ASSUME Quiet PROVE Spec => []NothingLeftBehind
  <1>1. IInv => NothingLeftBehind
    BY DEF IInv, NothingLeftBehind, Mine
  <1>2. QED
    BY <1>1, Invariance, PTL
=============================================================================
