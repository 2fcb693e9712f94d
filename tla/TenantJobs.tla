------------------------------ MODULE TenantJobs ------------------------------
(***************************************************************************)
(* Work that leaves its process: Celery tasks (boundary/celery.py), whose  *)
(* tenant travels in a message header, and boundary_run_all, which runs a  *)
(* command for every active tenant, one after the other or in a pool.      *)
(*                                                                         *)
(* A message may be delivered late, twice or, with the worker it was       *)
(* delivered to, be lost; meanwhile tenants are committed, rolled back,    *)
(* deactivated and deleted. Tasks retry, dispatch further tasks and open   *)
(* scopes of other tenants; so does the command that boundary_run_all      *)
(* runs. What a scope does to a worker's connections is TenantContext's    *)
(* matter: here it sets the active tenant and its end brings the last back.*)
(***************************************************************************)
EXTENDS Naturals, Sequences, FiniteSets

CONSTANTS
    Tenants, None,
    Workers,        \* Celery worker processes
    Main,           \* the process of boundary_run_all
    Runners,        \* the processes of its pool
    JobIds,         \* bound: tasks dispatched, in this order
    MaxRetries,     \* the tasks' max_retries
    MaxCopies,      \* bound: messages delivered a second time
    Decorated,      \* @tenant_task and autoretry_for, not TenantTask: what
                    \* sends them is stamped by a before_task_publish signal,
                    \* as the docs ask, which calls _get_tenant_headers()
    SharedHeaders,  \* callers pass one and the same headers dictionary
    RetryNested,    \* self.retry() is also called inside a nested scope
    Chained,        \* tasks have a successor, sent when they have finished
    Fork            \* the pool forks, after Main has queried the tenants: its
                    \* processes share Main's open connection

ASSUME JobsAssumption ==
    /\ None \notin Tenants /\ "unused" \notin Tenants \cup {None}
    /\ MaxRetries \in Nat /\ MaxCopies \in Nat
    /\ Runners # {} /\ Workers # {} /\ JobIds \subseteq Nat
    /\ Main \notin Runners

VARIABLES
    rows,     \* state of each tenant's row
    queue,    \* messages
    given,    \* the tenant header in the callers' shared dictionary
    work,     \* what each Celery worker does
    cmd,      \* the command: selected tenants to do, and results
    run,      \* the tenant each of its processes is busy with
    sess,     \* the session variable of each connection of theirs
    origin,   \* history: in whose scope each task was first dispatched
    ran,      \* history: the tenants the command was run for
    copies

jobs == <<queue, given, work, origin, copies>>
command == <<cmd, run, sess, ran>>
vars == <<rows, jobs, command>>

-----------------------------------------------------------------------------
Scope == Tenants \cup {None}
Unused == "unused"

\* "pending" is inserted in a transaction that is still open.
Found(t) == rows[t] \in {"active", "inactive"}

Message == [job : JobIds, header : Scope, tries : 0..MaxRetries]

\* A worker in a task: the message, and the scopes open in it.
Idle == [pc |-> "idle"]
Running(m, scopes) == [pc |-> "body", msg |-> m, scopes |-> scopes]
Busy(w) == work[w].pc = "body"
Scopes(w) == work[w].scopes
Active(w) == Scopes(w)[Len(Scopes(w))]

Processes == Runners \cup {Main}
Session(r) == IF Fork THEN Main ELSE r

-----------------------------------------------------------------------------
(* Tenants come and go *)

TenantStep(t) ==
    /\ \/ rows[t] = "pending"  /\ rows' = [rows EXCEPT ![t] = "active"]
       \/ rows[t] = "pending"  /\ rows' = [rows EXCEPT ![t] = "gone"]
       \/ rows[t] = "active"   /\ rows' = [rows EXCEPT ![t] = "inactive"]
       \/ rows[t] = "inactive" /\ rows' = [rows EXCEPT ![t] = "gone"]
    /\ UNCHANGED <<jobs, command>>

-----------------------------------------------------------------------------
(* Dispatch *)

\* TenantTask.apply_async() on headers that may hold a tenant: the active
\* one is put in its place, and without an active tenant nothing is.
Header(headers, t) == IF t # None THEN t ELSE headers

\* A task is sent from a scope of t. A header is put in by apply_async() of
\* TenantTask; other tasks need the signal.
Send(j, t) ==
    LET h == Header(given, t) IN
    /\ origin[j] = Unused /\ \A k \in JobIds : k < j => origin[k] # Unused
    /\ origin' = [origin EXCEPT ![j] = t]
    /\ queue' = queue \cup {[job |-> j, header |-> h, tries |-> 0]}
    /\ given' = IF SharedHeaders THEN h ELSE None

\* By a request, possibly the one whose transaction creates the tenant.
Dispatch(j, t) ==
    /\ t # None => rows[t] # "gone"
    /\ Send(j, t)
    /\ UNCHANGED <<rows, work, copies, command>>

-----------------------------------------------------------------------------
(* Celery workers *)

\* The broker delivers a message, and possibly keeps it for a second time.
Delivered(m) ==
    \/ queue' = queue \ {m} /\ UNCHANGED copies
    \/ copies < MaxCopies /\ copies' = copies + 1 /\ UNCHANGED queue

\* TenantTask.__call__ or @tenant_task: _restore_tenant_context() loads the
\* tenant, active or not, and the body begins in its scope, or in none.
Start(w, m) ==
    /\ work[w] = Idle /\ m \in queue
    /\ m.header # None => Found(m.header)
    /\ Delivered(m)
    /\ work' = [work EXCEPT ![w] = Running(m, <<m.header>>)]
    /\ UNCHANGED <<rows, given, origin, command>>

\* Mutant: the task is put back as it was.
NotFoundKept(w, m) ==
    /\ work[w] = Idle /\ m \in queue
    /\ m.header # None /\ ~Found(m.header)
    /\ UNCHANGED vars

\* The tenant is not there: TenantNotFoundError. In TenantTask.__call__ it is
\* raised outside run(), which is all that autoretry_for wraps; @tenant_task
\* raises it inside.
NotFound(w, m) ==
    /\ work[w] = Idle /\ m \in queue
    /\ m.header # None /\ ~Found(m.header)
    /\ queue' = (queue \ {m}) \cup
                IF Decorated /\ m.tries < MaxRetries THEN {[m EXCEPT !.tries = @ + 1]} ELSE {}
    /\ UNCHANGED <<rows, given, work, origin, copies, command>>

\* TenantContext.using(t) in the body, and its end.
Nest(w, t) ==
    /\ Busy(w) /\ Len(Scopes(w)) < 2
    /\ work' = [work EXCEPT ![w].scopes = Append(@, t)]
    /\ UNCHANGED <<rows, queue, given, origin, copies, command>>

Unnest(w) ==
    /\ Busy(w) /\ Len(Scopes(w)) = 2
    /\ work' = [work EXCEPT ![w].scopes = <<@[1]>>]
    /\ UNCHANGED <<rows, queue, given, origin, copies, command>>

\* The body dispatches a task of its own.
Subtask(w, j) ==
    /\ Busy(w)
    /\ Send(j, Active(w))
    /\ UNCHANGED <<rows, work, copies, command>>

\* Mutants: the retry has no limit; it is sent without the headers, after
\* clear(token).
RetryUnlimited(w) ==
    /\ Busy(w) /\ Len(Scopes(w)) = 1
    /\ queue' = queue \cup {[work[w].msg EXCEPT !.header = Header(@, Active(w)), !.tries = @ + 1]}
    /\ work' = [work EXCEPT ![w] = Idle]
    /\ UNCHANGED <<rows, given, origin, copies, command>>
RetryAfterClear(w) ==
    /\ Busy(w) /\ Len(Scopes(w)) = 1
    /\ work[w].msg.tries < MaxRetries
    /\ queue' = queue \cup {[work[w].msg EXCEPT !.header = Header(None, None), !.tries = @ + 1]}
    /\ work' = [work EXCEPT ![w] = Idle]
    /\ UNCHANGED <<rows, given, origin, copies, command>>

\* self.retry(): the message is sent again through apply_async(), with the
\* headers it came with, from inside the task's scope.
Retry(w) ==
    /\ Busy(w) /\ (RetryNested \/ Len(Scopes(w)) = 1)
    /\ work[w].msg.tries < MaxRetries
    /\ queue' = queue \cup {[work[w].msg EXCEPT !.header = Header(@, Active(w)), !.tries = @ + 1]}
    /\ work' = [work EXCEPT ![w] = Idle]
    /\ UNCHANGED <<rows, given, origin, copies, command>>

\* The body returns or raises: clear(token). A successor is sent by the
\* worker after that, when no tenant is active.
Finish(w) ==
    /\ Busy(w) /\ Len(Scopes(w)) = 1
    /\ work' = [work EXCEPT ![w] = Idle]
    /\ LET next == {j \in JobIds : Chained /\ origin[j] = Unused} IN
       IF next = {} THEN UNCHANGED <<queue, origin>>
       ELSE LET j == CHOOSE k \in next : TRUE IN
            /\ origin' = [origin EXCEPT ![j] = origin[work[w].msg.job]]
            /\ queue' = queue \cup {[job |-> j, header |-> Header(None, None), tries |-> 0]}
    /\ UNCHANGED <<rows, given, copies, command>>

\* The worker dies. The message was acknowledged, and reject_on_worker_lost
\* is False: it is not delivered again.
Crash(w) ==
    /\ Busy(w)
    /\ work' = [work EXCEPT ![w] = Idle]
    /\ UNCHANGED <<rows, queue, given, origin, copies, command>>

-----------------------------------------------------------------------------
(* boundary_run_all *)

NoResult == [t \in Tenants |-> "none"]

\* handle(): the keys of the active tenants, for a pool or, without
\* --parallel, for a loop. Without any there is nothing to do.
Select ==
    /\ cmd.pc = "idle"
    /\ LET todo == {t \in Tenants : rows[t] = "active"} IN
       \E way \in {"loop", "pool"} :
          cmd' = [pc |-> IF todo = {} THEN "done" ELSE way, selected |-> todo,
                  todo |-> todo, results |-> NoResult]
    /\ UNCHANGED <<rows, jobs, run, sess, ran>>

\* The processes the tenants are given to.
Working == CASE cmd.pc = "loop" -> {Main} [] cmd.pc = "pool" -> Runners [] OTHER -> {}

\* Mutant: the tenant is looked up among the active ones, like the list.
BeginTenantActive(r, t) ==
    /\ r \in Working /\ run[r] = None /\ t \in cmd.todo
    /\ IF rows[t] = "active"
       THEN /\ cmd' = [cmd EXCEPT !.todo = @ \ {t}]
            /\ run' = [run EXCEPT ![r] = t]
            /\ sess' = [sess EXCEPT ![Session(r)] = t]
            /\ ran' = ran \cup {t}
       ELSE /\ cmd' = [cmd EXCEPT !.todo = @ \ {t}, !.results[t] = "not found"]
            /\ UNCHANGED <<run, sess, ran>>
    /\ UNCHANGED <<rows, jobs>>

\* _run_for_tenant(), or a turn of the loop of _run_sequential(): the tenant
\* is loaded, active or not, and the command runs in using(); a tenant that
\* is gone has its own result.
BeginTenant(r, t) ==
    /\ r \in Working /\ run[r] = None /\ t \in cmd.todo
    /\ IF Found(t)
       THEN /\ cmd' = [cmd EXCEPT !.todo = @ \ {t}]
            /\ run' = [run EXCEPT ![r] = t]
            /\ sess' = [sess EXCEPT ![Session(r)] = t]
            /\ ran' = ran \cup {t}
       ELSE /\ cmd' = [cmd EXCEPT !.todo = @ \ {t}, !.results[t] = "not found"]
            /\ UNCHANGED <<run, sess, ran>>
    /\ UNCHANGED <<rows, jobs>>

\* The command dispatches a task.
CommandSends(r, j) ==
    /\ run[r] # None
    /\ Send(j, run[r])
    /\ UNCHANGED <<rows, work, copies, command>>

\* The command ends or raises an Exception, which is a result as well;
\* using() clears the session variable.
EndTenant(r) ==
    /\ run[r] # None
    /\ cmd' = [cmd EXCEPT !.results[run[r]] = "ran"]
    /\ run' = [run EXCEPT ![r] = None]
    /\ sess' = [sess EXCEPT ![Session(r)] = None]
    /\ UNCHANGED <<rows, jobs, ran>>

\* Process r ends while busy. The loop ends with it: what was to do and the
\* results so far are gone, and nothing is printed. The pool starts another
\* process, but the call the old one was busy with is forgotten.
Lost(r) ==
    /\ run[r] # None
    /\ cmd' = IF cmd.pc = "pool" THEN cmd
              ELSE [cmd EXCEPT !.pc = "aborted", !.todo = {}, !.results = NoResult]
    /\ run' = [run EXCEPT ![r] = None]
    /\ UNCHANGED <<rows, queue, given, work, origin, copies, ran>>

\* The command ends in SystemExit, which is no Exception: using() clears the
\* session variable on its way out of the loop or of the pool's process.
Exit(r) ==
    /\ Lost(r)
    /\ sess' = [sess EXCEPT ![Session(r)] = None]

\* The process is killed. Its connection goes with it, unless others have it.
Kill(r) ==
    /\ Lost(r)
    /\ sess' = IF Fork /\ r # Main THEN sess ELSE [sess EXCEPT ![Session(r)] = None]

\* The tenants whose call was forgotten.
Forgotten ==
    {t \in cmd.selected \ cmd.todo : cmd.results[t] = "none" /\ \A r \in Processes : run[r] # t}

\* The loop is through; starmap() returns when every call has returned.
EndCommand ==
    /\ cmd.pc \in {"loop", "pool"}
    /\ \A t \in cmd.selected : cmd.results[t] # "none"
    /\ cmd' = [cmd EXCEPT !.pc = "done"]
    /\ UNCHANGED <<rows, jobs, run, sess, ran>>

-----------------------------------------------------------------------------
Init ==
    /\ rows \in [Tenants -> {"pending", "active"}]
    /\ queue = {}
    /\ given = None
    /\ work = [w \in Workers |-> Idle]
    /\ cmd = [pc |-> "idle", selected |-> {}, todo |-> {}, results |-> NoResult]
    /\ run = [r \in Processes |-> None]
    /\ sess = [s \in {Session(r) : r \in Processes} |-> None]
    /\ origin = [j \in JobIds |-> Unused]
    /\ ran = {}
    /\ copies = 0

Next ==
    \/ \E t \in Tenants : TenantStep(t)
    \/ \E j \in JobIds, t \in Scope : Dispatch(j, t)
    \/ \E w \in Workers, m \in queue : Start(w, m)
    \/ \E w \in Workers, m \in queue : NotFound(w, m)
    \/ \E w \in Workers, t \in Scope : Nest(w, t)
    \/ \E w \in Workers : Unnest(w)
    \/ \E w \in Workers, j \in JobIds : Subtask(w, j)
    \/ \E w \in Workers : Retry(w)
    \/ \E w \in Workers : Finish(w)
    \/ \E w \in Workers : Crash(w)
    \/ Select
    \/ \E r \in Processes, t \in Tenants : BeginTenant(r, t)
    \/ \E r \in Processes, j \in JobIds : CommandSends(r, j)
    \/ \E r \in Processes : EndTenant(r)
    \/ \E r \in Processes : Exit(r)
    \/ \E r \in Processes : Kill(r)
    \/ EndCommand

Spec == Init /\ [][Next]_vars

\* The command goes on while it can: some process of its does.
CommandGoesOn ==
    \/ Select
    \/ \E r \in Processes : EndTenant(r) \/ \E t \in Tenants : BeginTenant(r, t)
    \/ EndCommand

\* Workers take messages and tasks end, and the command goes on. Nothing has
\* to be dispatched, retried or committed.
FairSpec ==
    /\ Spec
    /\ \A w \in Workers : /\ WF_vars(\E m \in queue : Start(w, m) \/ NotFound(w, m))
                          /\ WF_vars(Unnest(w)) /\ SF_vars(Finish(w))
    /\ WF_vars(CommandGoesOn)

-----------------------------------------------------------------------------
(* Properties *)

Cmd == [pc : {"idle", "loop", "pool", "done", "aborted"}, selected : SUBSET Tenants,
        todo : SUBSET Tenants, results : [Tenants -> {"none", "ran", "not found"}]]

\* The variables have their types.
TypeOK ==
    /\ rows \in [Tenants -> {"pending", "active", "inactive", "gone"}]
    /\ queue \subseteq Message
    /\ given \in Scope
    /\ work \in [Workers -> {Idle} \cup [pc : {"body"}, msg : Message, scopes : Seq(Scope)]]
    /\ \A w \in Workers : Busy(w) => Len(Scopes(w)) \in 1..2
    /\ cmd \in Cmd
    /\ run \in [Processes -> Scope]
    /\ sess \in [{Session(r) : r \in Processes} -> Scope]
    /\ origin \in [JobIds -> Scope \cup {Unused}]
    /\ ran \subseteq Tenants
    /\ copies \in 0..MaxCopies

\* A task runs in the scope of the tenant it was dispatched for, and one that
\* was dispatched for none in no tenant's scope: after retries, repeated and
\* late deliveries, and whatever the worker did before. A tenant that is not
\* found has no body run for it (docs/how-to/
\* run-celery-tasks-with-tenant-context.md: "under the same tenant that
\* dispatched them").
RunsForItsTenant == \A w \in Workers : Busy(w) => Scopes(w)[1] = origin[work[w].msg.job]

\* What boundary_run_all prints is true of tenants that are deactivated and
\* deleted while it runs: no two processes work for one tenant, each selected
\* tenant has one result, it was worked for if the result is not "not found",
\* and if it is, its row is gone and nothing was done in its name.
ReportIsTrue ==
    /\ \A r, s \in Processes : r # s /\ run[r] # None => run[r] # run[s]
    /\ cmd.pc = "done" =>
          \A t \in Tenants : /\ t \in cmd.selected <=> cmd.results[t] # "none"
                             /\ t \in ran <=> cmd.results[t] = "ran"
                             /\ cmd.results[t] = "not found" => rows[t] = "gone"

\* docs/how-to/cross-tenant-admin-operations.md: "each inside its own tenant
\* context". The variable of a shared connection is the last one set.
CommandIsPerTenant == \A r \in Processes : run[r] # None => sess[Session(r)] = run[r]

Quiet == queue = {} /\ \A w \in Workers : work[w] = Idle

\* Every message is eventually dealt with, retries and repeats included, and
\* the command ends, unless its pool has forgotten a call; every other tenant
\* then has its result. Tenants disappear meanwhile, and workers die.
Settles ==
    <>[](Quiet /\ \/ cmd.pc \in {"done", "aborted"}
                  \/ Forgotten # {} /\ \A t \in cmd.selected \ Forgotten : cmd.results[t] # "none")

\* docs/how-to/cross-tenant-admin-operations.md: "A failure in one tenant does
\* not abort the run". A killed process and SystemExit do.
CommandEnds == <>(cmd.pc = "done")

\* TenantTask's docstring: "TenantNotFoundError is excluded from
\* autoretry_for (BR-CEL-003)". Nothing in the code does so for @tenant_task.
GoneIsNotRetried ==
    [][\A w \in Workers, m \in queue : NotFound(w, m) =>
          \A n \in queue' \ queue : n.job # m.job]_vars
-----------------------------------------------------------------------------
(* What the proofs of these properties rest on *)

\* Callers do not share a headers dictionary, and messages are only sent from
\* the scope they are for.
Separate == ~SharedHeaders /\ ~RetryNested /\ ~Chained

\* Every message in the queue or at a worker names the tenant it was first
\* dispatched for, and so does the scope the worker opened for it.
HeadersTellTheOrigin ==
    /\ given = None
    /\ \A m \in queue : m.header = origin[m.job]
    /\ \A w \in Workers : Busy(w) =>
          /\ work[w].msg.header = origin[work[w].msg.job]
          /\ Scopes(w)[1] = work[w].msg.header

\* A selected tenant is yet to do, being done, forgotten, or has its result;
\* its row has been committed.
BooksBalance ==
    /\ cmd.todo \cup ran \subseteq cmd.selected
    /\ \A t \in cmd.todo : t \notin ran
    /\ \A t \in Tenants : /\ cmd.results[t] # "none" => t \in cmd.selected \ cmd.todo
                          /\ cmd.results[t] = "ran" => t \in ran
                          /\ cmd.results[t] = "not found" => t \notin ran /\ rows[t] = "gone"
                          /\ t \in cmd.selected => rows[t] # "pending"
    /\ \A r \in Processes : run[r] # None => run[r] \in ran /\ cmd.results[run[r]] = "none"
    /\ \A r, s \in Processes : r # s /\ run[r] # None => run[r] # run[s]
    /\ cmd.pc = "idle" => cmd.selected = {}
    /\ cmd.pc = "done" => \A t \in cmd.selected : cmd.results[t] # "none"
===============================================================================
