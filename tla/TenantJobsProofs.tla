--------------------------- MODULE TenantJobsProofs ---------------------------
(***************************************************************************)
(* Theorems about TenantJobs: for any tenants, workers, pools, bounds and  *)
(* settings its state is well typed; tasks run for the tenant that         *)
(* dispatched them unless callers share headers or send from other scopes; *)
(* and what boundary_run_all reports is true.                              *)
(***************************************************************************)
EXTENDS TenantJobs, TLAPS

-----------------------------------------------------------------------------
(* Types *)

\* What a worker in a task holds.
InTask == [pc : {"body"}, msg : Message, scopes : Seq(Scope)]

\* Building and changing messages.
LEMMA Messages ==
    /\ \A j \in JobIds, h \in Scope :
          LET n == [job |-> j, header |-> h, tries |-> 0] IN
          n \in Message /\ n.job = j /\ n.header = h
    /\ \A m \in Message : m.job \in JobIds /\ m.header \in Scope /\ m.tries \in 0..MaxRetries
  BY JobsAssumption DEF Message

LEMMA Resent ==
    ASSUME NEW m \in Message, m.tries < MaxRetries, NEW h \in Scope
    PROVE  /\ LET n == [m EXCEPT !.header = h, !.tries = m.tries + 1] IN
              n \in Message /\ n.job = m.job /\ n.header = h
           /\ LET n == [m EXCEPT !.tries = m.tries + 1] IN
              n \in Message /\ n.job = m.job /\ n.header = m.header
  <1>1. m.tries + 1 \in 0..MaxRetries
    BY JobsAssumption, SMT DEF Message
  <1>2. QED
    BY <1>1 DEF Message

\* A header is a tenant or none, and is the sender's unless a shared
\* dictionary still names another one.
LEMMA Headers ==
    ASSUME NEW h \in Scope, NEW t \in Scope
    PROVE  /\ Header(h, t) \in Scope
           /\ h = None => Header(h, t) = t
  BY DEF Header, Scope

\* A worker is idle or in a task, with one scope or two.
LEMMA WorkerStates ==
    ASSUME TypeOK, NEW w \in Workers
    PROVE  /\ ~Busy(w) => work[w] = Idle
           /\ Busy(w) => /\ work[w] \in InTask
                         /\ work[w].msg \in Message
                         /\ Scopes(w) \in Seq(Scope)
                         /\ Len(Scopes(w)) \in 1..2
                         /\ Active(w) \in Scope /\ Scopes(w)[1] \in Scope
  <1>1. work[w] \in {Idle} \cup InTask
    BY DEF TypeOK, InTask
  <1>2. CASE work[w] = Idle
    BY <1>2 DEF Idle, Busy
  <1>3. CASE work[w] \in InTask
    <2>1. Busy(w) /\ work[w].msg \in Message /\ Scopes(w) \in Seq(Scope)
      BY <1>3 DEF InTask, Busy, Scopes
    <2>2. Len(Scopes(w)) \in 1..2
      BY <2>1 DEF TypeOK
    <2>3. Scopes(w)[Len(Scopes(w))] \in Scope /\ Scopes(w)[1] \in Scope
      BY <2>1, <2>2
    <2>4. QED
      BY <1>3, <2>1, <2>2, <2>3 DEF Active
  <1>4. QED
    BY <1>1, <1>2, <1>3

\* Putting a worker to work, or letting it go, keeps the workers well typed.
LEMMA WorkTyped ==
    ASSUME TypeOK, NEW w \in Workers, NEW m \in Message,
           NEW s \in Seq(Scope), Len(s) \in 1..2
    PROVE  /\ Running(m, s) \in InTask
           /\ [work EXCEPT ![w] = Running(m, s)] \in [Workers -> {Idle} \cup InTask]
           /\ [work EXCEPT ![w] = Idle] \in [Workers -> {Idle} \cup InTask]
  BY DEF TypeOK, Running, InTask

\* The part of TypeOK about the workers, in the next state.
WorkOK ==
    /\ work \in [Workers -> {Idle} \cup InTask]
    /\ \A w \in Workers : Busy(w) => Len(Scopes(w)) \in 1..2

LEMMA WorkStarts ==
    ASSUME TypeOK, NEW w \in Workers, NEW m \in Message,
           NEW s \in Seq(Scope), Len(s) \in 1..2,
           work' = [work EXCEPT ![w] = Running(m, s)]
    PROVE  WorkOK'
  <1>1. work' \in [Workers -> {Idle} \cup InTask]
    BY WorkTyped
  <1>2. ASSUME NEW v \in Workers, Busy(v)'
        PROVE  (Len(Scopes(v)) \in 1..2)'
    <2>1. CASE v = w
      BY <2>1 DEF TypeOK, Scopes, Running
    <2>2. CASE v # w
      BY <1>2, <2>2 DEF TypeOK, Busy, Scopes
    <2>3. QED
      BY <2>1, <2>2
  <1>3. QED
    BY <1>1, <1>2 DEF WorkOK

LEMMA WorkEnds ==
    ASSUME TypeOK, NEW w \in Workers, work' = [work EXCEPT ![w] = Idle]
    PROVE  WorkOK'
  <1>1. work' \in [Workers -> {Idle} \cup InTask]
    BY DEF TypeOK, InTask
  <1>2. ASSUME NEW v \in Workers, Busy(v)'
        PROVE  (Len(Scopes(v)) \in 1..2)'
    <2>1. CASE v = w
      BY <1>2, <2>1 DEF TypeOK, Busy, Idle
    <2>2. CASE v # w
      BY <1>2, <2>2 DEF TypeOK, Busy, Scopes
    <2>3. QED
      BY <2>1, <2>2
  <1>3. QED
    BY <1>1, <1>2 DEF WorkOK

\* A nested scope opens or closes: the task goes on with other scopes.
LEMMA WorkNests ==
    ASSUME TypeOK, NEW w \in Workers, Busy(w),
           NEW s \in Seq(Scope), Len(s) \in 1..2,
           work' = [work EXCEPT ![w].scopes = s]
    PROVE  /\ WorkOK'
           /\ Busy(w)' /\ (work[w].msg)' = work[w].msg /\ Scopes(w)' = s
           /\ \A v \in Workers \ {w} : work'[v] = work[v]
  <1>1. work[w] \in InTask
    BY WorkerStates
  <1>2. [work[w] EXCEPT !.scopes = s] \in InTask
    BY <1>1 DEF InTask
  <1>3. work' = [work EXCEPT ![w] = [work[w] EXCEPT !.scopes = s]]
    OBVIOUS
  <1>. work \in [Workers -> {Idle} \cup InTask]
    BY DEF TypeOK, InTask
  <1>4. /\ work' \in [Workers -> {Idle} \cup InTask]
        /\ work'[w] = [work[w] EXCEPT !.scopes = s]
        /\ \A v \in Workers \ {w} : work'[v] = work[v]
    BY <1>2, <1>3
  <1>5. /\ work'[w].msg = work[w].msg /\ work'[w].scopes = s /\ work'[w].pc = "body"
    BY <1>1, <1>4 DEF InTask
  <1>6. ASSUME NEW v \in Workers, Busy(v)'
        PROVE  (Len(Scopes(v)) \in 1..2)'
    <2>1. CASE v = w
      BY <1>5, <2>1 DEF Scopes
    <2>2. CASE v # w
      BY <1>4, <1>6, <2>2 DEF TypeOK, Busy, Scopes
    <2>3. QED
      BY <2>1, <2>2
  <1>7. QED
    BY <1>4, <1>5, <1>6 DEF WorkOK, Busy, Scopes

-----------------------------------------------------------------------------
(* Every step keeps the types *)

\* Dispatching, by whomever.
LEMMA Sending ==
    ASSUME TypeOK, NEW j \in JobIds, NEW t \in Scope, Send(j, t)
    PROVE  /\ queue' \subseteq Message
           /\ given' \in Scope
           /\ origin' \in [JobIds -> Scope \cup {Unused}]
  <1>1. Header(given, t) \in Scope
    BY Headers DEF TypeOK
  <1>2. [job |-> j, header |-> Header(given, t), tries |-> 0] \in Message
    BY <1>1, Messages
  <1>3. None \in Scope
    BY DEF Scope
  <1>4. QED
    BY <1>1, <1>2, <1>3 DEF Send, TypeOK

\* A retry, whatever scope it is sent from.
LEMMA Retrying ==
    ASSUME TypeOK, NEW w \in Workers, Retry(w)
    PROVE  /\ queue' \subseteq Message
           /\ work[w].msg \in Message /\ work[w].msg.tries < MaxRetries
           /\ queue' = queue \cup {[work[w].msg EXCEPT !.header = Header(work[w].msg.header, Active(w)),
                                                        !.tries = work[w].msg.tries + 1]}
  <1>1. /\ work[w].msg \in Message /\ work[w].msg.tries < MaxRetries
        /\ Active(w) \in Scope
    BY WorkerStates DEF Retry
  <1>2. Header(work[w].msg.header, Active(w)) \in Scope
    BY <1>1, Messages, Headers
  <1>3. queue' = queue \cup {[work[w].msg EXCEPT !.header = Header(work[w].msg.header, Active(w)),
                                                 !.tries = work[w].msg.tries + 1]}
    BY DEF Retry
  <1>4. [work[w].msg EXCEPT !.header = Header(work[w].msg.header, Active(w)),
                            !.tries = work[w].msg.tries + 1] \in Message
    BY <1>1, <1>2, Resent
  <1>5. QED
    BY <1>1, <1>3, <1>4 DEF TypeOK

\* A task's end, with its successor.
LEMMA Finishing ==
    ASSUME TypeOK, NEW w \in Workers, Finish(w)
    PROVE  /\ queue' \subseteq Message
           /\ origin' \in [JobIds -> Scope \cup {Unused}]
           /\ ~Chained => UNCHANGED <<queue, origin>>
  <1>. DEFINE next == {j \in JobIds : Chained /\ origin[j] = Unused}
  <1>1. CASE next = {}
    BY <1>1 DEF Finish, TypeOK
  <1>2. CASE next # {}
    <2>. DEFINE j == CHOOSE k \in next : TRUE
    <2>1. j \in JobIds /\ Chained
      BY <1>2
    <2>2. /\ origin' = [origin EXCEPT ![j] = origin[work[w].msg.job]]
          /\ queue' = queue \cup {[job |-> j, header |-> Header(None, None), tries |-> 0]}
      BY <1>2 DEF Finish
    <2>3. work[w].msg.job \in JobIds
      BY WorkerStates, Messages DEF Finish
    <2>4. [job |-> j, header |-> Header(None, None), tries |-> 0] \in Message
      BY <2>1, Headers, Messages DEF Scope
    <2>5. QED
      BY <2>1, <2>2, <2>3, <2>4 DEF TypeOK
  <1>3. QED
    BY <1>1, <1>2

\* The part of TypeOK about the command, in the next state.
CommandOK ==
    /\ cmd \in Cmd
    /\ run \in [Processes -> Scope]
    /\ sess \in [{Session(r) : r \in Processes} -> Scope]
    /\ ran \subseteq Tenants

LEMMA Selecting ==
    ASSUME Select
    PROVE  cmd' \in Cmd
  <1>. DEFINE todo == {t \in Tenants : rows[t] = "active"}
  <1>1. PICK way \in {"loop", "pool"} :
          cmd' = [pc |-> IF todo = {} THEN "done" ELSE way, selected |-> todo,
                  todo |-> todo, results |-> NoResult]
    BY DEF Select
  <1>2. NoResult \in [Tenants -> {"none", "ran", "not found"}]
    BY DEF NoResult
  <1>. todo \in SUBSET Tenants
    OBVIOUS
  <1>. HIDE DEF todo
  <1>3. QED
    BY <1>1, <1>2 DEF Cmd

\* The command's own steps.
LEMMA Commanding ==
    ASSUME TypeOK, NEW r \in Processes, NEW t \in Tenants,
           Select \/ BeginTenant(r, t) \/ EndTenant(r) \/ Exit(r) \/ Kill(r) \/ EndCommand
    PROVE  CommandOK'
  <1>. /\ cmd \in Cmd
       /\ run \in [Processes -> Scope]
       /\ sess \in [{Session(q) : q \in Processes} -> Scope]
       /\ ran \subseteq Tenants
       /\ None \in Scope /\ t \in Scope /\ Session(r) \in {Session(q) : q \in Processes}
    BY DEF TypeOK, Scope
  <1>0. {Session(q) : q \in Processes}' = {Session(q) : q \in Processes}
    BY DEF Session
  <1>1. CASE Select
    BY <1>0, <1>1, Selecting DEF Select, CommandOK
  <1>2. CASE BeginTenant(r, t)
    <2>1. CASE Found(t)
      <3>1. /\ cmd' = [cmd EXCEPT !.todo = cmd.todo \ {t}]
            /\ run' = [run EXCEPT ![r] = t]
            /\ sess' = [sess EXCEPT ![Session(r)] = t]
            /\ ran' = ran \cup {t}
        BY <1>2, <2>1 DEF BeginTenant
      <3>2. cmd' \in Cmd
        BY <3>1 DEF Cmd
      <3>3. sess' \in [{Session(q) : q \in Processes} -> Scope] /\ run' \in [Processes -> Scope]
        BY <3>1
      <3>4. QED
        BY <1>0, <3>1, <3>2, <3>3 DEF CommandOK
    <2>2. CASE ~Found(t)
      <3>1. cmd' = [cmd EXCEPT !.todo = cmd.todo \ {t}, !.results = [cmd.results EXCEPT ![t] = "not found"]]
        BY <1>2, <2>2 DEF BeginTenant
      <3>2. UNCHANGED <<run, sess, ran>>
        BY <1>2, <2>2 DEF BeginTenant
      <3>3. cmd' \in Cmd
        BY <3>1 DEF Cmd
      <3>4. QED
        BY <1>0, <3>2, <3>3 DEF CommandOK
    <2>3. QED
      BY <2>1, <2>2
  <1>3. CASE EndTenant(r)
    <2>1. run[r] \in Tenants
      BY <1>3 DEF EndTenant, Scope
    <2>2. cmd' \in Cmd
      BY <1>3, <2>1 DEF EndTenant, Cmd
    <2>3. QED
      BY <1>0, <1>3, <2>2 DEF EndTenant, CommandOK
  <1>4. CASE Exit(r) \/ Kill(r)
    <2>1. Lost(r)
      BY <1>4 DEF Exit, Kill
    <2>2. cmd' \in Cmd
      BY <2>1 DEF Lost, Cmd, NoResult
    <2>3. run' \in [Processes -> Scope] /\ ran' = ran
      BY <2>1 DEF Lost
    <2>4. sess' \in [{Session(q) : q \in Processes} -> Scope]
      BY <1>4 DEF Exit, Kill
    <2>5. QED
      BY <1>0, <2>2, <2>3, <2>4 DEF CommandOK
  <1>5. CASE EndCommand
    BY <1>0, <1>5 DEF EndCommand, CommandOK, Cmd
  <1>6. QED
    BY <1>1, <1>2, <1>3, <1>4, <1>5

\* Every step.
LEMMA TypeStep ==
    ASSUME TypeOK, [Next]_vars
    PROVE  TypeOK'
  <1>. USE DEF WorkOK, CommandOK
  <1>cmd. ASSUME UNCHANGED command  PROVE CommandOK'
    BY <1>cmd DEF TypeOK, command, Session
  <1>work. ASSUME UNCHANGED work  PROVE WorkOK'
    BY <1>work DEF TypeOK, InTask, Busy, Scopes
  <1>. DEFINE Rest == /\ rows \in [Tenants -> {"pending", "active", "inactive", "gone"}]
                      /\ queue \subseteq Message
                      /\ given \in Scope
                      /\ origin \in [JobIds -> Scope \cup {Unused}]
                      /\ copies \in 0..MaxCopies
  <1>rest. Rest
    BY DEF TypeOK
  <1>goal. SUFFICES Rest' /\ WorkOK' /\ CommandOK'
    BY DEF TypeOK, InTask
  <1>1. ASSUME NEW t \in Tenants, TenantStep(t)  PROVE Rest' /\ WorkOK' /\ CommandOK'
    BY <1>cmd, <1>work, <1>rest, <1>1 DEF TenantStep, jobs, command
  <1>2. ASSUME NEW j \in JobIds, NEW t \in Scope, Dispatch(j, t)  PROVE Rest' /\ WorkOK' /\ CommandOK'
    BY <1>cmd, <1>work, <1>rest, <1>2, Sending DEF Dispatch
  <1>3. ASSUME NEW w \in Workers, NEW m \in queue, Start(w, m)  PROVE Rest' /\ WorkOK' /\ CommandOK'
    <2>1. m \in Message /\ <<m.header>> \in Seq(Scope) /\ Len(<<m.header>>) \in 1..2
      BY <1>rest, Messages
    <2>2. WorkOK'
      BY <1>3, <2>1, WorkStarts DEF Start
    <2>3. queue' \subseteq Message /\ copies' \in 0..MaxCopies
      BY <1>rest, <1>3, JobsAssumption DEF Start, Delivered
    <2>4. QED
      BY <1>cmd, <1>rest, <1>3, <2>2, <2>3 DEF Start
  <1>4. ASSUME NEW w \in Workers, NEW m \in queue, NotFound(w, m)  PROVE Rest' /\ WorkOK' /\ CommandOK'
    <2>1. m \in Message
      BY <1>rest
    <2>2. m.tries < MaxRetries => [m EXCEPT !.tries = m.tries + 1] \in Message
      BY <2>1, Messages, Resent
    <2>3. queue' \subseteq Message
      BY <1>rest, <1>4, <2>2 DEF NotFound
    <2>4. QED
      BY <1>cmd, <1>work, <1>rest, <1>4, <2>3 DEF NotFound
  <1>5. ASSUME NEW w \in Workers, NEW t \in Scope, Nest(w, t)  PROVE Rest' /\ WorkOK' /\ CommandOK'
    <2>1. Append(Scopes(w), t) \in Seq(Scope) /\ Len(Append(Scopes(w), t)) \in 1..2
      BY <1>5, WorkerStates DEF Nest
    <2>2. WorkOK'
      BY <1>5, <2>1, WorkNests DEF Nest, Scopes
    <2>3. QED
      BY <1>cmd, <1>rest, <1>5, <2>2 DEF Nest
  <1>6. ASSUME NEW w \in Workers, Unnest(w)  PROVE Rest' /\ WorkOK' /\ CommandOK'
    <2>1. <<Scopes(w)[1]>> \in Seq(Scope) /\ Len(<<Scopes(w)[1]>>) \in 1..2
      BY <1>6, WorkerStates DEF Unnest
    <2>2. WorkOK'
      BY <1>6, <2>1, WorkNests DEF Unnest, Scopes
    <2>3. QED
      BY <1>cmd, <1>rest, <1>6, <2>2 DEF Unnest
  <1>7. ASSUME NEW w \in Workers, NEW j \in JobIds, Subtask(w, j)  PROVE Rest' /\ WorkOK' /\ CommandOK'
    <2>1. Active(w) \in Scope
      BY <1>7, WorkerStates DEF Subtask
    <2>2. QED
      BY <1>cmd, <1>work, <1>rest, <1>7, <2>1, Sending DEF Subtask
  <1>8. ASSUME NEW w \in Workers, Retry(w)  PROVE Rest' /\ WorkOK' /\ CommandOK'
    <2>1. WorkOK'
      BY <1>8, WorkEnds DEF Retry
    <2>2. QED
      BY <1>cmd, <1>rest, <1>8, <2>1, Retrying DEF Retry
  <1>9. ASSUME NEW w \in Workers, Finish(w)  PROVE Rest' /\ WorkOK' /\ CommandOK'
    <2>1. WorkOK'
      BY <1>9, WorkEnds DEF Finish
    <2>2. QED
      BY <1>cmd, <1>rest, <1>9, <2>1, Finishing DEF Finish
  <1>10. ASSUME NEW w \in Workers, Crash(w)  PROVE Rest' /\ WorkOK' /\ CommandOK'
    <2>1. WorkOK'
      BY <1>10, WorkEnds DEF Crash
    <2>2. QED
      BY <1>cmd, <1>rest, <1>10, <2>1 DEF Crash
  <1>11. ASSUME NEW r \in Processes, NEW j \in JobIds, CommandSends(r, j)  PROVE Rest' /\ WorkOK' /\ CommandOK'
    <2>1. run[r] \in Scope
      BY DEF TypeOK
    <2>2. QED
      BY <1>cmd, <1>work, <1>rest, <1>11, <2>1, Sending DEF CommandSends
  <1>12. ASSUME NEW r \in Processes, Exit(r) \/ Kill(r)  PROVE Rest' /\ WorkOK' /\ CommandOK'
    <2>1. Lost(r)
      BY <1>12 DEF Exit, Kill
    <2>2. run[r] \in Tenants
      BY <2>1 DEF Lost, TypeOK, Scope
    <2>3. QED
      BY <1>work, <1>rest, <1>12, <2>1, <2>2, Commanding DEF Lost
  <1>13. ASSUME NEW r \in Processes, NEW t \in Tenants, BeginTenant(r, t)
         PROVE  Rest' /\ WorkOK' /\ CommandOK'
    BY <1>work, <1>rest, <1>13, Commanding DEF BeginTenant, jobs
  <1>14. ASSUME NEW r \in Processes, EndTenant(r)  PROVE Rest' /\ WorkOK' /\ CommandOK'
    <2>1. run[r] \in Tenants
      BY <1>14 DEF EndTenant, TypeOK, Scope
    <2>2. QED
      BY <1>work, <1>rest, <1>14, <2>1, Commanding DEF EndTenant, jobs
  <1>15. CASE Select \/ EndCommand
    <2>1. CommandOK'
      <3>. cmd \in Cmd
        BY DEF TypeOK
      <3>1. cmd' \in Cmd
        <4>1. CASE Select
          BY <4>1, Selecting
        <4>2. CASE EndCommand
          BY <4>2 DEF EndCommand, Cmd
        <4>3. QED
          BY <1>15, <4>1, <4>2
      <3>2. UNCHANGED <<run, sess, ran>>
        BY <1>15 DEF Select, EndCommand
      <3>3. QED
        BY <3>1, <3>2 DEF TypeOK, Session
    <2>2. QED
      BY <1>work, <1>rest, <1>15, <2>1 DEF Select, EndCommand, jobs
  <1>16. CASE UNCHANGED vars
    BY <1>cmd, <1>work, <1>rest, <1>16 DEF vars, jobs, command
  <1>17. QED
    BY <1>1, <1>2, <1>3, <1>4, <1>5, <1>6, <1>7, <1>8, <1>9, <1>10, <1>11, <1>12, <1>13, <1>14,
       <1>15, <1>16 DEF Next

LEMMA TypeInit == Init => TypeOK
  BY JobsAssumption DEF Init, TypeOK, Cmd, Scope, NoResult, Busy, Idle, Scopes

\* The state of tenants, messages, workers and the command stays well typed:
\* retries and second deliveries keep their bounds, no task has no scope.
THEOREM JobsTypeCorrect == Spec => []TypeOK
  <1>1. TypeOK /\ [Next]_vars => TypeOK'
    BY TypeStep
  <1>2. QED
    BY TypeInit, <1>1, PTL DEF Spec

-----------------------------------------------------------------------------
(* Tasks and their tenants *)

\* A message is true if it names the tenant its task was dispatched for.
Truthful(m) == m.header = origin[m.job]

\* A dispatch sends a true message and leaves the others true: their tasks
\* were dispatched before.
LEMMA SendingTruth ==
    ASSUME TypeOK, HeadersTellTheOrigin, ~SharedHeaders,
           NEW j \in JobIds, NEW t \in Scope, Send(j, t)
    PROVE  /\ given' = None
           /\ \A m \in Message : Truthful(m) => Truthful(m)'
           /\ \A m \in queue' : Truthful(m)'
  <1>1. Header(given, t) = t /\ given' = None
    BY Headers DEF HeadersTellTheOrigin, Send, Scope
  <1>2. origin' = [origin EXCEPT ![j] = t] /\ origin[j] = Unused
    BY DEF Send
  <1>3. ASSUME NEW m \in Message, Truthful(m)  PROVE Truthful(m)'
    <2>1. m.header # Unused
      BY JobsAssumption, Messages DEF Scope, Unused
    <2>2. m.job # j
      BY <1>2, <1>3, <2>1 DEF Truthful
    <2>3. QED
      BY <1>2, <1>3, <2>2, Messages DEF Truthful, TypeOK
  <1>4. \A m \in queue : Truthful(m)'
    BY <1>3 DEF HeadersTellTheOrigin, Truthful, TypeOK
  <1>5. LET n == [job |-> j, header |-> t, tries |-> 0] IN Truthful(n)'
    BY <1>2 DEF Truthful, TypeOK
  <1>6. QED
    BY <1>1, <1>3, <1>4, <1>5 DEF Send

\* What a worker in a task holds is true, and its first scope is its message's.
Faithful(w) == Busy(w) => Truthful(work[w].msg) /\ Scopes(w)[1] = work[w].msg.header

LEMMA TruthIs ==
    /\ HeadersTellTheOrigin <=> /\ given = None
                                /\ \A m \in queue : Truthful(m)
                                /\ \A w \in Workers : Faithful(w)
    /\ HeadersTellTheOrigin' <=> /\ given' = None
                                 /\ \A m \in queue' : Truthful(m)'
                                 /\ \A w \in Workers : Faithful(w)'
  BY DEF HeadersTellTheOrigin, Truthful, Faithful

\* A worker whose message stays true and whose task goes on is faithful still.
LEMMA StaysFaithful ==
    ASSUME TypeOK, HeadersTellTheOrigin, NEW w \in Workers, work'[w] = work[w],
           \A m \in Message : Truthful(m) => Truthful(m)'
    PROVE  Faithful(w)'
  <1>1. CASE Busy(w)
    BY <1>1, WorkerStates, TruthIs DEF Faithful, Busy, Scopes, Truthful
  <1>2. CASE ~Busy(w)
    BY <1>2 DEF Faithful, Busy
  <1>3. QED
    BY <1>1, <1>2

\* Letting a worker go.
LEMMA IdleIsFaithful ==
    ASSUME TypeOK, HeadersTellTheOrigin, NEW w \in Workers, UNCHANGED origin,
           work' = [work EXCEPT ![w] = Idle]
    PROVE  \A v \in Workers : Faithful(v)'
  <1>1. Faithful(w)'
    BY DEF TypeOK, Faithful, Busy, Idle
  <1>2. ASSUME NEW v \in Workers \ {w}  PROVE Faithful(v)'
    BY StaysFaithful DEF TypeOK, Truthful
  <1>3. QED
    BY <1>1, <1>2

LEMMA HeadersStep ==
    ASSUME TypeOK, Separate, HeadersTellTheOrigin, [Next]_vars
    PROVE  HeadersTellTheOrigin'
  <1>. DEFINE Good == given' = None /\ (\A m \in queue' : Truthful(m)') /\ (\A w \in Workers : Faithful(w)')
  <1>a. SUFFICES Good
    BY TruthIs
  <1>b. given = None /\ (\A m \in queue : Truthful(m)) /\ (\A w \in Workers : Faithful(w)) /\ queue \subseteq Message
    BY TruthIs DEF TypeOK
  <1>c. ASSUME UNCHANGED <<work, origin>>  PROVE \A w \in Workers : Faithful(w)'
    BY <1>c, <1>b DEF Faithful, Truthful, Busy, Scopes
  <1>d. ASSUME UNCHANGED jobs  PROVE Good
    BY <1>b, <1>c, <1>d DEF jobs, Truthful
  <1>e. ASSUME NEW j \in JobIds, NEW t \in Scope, Send(j, t), UNCHANGED work  PROVE Good
    BY <1>e, SendingTruth, StaysFaithful DEF Separate
  <1>1. ASSUME NEW t \in Tenants, TenantStep(t)  PROVE Good
    BY <1>1, <1>d DEF TenantStep
  <1>2. ASSUME NEW j \in JobIds, NEW t \in Scope, Dispatch(j, t)  PROVE Good
    BY <1>2, <1>e DEF Dispatch
  <1>3. ASSUME NEW w \in Workers, NEW m \in queue, Start(w, m)  PROVE Good
    <2>1. work' = [work EXCEPT ![w] = Running(m, <<m.header>>)] /\ UNCHANGED <<origin, given>>
      BY <1>3 DEF Start
    <2>2. queue' \subseteq queue
      BY <1>3 DEF Start, Delivered
    <2>a. work'[w] = Running(m, <<m.header>>)
      BY <2>1 DEF TypeOK
    <2>3. Faithful(w)'
      BY <1>b, <2>1, <2>a DEF Faithful, Truthful, Running, Scopes
    <2>4. \A v \in Workers \ {w} : Faithful(v)'
      BY <1>b, <2>1, StaysFaithful DEF Truthful, TypeOK
    <2>5. QED
      BY <1>b, <2>1, <2>2, <2>3, <2>4 DEF Truthful
  <1>4. ASSUME NEW w \in Workers, NEW m \in queue, NotFound(w, m)  PROVE Good
    <2>. DEFINE again == [m EXCEPT !.tries = m.tries + 1]
    <2>0. m.tries < MaxRetries => again.job = m.job /\ again.header = m.header
      BY <1>b, Resent, Messages
    <2>1. m.tries < MaxRetries => Truthful(again)
      BY <1>b, <2>0 DEF Truthful
    <2>2. UNCHANGED <<given, work, origin>>
      BY <1>4 DEF NotFound
    <2>3. \A n \in queue' : Truthful(n)
      BY <1>b, <1>4, <2>1 DEF NotFound
    <2>4. QED
      BY <1>b, <1>c, <2>2, <2>3 DEF Truthful
  <1>5. ASSUME NEW w \in Workers, NEW t \in Scope, Nest(w, t)  PROVE Good
    <2>1. Busy(w) /\ Append(Scopes(w), t) \in Seq(Scope) /\ Len(Append(Scopes(w), t)) \in 1..2
          /\ Append(Scopes(w), t)[1] = Scopes(w)[1]
      BY <1>5, WorkerStates DEF Nest
    <2>2. /\ (work[w].msg)' = work[w].msg /\ Scopes(w)' = Append(Scopes(w), t)
          /\ \A v \in Workers \ {w} : work'[v] = work[v]
      BY <1>5, <2>1, WorkNests DEF Nest, Scopes
    <2>3. UNCHANGED <<queue, given, origin>>
      BY <1>5 DEF Nest
    <2>4. Faithful(w)'
      BY <1>b, <2>1, <2>2, <2>3 DEF Faithful, Truthful
    <2>5. QED
      BY <1>b, <2>2, <2>3, <2>4, StaysFaithful DEF Truthful
  <1>6. ASSUME NEW w \in Workers, Unnest(w)  PROVE Good
    <2>1. Busy(w) /\ <<Scopes(w)[1]>> \in Seq(Scope) /\ Len(<<Scopes(w)[1]>>) \in 1..2
      BY <1>6, WorkerStates DEF Unnest
    <2>2. /\ (work[w].msg)' = work[w].msg /\ Scopes(w)' = <<Scopes(w)[1]>>
          /\ \A v \in Workers \ {w} : work'[v] = work[v]
      BY <1>6, <2>1, WorkNests DEF Unnest, Scopes
    <2>3. UNCHANGED <<queue, given, origin>>
      BY <1>6 DEF Unnest
    <2>4. Faithful(w)'
      BY <1>b, <2>1, <2>2, <2>3 DEF Faithful, Truthful
    <2>5. QED
      BY <1>b, <2>2, <2>3, <2>4, StaysFaithful DEF Truthful
  <1>7. ASSUME NEW w \in Workers, NEW j \in JobIds, Subtask(w, j)  PROVE Good
    BY <1>7, <1>e, WorkerStates DEF Subtask
  <1>8. ASSUME NEW w \in Workers, Retry(w)  PROVE Good
    <2>1. Busy(w) /\ Len(Scopes(w)) = 1 /\ UNCHANGED <<origin, given>> /\ work' = [work EXCEPT ![w] = Idle]
      BY <1>8 DEF Retry, Separate
    <2>2. Active(w) = work[w].msg.header /\ Active(w) \in Scope /\ Truthful(work[w].msg)
      BY <1>b, <2>1, WorkerStates DEF Faithful, Active
    <2>3. Header(work[w].msg.header, Active(w)) = work[w].msg.header
      BY <2>2 DEF Header
    <2>. DEFINE m == work[w].msg
                again == [m EXCEPT !.header = Header(m.header, Active(w)), !.tries = m.tries + 1]
    <2>4. m \in Message /\ m.tries < MaxRetries /\ Header(m.header, Active(w)) \in Scope
      BY <1>8, <2>2, <2>3, Retrying
    <2>5. \A h \in Scope : LET n == [m EXCEPT !.header = h, !.tries = m.tries + 1] IN
                           n.job = m.job /\ n.header = h
      BY <2>4, Resent
    <2>6. again.job = m.job /\ again.header = m.header
      BY <2>4, <2>5, <2>3
    <2>7. Truthful(again)
      BY <2>2, <2>6 DEF Truthful
    <2>8. \A n \in queue' : Truthful(n)
      BY <1>b, <1>8, <2>7, Retrying
    <2>9. QED
      BY <1>b, <2>1, <2>8, IdleIsFaithful DEF Truthful
  <1>9. ASSUME NEW w \in Workers, Finish(w)  PROVE Good
    <2>1. UNCHANGED <<queue, origin, given>> /\ work' = [work EXCEPT ![w] = Idle]
      BY <1>9, Finishing DEF Finish, Separate
    <2>2. QED
      BY <1>b, <2>1, IdleIsFaithful DEF Truthful
  <1>10. ASSUME NEW w \in Workers, Crash(w)  PROVE Good
    BY <1>b, <1>10, IdleIsFaithful DEF Truthful, Crash
  <1>11. ASSUME NEW r \in Processes, NEW j \in JobIds, CommandSends(r, j)  PROVE Good
    BY <1>11, <1>e DEF CommandSends, TypeOK
  <1>12. ASSUME NEW r \in Processes, Exit(r) \/ Kill(r)  PROVE Good
    BY <1>12, <1>b, <1>c DEF Exit, Kill, Lost, Truthful
  <1>13. ASSUME NEW r \in Processes, NEW t \in Tenants, BeginTenant(r, t)  PROVE Good
    BY <1>13, <1>d DEF BeginTenant
  <1>14. CASE Select \/ EndCommand
    BY <1>14, <1>d DEF Select, EndCommand
  <1>15. CASE UNCHANGED vars
    BY <1>15, <1>d DEF vars
  <1>16. ASSUME NEW r \in Processes, EndTenant(r)  PROVE Good
    BY <1>16, <1>d DEF EndTenant
  <1>17. QED
    BY <1>1, <1>2, <1>3, <1>4, <1>5, <1>6, <1>7, <1>8, <1>9, <1>10, <1>11, <1>12, <1>13, <1>14,
       <1>15, <1>16 DEF Next

LEMMA HeadersInit == Init => HeadersTellTheOrigin
  BY DEF Init, HeadersTellTheOrigin, Busy, Idle

\* Where callers do not share headers and send from the scope they mean, every
\* task runs for the tenant that dispatched it, however often, late or after
\* which retries: the header is the only way a tenant reaches a worker.
THEOREM TasksRunForTheirTenant ==
    ASSUME Separate
    PROVE  Spec => []RunsForItsTenant
  <1>1. Init => TypeOK /\ HeadersTellTheOrigin
    BY TypeInit, HeadersInit
  <1>2. TypeOK /\ HeadersTellTheOrigin /\ [Next]_vars => TypeOK' /\ HeadersTellTheOrigin'
    BY TypeStep, HeadersStep
  <1>3. HeadersTellTheOrigin => RunsForItsTenant
    BY DEF HeadersTellTheOrigin, RunsForItsTenant
  <1>4. QED
    BY <1>1, <1>2, <1>3, PTL DEF Spec

-----------------------------------------------------------------------------
(* The command and its tenants *)

\* What the books say of tenant t in a record c of the command, when done are
\* the tenants it was run for and state is that of the tenant's row.
Entry(c, done, t, state) ==
    /\ t \in c.todo => t \in c.selected /\ t \notin done
    /\ t \in done => t \in c.selected
    /\ c.results[t] # "none" => t \in c.selected /\ t \notin c.todo
    /\ c.results[t] = "ran" => t \in done
    /\ c.results[t] = "not found" => t \notin done /\ state = "gone"
    /\ t \in c.selected => state # "pending"
    /\ c.pc = "idle" => t \notin c.selected
    /\ c.pc = "done" /\ t \in c.selected => c.results[t] # "none"

\* Busy processes are busy with different tenants that have no result yet.
Apart(c, busy, done) ==
    /\ \A r \in Processes : busy[r] # None => busy[r] \in done /\ c.results[busy[r]] = "none"
    /\ \A r, s \in Processes : r # s /\ busy[r] # None => busy[r] # busy[s]

LEMMA BooksAre ==
    /\ TypeOK => (BooksBalance <=> /\ \A t \in Tenants : Entry(cmd, ran, t, rows[t])
                                   /\ Apart(cmd, run, ran))
    /\ TypeOK' => (BooksBalance' <=> /\ \A t \in Tenants : Entry(cmd', ran', t, rows'[t])
                                     /\ Apart(cmd', run', ran'))
  <1>1. ASSUME TypeOK
        PROVE  BooksBalance <=> /\ \A t \in Tenants : Entry(cmd, ran, t, rows[t])
                                /\ Apart(cmd, run, ran)
    <2>1. cmd.selected \subseteq Tenants /\ cmd.todo \subseteq Tenants /\ ran \subseteq Tenants
      BY <1>1 DEF TypeOK, Cmd
    <2>2. QED
      BY <2>1 DEF BooksBalance, Entry, Apart
  <1>2. ASSUME TypeOK'
        PROVE  BooksBalance' <=> /\ \A t \in Tenants : Entry(cmd', ran', t, rows'[t])
                                 /\ Apart(cmd', run', ran')
    <2>1. cmd'.selected \subseteq Tenants /\ cmd'.todo \subseteq Tenants /\ ran' \subseteq Tenants
      BY <1>2 DEF TypeOK, Cmd
    <2>2. QED
      BY <2>1 DEF BooksBalance, Entry, Apart
  <1>3. QED
    BY <1>1, <1>2

\* A committed tenant does not become uncommitted, and one that is gone stays so.
LEMMA RowsAdvance ==
    ASSUME TypeOK, NEW t \in Tenants, TenantStep(t), NEW u \in Tenants
    PROVE  /\ rows[u] # "pending" => rows'[u] # "pending"
           /\ rows[u] = "gone" => rows'[u] = "gone"
  BY DEF TenantStep, TypeOK

LEMMA BooksStep ==
    ASSUME TypeOK, BooksBalance, [Next]_vars
    PROVE  BooksBalance'
  <1>t. TypeOK'
    BY TypeStep
  <1>a. /\ cmd \in Cmd /\ run \in [Processes -> Scope] /\ ran \subseteq Tenants
    BY DEF TypeOK
  <1>p. (\A t \in Tenants : Entry(cmd, ran, t, rows[t])) /\ Apart(cmd, run, ran)
    BY BooksAre
  <1>g. SUFFICES (\A t \in Tenants : Entry(cmd', ran', t, rows'[t])) /\ Apart(cmd', run', ran')
    BY <1>t, BooksAre
  <1>. DEFINE Good == (\A t \in Tenants : Entry(cmd', ran', t, rows'[t])) /\ Apart(cmd', run', ran')
  <1>0. ASSUME UNCHANGED <<cmd, run, ran, rows>>  PROVE Good
    BY <1>p, <1>0
  <1>1. ASSUME NEW t \in Tenants, TenantStep(t)  PROVE Good
    <2>1. UNCHANGED <<cmd, run, ran>>
      BY <1>1 DEF TenantStep, command
    <2>2. \A u \in Tenants : Entry(cmd, ran, u, rows'[u])
      BY <1>p, <1>1, RowsAdvance DEF Entry
    <2>3. QED
      BY <1>p, <2>1, <2>2
  <1>2. CASE Select
    <2>. DEFINE todo == {t \in Tenants : rows[t] = "active"}
    <2>1. PICK way \in {"loop", "pool"} :
            cmd' = [pc |-> IF todo = {} THEN "done" ELSE way, selected |-> todo,
                    todo |-> todo, results |-> NoResult]
      BY <1>2 DEF Select
    <2>2. cmd.pc = "idle" /\ UNCHANGED <<run, ran, rows>>
      BY <1>2 DEF Select
    <2>3. ran = {} /\ \A r \in Processes : run[r] = None
      BY <1>a, <1>p, <2>2 DEF Entry, Apart
    <2>4. \A u \in Tenants : Entry(cmd', ran', u, rows'[u])
      BY <2>1, <2>2, <2>3 DEF Entry, NoResult
    <2>5. Apart(cmd', run', ran')
      BY <2>2, <2>3 DEF Apart
    <2>6. QED
      BY <2>4, <2>5
  <1>3. ASSUME NEW r \in Processes, NEW t \in Tenants, BeginTenant(r, t)  PROVE Good
    <2>1. /\ cmd.pc \in {"loop", "pool"} /\ run[r] = None /\ t \in cmd.todo /\ UNCHANGED rows
      BY <1>3 DEF BeginTenant, Working
    <2>2. /\ t \in cmd.selected /\ t \notin ran /\ cmd.results[t] = "none" /\ rows[t] # "pending"
          /\ \A q \in Processes : run[q] # t
      <3>1. t \in cmd.selected /\ t \notin ran /\ cmd.results[t] = "none" /\ rows[t] # "pending"
        BY <1>p, <2>1 DEF Entry
      <3>2. \A q \in Processes : run[q] # t
        BY <1>p, <3>1, JobsAssumption DEF Apart
      <3>3. QED
        BY <3>1, <3>2
    <2>3. CASE Found(t)
      <3>1. /\ cmd' = [cmd EXCEPT !.todo = cmd.todo \ {t}]
            /\ run' = [run EXCEPT ![r] = t] /\ ran' = ran \cup {t}
        BY <1>3, <2>3 DEF BeginTenant
      <3>2. /\ cmd'.pc = cmd.pc /\ cmd'.selected = cmd.selected
            /\ cmd'.todo = cmd.todo \ {t} /\ cmd'.results = cmd.results
        BY <1>a, <3>1 DEF Cmd
      <3>3. run'[r] = t /\ \A q \in Processes \ {r} : run'[q] = run[q]
        BY <1>a, <3>1
      <3>4. ASSUME NEW u \in Tenants  PROVE Entry(cmd', ran', u, rows'[u])
        BY <1>p, <2>1, <2>2, <3>1, <3>2 DEF Entry
      <3>5. ASSUME NEW q \in Processes, run'[q] # None
            PROVE  run'[q] \in ran' /\ cmd'.results[run'[q]] = "none"
        BY <1>p, <2>2, <3>1, <3>2, <3>3, <3>5 DEF Apart
      <3>6. ASSUME NEW q \in Processes, NEW s \in Processes, q # s, run'[q] # None
            PROVE  run'[q] # run'[s]
        BY <1>p, <2>1, <2>2, <3>3, <3>6 DEF Apart
      <3>7. QED
        BY <3>4, <3>5, <3>6 DEF Apart
    <2>4. CASE ~Found(t)
      <3>1. /\ cmd' = [cmd EXCEPT !.todo = cmd.todo \ {t}, !.results = [cmd.results EXCEPT ![t] = "not found"]]
            /\ UNCHANGED <<run, ran>>
        BY <1>3, <2>4 DEF BeginTenant
      <3>2. /\ cmd'.pc = cmd.pc /\ cmd'.selected = cmd.selected /\ cmd'.todo = cmd.todo \ {t}
            /\ cmd'.results[t] = "not found"
            /\ \A u \in Tenants \ {t} : cmd'.results[u] = cmd.results[u]
        BY <1>a, <3>1 DEF Cmd
      <3>3. rows[t] = "gone"
        BY <2>2, <2>4 DEF Found, TypeOK
      <3>4. ASSUME NEW u \in Tenants  PROVE Entry(cmd', ran', u, rows'[u])
        <4>1. CASE u = t
          BY <2>1, <2>2, <3>1, <3>2, <3>3, <4>1 DEF Entry
        <4>2. CASE u # t
          BY <1>p, <2>1, <3>1, <3>2, <4>2 DEF Entry
        <4>3. QED
          BY <4>1, <4>2
      <3>5. ASSUME NEW q \in Processes, run[q] # None
            PROVE  run[q] \in ran /\ cmd'.results[run[q]] = "none"
        BY <1>a, <1>p, <2>2, <3>2, <3>5 DEF Apart
      <3>6. QED
        BY <1>p, <3>1, <3>4, <3>5 DEF Apart
    <2>5. QED
      BY <2>3, <2>4
  <1>4. ASSUME NEW r \in Processes, EndTenant(r)  PROVE Good
    <2>. DEFINE t == run[r]
    <2>1. /\ t # None /\ t \in Tenants
          /\ cmd' = [cmd EXCEPT !.results = [cmd.results EXCEPT ![t] = "ran"]]
          /\ run' = [run EXCEPT ![r] = None] /\ UNCHANGED <<ran, rows>>
      BY <1>a, <1>4 DEF EndTenant, Scope
    <2>2. t \in ran /\ \A q \in Processes \ {r} : run[q] # t
      BY <1>p, <2>1 DEF Apart
    <2>. HIDE DEF t
    <2>3. /\ cmd'.pc = cmd.pc /\ cmd'.selected = cmd.selected /\ cmd'.todo = cmd.todo
          /\ cmd'.results[t] = "ran" /\ \A u \in Tenants \ {t} : cmd'.results[u] = cmd.results[u]
      BY <1>a, <2>1 DEF Cmd
    <2>4. run'[r] = None /\ \A q \in Processes \ {r} : run'[q] = run[q]
      BY <1>a, <2>1
    <2>5. ASSUME NEW u \in Tenants  PROVE Entry(cmd', ran', u, rows'[u])
      <3>1. CASE u = t
        BY <1>p, <2>1, <2>2, <2>3, <3>1 DEF Entry
      <3>2. CASE u # t
        BY <1>p, <2>1, <2>3, <3>2 DEF Entry
      <3>3. QED
        BY <3>1, <3>2
    <2>6. ASSUME NEW q \in Processes, run'[q] # None
          PROVE  run'[q] \in ran' /\ cmd'.results[run'[q]] = "none"
      <3>1. q # r /\ run'[q] = run[q] /\ run[q] \in Tenants \ {t}
        BY <1>a, <2>2, <2>4, <2>6 DEF Scope
      <3>2. QED
        BY <1>p, <2>1, <2>3, <2>6, <3>1 DEF Apart
    <2>7. ASSUME NEW q \in Processes, NEW s \in Processes, q # s, run'[q] # None
          PROVE  run'[q] # run'[s]
      BY <1>p, <2>4, <2>7 DEF Apart
    <2>8. QED
      BY <2>5, <2>6, <2>7 DEF Apart
  <1>5. ASSUME NEW r \in Processes, Exit(r) \/ Kill(r)  PROVE Good
    <2>1. Lost(r)
      BY <1>5 DEF Exit, Kill
    <2>2. UNCHANGED <<ran, rows>> /\ run'[r] = None /\ \A q \in Processes \ {r} : run'[q] = run[q]
      BY <1>a, <2>1 DEF Lost
    <2>3. CASE cmd.pc = "pool"
      BY <1>p, <2>1, <2>2, <2>3 DEF Lost, Apart
    <2>4. CASE cmd.pc # "pool"
      <3>1. /\ cmd'.pc = "aborted" /\ cmd'.selected = cmd.selected /\ cmd'.todo = {}
            /\ \A u \in Tenants : cmd'.results[u] = "none"
        BY <1>a, <2>1, <2>4 DEF Lost, Cmd, NoResult
      <3>2. \A u \in Tenants : Entry(cmd', ran', u, rows'[u])
        BY <1>p, <2>2, <3>1 DEF Entry
      <3>3. ASSUME NEW q \in Processes, run'[q] # None
            PROVE  run'[q] \in ran' /\ cmd'.results[run'[q]] = "none"
        BY <1>a, <1>p, <2>2, <3>1, <3>3 DEF Apart
      <3>4. QED
        BY <1>p, <2>2, <3>2, <3>3 DEF Apart
    <2>5. QED
      BY <2>3, <2>4
  <1>6. CASE EndCommand
    <2>1. cmd' = [cmd EXCEPT !.pc = "done"] /\ UNCHANGED <<run, ran, rows>>
          /\ \A t \in cmd.selected : cmd.results[t] # "none"
      BY <1>6 DEF EndCommand
    <2>2. /\ cmd'.pc = "done" /\ cmd'.selected = cmd.selected
          /\ cmd'.todo = cmd.todo /\ cmd'.results = cmd.results
      BY <1>a, <2>1 DEF Cmd
    <2>3. QED
      BY <1>p, <2>1, <2>2 DEF Entry, Apart
  <1>7. QED
    BY <1>0, <1>1, <1>2, <1>3, <1>4, <1>5, <1>6
    DEF Next, vars, command, Dispatch, Start, NotFound, Nest, Unnest, Subtask, Retry,
        Finish, Crash, CommandSends

\* Whatever tenants are deactivated, deleted and lost meanwhile, in a loop or
\* in a pool of any size: no tenant is worked for twice at a time, and when the
\* command reports, every selected tenant has one result, which says whether
\* it was worked for, and is "not found" only if its row is gone. The reason is
\* that each tenant is in one place of the books at a time, and that its row
\* was committed when it was selected.
THEOREM CommandReportsTruly == Spec => []ReportIsTrue
  <1>1. Init => TypeOK /\ BooksBalance
    <2>1. Init => BooksBalance
      BY DEF Init, BooksBalance, NoResult
    <2>2. QED
      BY <2>1, TypeInit
  <1>2. TypeOK /\ BooksBalance /\ [Next]_vars => TypeOK' /\ BooksBalance'
    BY TypeStep, BooksStep
  <1>3. TypeOK /\ BooksBalance => ReportIsTrue
    <2>1. ASSUME TypeOK, BooksBalance, cmd.pc = "done", NEW t \in Tenants
          PROVE  /\ t \in cmd.selected <=> cmd.results[t] # "none"
                 /\ t \in ran <=> cmd.results[t] = "ran"
                 /\ cmd.results[t] = "not found" => rows[t] = "gone"
      <3>1. cmd.results[t] \in {"none", "ran", "not found"}
        BY <2>1 DEF TypeOK, Cmd
      <3>2. QED
        BY <2>1, <3>1 DEF BooksBalance
    <2>2. QED
      BY <2>1 DEF BooksBalance, ReportIsTrue
  <1>4. QED
    BY <1>1, <1>2, <1>3, PTL DEF Spec
=============================================================================
