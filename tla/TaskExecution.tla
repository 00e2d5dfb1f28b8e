--------------------------- MODULE TaskExecution ---------------------------
(***************************************************************************)
(* The execution of the active plan: initialize_active_plan and the two    *)
(* mutations of ExecutionService, transition and update_progress.          *)
(*                                                                         *)
(* A mutation looks for an event with its idempotency key before it takes  *)
(* a lock.  Then it locks the rows of the task, the plan and the project   *)
(* (_owned_active_task, FOR UPDATE: the mutations of one project wait for  *)
(* each other), reads the projections for the first time in its session    *)
(* and commits.  So a request is two actions: Submit, which looks for the  *)
(* key, and Transition, UpdateProgress or Refuse.  row_version of a        *)
(* projection goes up with every UPDATE, and an UPDATE is only sent when a *)
(* value differs.  event_key is unique in each of the two event tables.    *)
(*                                                                         *)
(* A request that dies before its commit, or whose answer is lost after    *)
(* it, leaves the client free to send it again: Submit takes any key.      *)
(***************************************************************************)
EXTENDS Naturals, Sequences, TaskRules

CONSTANTS
  NumPlans,    \* versions of the plan that become active one after another
  Tasks,
  Preds,       \* plan -> task -> the tasks it depends on
  Keys,        \* idempotency keys of transitions
  ReportKeys,  \* .. and of progress reports: event_key has a prefix for each
  Clients,     \* requests in flight
  Full,        \* progress_fraction 1, in the steps a client reports
  MaxEffort,   \* bound: actual_effort_hours
  Reports,     \* <<fraction, effort>> a client may report
  None

Plans == 1..NumPlans

ASSUME PlansAssumption == NumPlans \in Nat \ {0}
ASSUME PredsAssumption == Preds \in [Plans -> [Tasks -> SUBSET Tasks]]
ASSUME FullAssumption == Full \in Nat \ {0} /\ MaxEffort \in Nat
ASSUME ReportsAssumption == Reports \subseteq (0..Full) \X (0..MaxEffort)
ASSUME NoneAssumption == None \notin Keys

VARIABLES
  plan,      \* the active version
  row,       \* plan -> task -> its task_execution_projections row
  history,   \* plan -> task -> its task_status_events, oldest first
  updates,   \* key -> the progress_updates row of a client
  request    \* client -> what it sent, once its key was not found

vars == <<plan, row, history, updates, request>>

Row == [status : Statuses, fraction : 0..Full, effort : 0..MaxEffort, version : Nat]
Unwritten == [status |-> "pending", fraction |-> 0, effort |-> 0, version |-> 0]

\* A system event has no key of a client: activation and readiness keys are
\* derived from the plan or from the event that caused them
Event == [from : Statuses \cup {None}, to : Statuses, key : Keys \cup {None}]

Update == [plan : Plans, task : Tasks, fraction : 0..Full, effort : 0..MaxEffort]

StatusRequest ==
  [kind : {"status"}, plan : Plans, task : Tasks, to : Statuses, key : Keys,
   expected : Nat]
ProgressRequest ==
  [kind : {"progress"}, plan : Plans, task : Tasks, fraction : 0..Full,
   effort : 0..MaxEffort, key : ReportKeys, expected : Nat]

-----------------------------------------------------------------------------
(* Readiness, project_readiness *)

Done(p, rows) == {t \in Tasks : rows[t].status = "completed"}

\* Mutant: a cancelled predecessor counts as finished
MutSatisfied(p, rows, t) ==
  \A u \in Preds[p][t] : rows[u].status \in {"completed", "cancelled"}

\* prerequisites_satisfied
Satisfied(p, rows, t) == Preds[p][t] \subseteq Done(p, rows)

Projected(p, rows, t) == Readiness(rows[t].status, Satisfied(p, rows, t))

\* The event that is added with a new status
Recorded(log, from, to, key) == Append(log, [from |-> from, to |-> to, key |-> key])

-----------------------------------------------------------------------------
(* A plan becomes active *)

\* initialize_active_plan: the tasks of an approved plan are all pending
Initialized(p) ==
  LET pending == [t \in Tasks |-> Unwritten]
  IN [t \in Tasks |-> [Unwritten EXCEPT !.status = Projected(p, pending, t), !.version = 1]]

\* .. and the event of each
Activations(p) == [t \in Tasks |-> Recorded(<<>>, None, Initialized(p)[t].status, None)]

Init ==
  /\ plan = 1
  /\ row = [p \in Plans |-> IF p = 1 THEN Initialized(1) ELSE [t \in Tasks |-> Unwritten]]
  /\ history = [p \in Plans |-> IF p = 1 THEN Activations(1) ELSE [t \in Tasks |-> <<>>]]
  /\ updates = [k \in ReportKeys |-> None]
  /\ request = [c \in Clients |-> None]

\* approve_and_activate: it holds the lock of the project too
Activate ==
  /\ plan < NumPlans
  /\ plan' = plan + 1
  /\ row' = [row EXCEPT ![plan + 1] = Initialized(plan + 1)]
  /\ history' = [history EXCEPT ![plan + 1] = Activations(plan + 1)]
  /\ UNCHANGED <<updates, request>>

-----------------------------------------------------------------------------
(* The lookup of the idempotency key *)

\* The user events of a key: event_key is status:<owner>:<key>
KeyUsed(k) ==
  \E p \in Plans, t \in Tasks :
    \E i \in DOMAIN history[p][t] : history[p][t][i].key = k

Found(r) == IF r.kind = "status" THEN KeyUsed(r.key) ELSE updates[r.key] # None

\* What a client that has the board before it may send
Sendable ==
  {[kind |-> "status", plan |-> plan, task |-> t, to |-> s, key |-> k,
    expected |-> row[plan][t].version] : t \in Tasks, s \in Statuses, k \in Keys}
  \cup
  {[kind |-> "progress", plan |-> plan, task |-> t, fraction |-> d[1], effort |-> d[2], key |-> k,
    expected |-> row[plan][t].version] : t \in Tasks, d \in Reports, k \in ReportKeys}

\* A key that is found ends the request here, with the recorded event when it
\* is the same request and with a conflict when it is another one
Submit(c) ==
  /\ request[c] = None
  /\ \E r \in Sendable :
       /\ ~Found(r)
       /\ request' = [request EXCEPT ![c] = r]
  /\ UNCHANGED <<plan, row, history, updates>>

-----------------------------------------------------------------------------
(* The mutations, from the lock to the commit *)

Finished(c) == request' = [request EXCEPT ![c] = None]

\* _owned_active_task finds the task, and its row is the one the client saw
Current(r) == r.plan = plan /\ row[plan][r.task].version = r.expected

\* Mutant: whatever the client asks for
MutAllowed(r) == r.to # row[r.plan][r.task].status

\* The conditions of transition after the version
Allowed(r) ==
  /\ r.to \in Legal[row[r.plan][r.task].status]
  /\ r.to \in {"ready", "in_progress"} => Satisfied(r.plan, row[r.plan], r.task)

\* Mutant: event_key is not unique
MutInsertable(r) == TRUE

\* INSERT of the event: a request with the same key may have committed since
\* the lookup
Insertable(r) == ~Found(r)

\* The row with its new status; completion sets the progress to 1
Moved(r) ==
  LET old == row[r.plan][r.task] IN
  [old EXCEPT !.status = r.to, !.version = old.version + 1,
              !.fraction = IF r.to = "completed" THEN Full ELSE old.fraction]

\* Mutant: readiness is not propagated
MutPropagated(p, rows) == rows

\* _propagate_readiness: one pass, from one reading of all statuses
Propagated(p, rows) ==
  [t \in Tasks |->
     IF Projected(p, rows, t) = rows[t].status THEN rows[t]
     ELSE [rows[t] EXCEPT !.status = Projected(p, rows, t), !.version = @ + 1]]

Transition(c) ==
  LET r == request[c]
      moved == [row[r.plan] EXCEPT ![r.task] = Moved(r)]
      after == Propagated(r.plan, moved)
      \* the events before those of readiness
      log(t) == IF t # r.task THEN history[r.plan][t]
                ELSE Recorded(history[r.plan][t], row[r.plan][t].status, r.to, r.key)
  IN /\ r # None /\ r.kind = "status"
     /\ Current(r) /\ Allowed(r) /\ Insertable(r)
     /\ row' = [row EXCEPT ![r.plan] = after]
     /\ history' = [history EXCEPT ![r.plan] =
          [t \in Tasks |->
             IF after[t].status = moved[t].status THEN log(t)
             ELSE Recorded(log(t), moved[t].status, after[t].status, None)]]
     /\ Finished(c)
     /\ UNCHANGED <<plan, updates>>

\* Mutant: progress may go back
MutReportable(r) ==
  row[r.plan][r.task].status \in {"in_progress", "blocked"} /\ r.fraction < Full

\* The conditions of update_progress after the version
Reportable(r) ==
  LET old == row[r.plan][r.task] IN
  /\ old.status \in {"in_progress", "blocked"}
  /\ r.fraction >= old.fraction /\ r.fraction < Full
  /\ r.effort >= old.effort

UpdateProgress(c) ==
  LET r == request[c]
      old == row[r.plan][r.task]
      new == [old EXCEPT !.fraction = r.fraction, !.effort = r.effort]
  IN /\ r # None /\ r.kind = "progress"
     /\ Current(r) /\ Reportable(r) /\ Insertable(r)
     /\ row' = [row EXCEPT ![r.plan][r.task] =
                  IF new = old THEN old ELSE [new EXCEPT !.version = old.version + 1]]
     /\ updates' = [updates EXCEPT ![r.key] =
          [plan |-> r.plan, task |-> r.task, fraction |-> r.fraction, effort |-> r.effort]]
     /\ Finished(c)
     /\ UNCHANGED <<plan, history>>

\* 404, 409, an aborted transaction or a process that dies: nothing is written
Refuse(c) ==
  /\ request[c] # None
  /\ Finished(c)
  /\ UNCHANGED <<plan, row, history, updates>>

Next ==
  \/ Activate
  \/ \E c \in Clients : Submit(c) \/ Transition(c) \/ UpdateProgress(c) \/ Refuse(c)

Spec == Init /\ [][Next]_vars

-----------------------------------------------------------------------------
(* Properties *)

TypeOK ==
  /\ plan \in Plans
  /\ row \in [Plans -> [Tasks -> Row]]
  /\ history \in [Plans -> [Tasks -> Seq(Event)]]
  /\ updates \in [ReportKeys -> Update \cup {None}]
  /\ request \in [Clients -> StatusRequest \cup ProgressRequest \cup {None}]

\* The events of a task tell how it came to its status: the first is the
\* activation, each starts where the one before it ended, each step of a
\* client is legal, and the last ends in the status of the row.
HistoryExplainsStatus ==
  \A p \in 1..plan, t \in Tasks :
    LET log == history[p][t] IN
    /\ log # <<>> /\ log[1].from = None
    /\ \A i \in 2..Len(log) :
         /\ log[i].from = log[i - 1].to
         /\ log[i].to \in Legal[log[i].from] \cup (IF log[i].key = None THEN {"pending"} ELSE {})
    /\ log[Len(log)].to = row[p][t].status

\* Two requests with one idempotency key never both take effect, whatever
\* tasks and plans they name and however they overlap.
KeyAppliedOnce ==
  \A p, q \in Plans, t, u \in Tasks :
    \A i \in DOMAIN history[p][t], j \in DOMAIN history[q][u] :
      /\ history[p][t][i].key # None
      /\ history[p][t][i].key = history[q][u][j].key
      => <<p, t, i>> = <<q, u, j>>

\* Between requests a task waits exactly while a prerequisite is not
\* completed: none is left pending when the last one is, and none that was
\* started or completed has an open one.  Progress is whole exactly when the
\* task is completed.
RowsAgree ==
  \A p \in 1..plan, t \in Tasks :
    /\ row[p][t].status # "cancelled" =>
         (row[p][t].status = "pending" <=> ~Satisfied(p, row[p], t))
    /\ row[p][t].fraction = Full <=> row[p][t].status = "completed"

\* The record of a plan is closed when the next one becomes active: a request
\* that was on its way changes neither its rows nor its events.  Progress and
\* effort never go back.
RecordsKept ==
  [][\A p \in Plans, t \in Tasks :
       /\ p < plan => row'[p][t] = row[p][t] /\ history'[p][t] = history[p][t]
       /\ row'[p][t].fraction >= row[p][t].fraction
       /\ row'[p][t].effort >= row[p][t].effort]_vars

\* The work follows the dependencies of the plan: see WorkOrder.
Order == INSTANCE WorkOrder WITH
  begun <- {t \in Tasks : \E i \in DOMAIN history[plan][t] :
                            history[plan][t][i].to = "in_progress"},
  done <- {t \in Tasks : row[plan][t].status = "completed"},
  dropped <- {t \in Tasks : row[plan][t].status = "cancelled"}

FollowsWorkOrder == Order!Spec
=============================================================================
