------------------------ MODULE TaskExecutionProofs ------------------------
(***************************************************************************)
(* Theorems about TaskExecution, for any number of plans, tasks, clients   *)
(* and keys, any dependencies and any reports a client may send.           *)
(***************************************************************************)
EXTENDS TaskExecution, TLAPS, SequenceTheorems

Request == StatusRequest \cup ProgressRequest

\* What is not active yet has no rows and no events.
FutureUnwritten ==
  \A p \in Plans, t \in Tasks :
    p > plan => row[p][t] = Unwritten /\ history[p][t] = <<>>

\* The events of one task, and the status they lead to.
Explains(log, status) ==
  /\ log # <<>> /\ log[1].from = None
  /\ \A i \in 2..Len(log) :
       /\ log[i].from = log[i - 1].to
       /\ log[i].to \in Legal[log[i].from] \cup (IF log[i].key = None THEN {"pending"} ELSE {})
  /\ log[Len(log)].to = status

\* The rows of the active plan between a client's step and readiness.
Stepped(r) == [row[r.plan] EXCEPT ![r.task] = Moved(r)]

\* .. and the events.
Logged(r, t) ==
  IF t # r.task THEN history[r.plan][t]
  ELSE Recorded(history[r.plan][t], row[r.plan][t].status, r.to, r.key)

-----------------------------------------------------------------------------
(* Readiness *)

\* Readiness only moves a task between pending and ready.
LEMMA ReadinessMoves ==
  ASSUME NEW s \in Statuses, NEW b \in BOOLEAN
  PROVE  /\ Readiness(s, b) \in Statuses
         /\ Readiness(s, b) # s =>
              \/ s = "pending" /\ b /\ Readiness(s, b) = "ready"
              \/ s = "ready" /\ ~b /\ Readiness(s, b) = "pending"
         /\ s = "pending" /\ b => Readiness(s, b) = "ready"
         /\ s = "ready" /\ ~b => Readiness(s, b) = "pending"
BY DEF Readiness, Statuses

\* A row in another status is a row, and keeps its numbers.
LEMMA RowWithStatus ==
  ASSUME NEW x \in Row, NEW s \in Statuses
  PROVE  /\ [x EXCEPT !.status = s, !.version = @ + 1] \in Row
         /\ [x EXCEPT !.status = s, !.version = @ + 1].status = s
         /\ [x EXCEPT !.status = s, !.version = @ + 1].fraction = x.fraction
         /\ [x EXCEPT !.status = s, !.version = @ + 1].effort = x.effort
<1>1. x.version + 1 \in Nat
  BY DEF Row
<1> QED BY <1>1 DEF Row

\* One pass of it over the rows of a plan.
LEMMA PropagatedRows ==
  ASSUME NEW p \in Plans, NEW rows \in [Tasks -> Row]
  PROVE  /\ Propagated(p, rows) \in [Tasks -> Row]
         /\ \A t \in Tasks :
              /\ Propagated(p, rows)[t].status = Projected(p, rows, t)
              /\ Propagated(p, rows)[t].fraction = rows[t].fraction
              /\ Propagated(p, rows)[t].effort = rows[t].effort
         /\ \A t \in Tasks : Projected(p, rows, t) \in Statuses
<1>1. \A t \in Tasks : rows[t] \in Row /\ rows[t].status \in Statuses
  BY DEF Row
<1>2. \A t \in Tasks : Satisfied(p, rows, t) \in BOOLEAN
  BY DEF Satisfied
<1>3. \A t \in Tasks : Projected(p, rows, t) \in Statuses
  BY <1>1, <1>2, ReadinessMoves DEF Projected
<1>4. ASSUME NEW t \in Tasks
      PROVE  /\ Propagated(p, rows)[t] \in Row
             /\ Propagated(p, rows)[t].status = Projected(p, rows, t)
             /\ Propagated(p, rows)[t].fraction = rows[t].fraction
             /\ Propagated(p, rows)[t].effort = rows[t].effort
  <2>1. CASE Projected(p, rows, t) = rows[t].status
    BY <1>1, <2>1 DEF Propagated
  <2>2. CASE Projected(p, rows, t) # rows[t].status
    <3> DEFINE s == Projected(p, rows, t)
               x == rows[t]
               y == [x EXCEPT !.status = s, !.version = @ + 1]
    <3>1. Propagated(p, rows)[t] = y
      BY <2>2 DEF Propagated
    <3>2. x \in Row /\ s \in Statuses
      BY <1>3
    <3> HIDE DEF s, x
    <3>3. y \in Row /\ y.status = s /\ y.fraction = x.fraction /\ y.effort = x.effort
      BY <3>2, RowWithStatus
    <3> HIDE DEF y
    <3>4. /\ Propagated(p, rows)[t] \in Row
          /\ Propagated(p, rows)[t].status = s
          /\ Propagated(p, rows)[t].fraction = x.fraction
          /\ Propagated(p, rows)[t].effort = x.effort
      BY <3>1, <3>3
    <3> QED BY <3>4 DEF s, x
  <2> QED BY <2>1, <2>2
<1> QED BY <1>3, <1>4 DEF Propagated

\* Readiness completes no task and takes none back.
LEMMA PropagatedDone ==
  ASSUME NEW p \in Plans, NEW rows \in [Tasks -> Row]
  PROVE  /\ Done(p, Propagated(p, rows)) = Done(p, rows)
         /\ \A t \in Tasks : Satisfied(p, Propagated(p, rows), t) = Satisfied(p, rows, t)
<1>1. ASSUME NEW t \in Tasks
      PROVE  Propagated(p, rows)[t].status = "completed" <=> rows[t].status = "completed"
  <2>1. rows[t].status \in Statuses /\ Satisfied(p, rows, t) \in BOOLEAN
    BY DEF Row, Satisfied
  <2> QED BY <2>1, ReadinessMoves, PropagatedRows DEF Projected
<1>2. Done(p, Propagated(p, rows)) = Done(p, rows)
  BY <1>1 DEF Done
<1> QED BY <1>2 DEF Satisfied

-----------------------------------------------------------------------------
(* Histories *)

\* An event that starts where the last one ended, and is legal, is explained.
LEMMA ExplainsMore ==
  ASSUME NEW log \in Seq(Event), NEW s \in Statuses, NEW to \in Statuses,
         NEW key \in Keys \cup {None}, Explains(log, s),
         to \in Legal[s] \cup (IF key = None THEN {"pending"} ELSE {})
  PROVE  /\ Recorded(log, s, to, key) \in Seq(Event)
         /\ Explains(Recorded(log, s, to, key), to)
<1> DEFINE e == [from |-> s, to |-> to, key |-> key]
           new == Append(log, e)
<1>1. e \in Event
  BY DEF Event
<1>2. /\ new \in Seq(Event) /\ new # <<>> /\ Len(new) = Len(log) + 1
      /\ \A i \in 1..Len(log) : new[i] = log[i]
      /\ new[Len(log) + 1] = e
  BY <1>1, AppendProperties
<1>3. Len(log) \in Nat \ {0}
  BY EmptySeq DEF Explains
<1>4. new[1].from = None
  BY <1>2, <1>3 DEF Explains
<1>5. ASSUME NEW i \in 2..Len(new)
      PROVE  /\ new[i].from = new[i - 1].to
             /\ new[i].to \in Legal[new[i].from] \cup (IF new[i].key = None THEN {"pending"} ELSE {})
  <2>1. CASE i \in 2..Len(log)
    <3>1. new[i] = log[i] /\ new[i - 1] = log[i - 1]
      BY <1>2, <1>3, <2>1
    <3> QED BY <2>1, <3>1 DEF Explains
  <2>2. CASE i = Len(log) + 1
    <3>1. new[i] = e /\ new[i - 1] = log[Len(log)]
      BY <1>2, <1>3, <2>2
    <3> QED BY <3>1 DEF Explains
  <2> QED BY <1>2, <1>3, <2>1, <2>2
<1>6. new[Len(new)].to = to
  BY <1>2
<1> QED BY <1>2, <1>4, <1>5, <1>6 DEF Explains, Recorded

\* The history of a task that becomes active.
LEMMA ExplainsFirst ==
  ASSUME NEW s \in Statuses
  PROVE  /\ Recorded(<<>>, None, s, None) \in Seq(Event)
         /\ Len(Recorded(<<>>, None, s, None)) = 1
         /\ Recorded(<<>>, None, s, None)[1] = [from |-> None, to |-> s, key |-> None]
         /\ Explains(Recorded(<<>>, None, s, None), s)
<1> DEFINE e == [from |-> None, to |-> s, key |-> None]
<1>1. e \in Event
  BY DEF Event
<1>2. Append(<<>>, e) = <<e>>
  OBVIOUS
<1>3. <<e>> \in Seq(Event) /\ Len(<<e>>) = 1 /\ <<e>>[1] = e
  BY <1>1
<1>4. 2..1 = {}
  OBVIOUS
<1> QED BY <1>1, <1>2, <1>3, <1>4 DEF Explains, Recorded

-----------------------------------------------------------------------------
(* Steps *)

LEMMA Unstarted ==
  /\ Unwritten \in Row
  /\ Unwritten.status = "pending" /\ Unwritten.fraction = 0 /\ Unwritten.effort = 0
<1>1. 0 \in 0..Full /\ 0 \in 0..MaxEffort
  BY FullAssumption
<1> QED BY <1>1 DEF Unwritten, Row, Statuses

\* A plan that becomes active: its tasks without prerequisites are ready, with one
\* event each.
LEMMA InitializedPlan ==
  ASSUME NEW p \in Plans
  PROVE  /\ Initialized(p) \in [Tasks -> Row]
         /\ Activations(p) \in [Tasks -> Seq(Event)]
         /\ \A t \in Tasks :
              /\ Initialized(p)[t].status = IF Preds[p][t] = {} THEN "ready" ELSE "pending"
              /\ Initialized(p)[t].fraction = 0 /\ Initialized(p)[t].effort = 0
              /\ Explains(Activations(p)[t], Initialized(p)[t].status)
              /\ \A i \in DOMAIN Activations(p)[t] :
                   /\ Activations(p)[t][i].key = None
                   /\ Activations(p)[t][i].to \in {"pending", "ready"}
<1> DEFINE pending == [t \in Tasks |-> Unwritten]
           S(t) == Projected(p, pending, t)
           New(x) == [Unwritten EXCEPT !.status = x, !.version = 1]
<1>1. ASSUME NEW t \in Tasks PROVE S(t) = IF Preds[p][t] = {} THEN "ready" ELSE "pending"
  <2>1. Done(p, pending) = {}
    BY Unstarted DEF Done
  <2>2. Satisfied(p, pending, t) <=> Preds[p][t] = {}
    BY <2>1 DEF Satisfied
  <2>3. pending[t].status = "pending"
    BY Unstarted
  <2> QED BY <2>2, <2>3 DEF Projected, Readiness
<1>2. \A t \in Tasks : S(t) \in Statuses /\ S(t) \in {"pending", "ready"}
  BY <1>1 DEF Statuses
<1>3. Initialized(p) = [t \in Tasks |-> New(S(t))]
  BY DEF Initialized
<1>4. ASSUME NEW x \in Statuses
      PROVE  New(x) \in Row /\ New(x).status = x /\ New(x).fraction = 0 /\ New(x).effort = 0
  BY Unstarted DEF Row, Unwritten
<1> HIDE DEF S, New
<1>5. ASSUME NEW t \in Tasks
      PROVE  /\ Initialized(p)[t] \in Row /\ Initialized(p)[t].status = S(t)
             /\ Initialized(p)[t].fraction = 0 /\ Initialized(p)[t].effort = 0
  BY <1>2, <1>3, <1>4
<1>6. Initialized(p) \in [Tasks -> Row]
  BY <1>3, <1>5
<1>7. ASSUME NEW t \in Tasks
      PROVE  /\ Activations(p)[t] \in Seq(Event)
             /\ Explains(Activations(p)[t], S(t))
             /\ \A i \in DOMAIN Activations(p)[t] :
                  /\ Activations(p)[t][i].key = None
                  /\ Activations(p)[t][i].to \in {"pending", "ready"}
  <2> DEFINE log == Recorded(<<>>, None, S(t), None)
  <2>1. Activations(p)[t] = log
    BY <1>5 DEF Activations
  <2>2. /\ log \in Seq(Event) /\ Len(log) = 1 /\ Explains(log, S(t))
        /\ log[1] = [from |-> None, to |-> S(t), key |-> None]
    BY <1>2, ExplainsFirst
  <2>3. \A i \in DOMAIN log : i = 1
    BY <2>2
  <2> HIDE DEF log
  <2> QED BY <1>2, <2>1, <2>2, <2>3
<1>8. Activations(p) \in [Tasks -> Seq(Event)]
  BY <1>7 DEF Activations
<1> QED BY <1>1, <1>5, <1>6, <1>7, <1>8

\* A status request that takes effect was legal on the row the database has.
LEMMA TransitionGuard ==
  ASSUME TypeOK, NEW c \in Clients, Transition(c)
  PROVE  /\ request[c] \in StatusRequest
         /\ request[c].plan = plan /\ request[c].task \in Tasks
         /\ request[c].to \in Legal[row[plan][request[c].task].status]
         /\ request[c].to \in {"ready", "in_progress"} =>
              Satisfied(plan, row[plan], request[c].task)
         /\ request[c].key \in Keys /\ ~KeyUsed(request[c].key)
<1>1. request[c] \in StatusRequest \cup ProgressRequest
  BY DEF TypeOK, Transition
<1>2. request[c] \in StatusRequest
  BY <1>1 DEF Transition, ProgressRequest
<1>3. /\ request[c].kind = "status" /\ request[c].task \in Tasks /\ request[c].key \in Keys
  BY <1>2 DEF StatusRequest
<1>4. request[c].plan = plan
  BY DEF Transition, Current
<1>5. ~Found(request[c])
  BY DEF Transition, Insertable
<1> QED BY <1>2, <1>3, <1>4, <1>5 DEF Transition, Allowed, Found

LEMMA LegalStatuses ==
  \A s \in Statuses : Legal[s] \subseteq Statuses /\ "pending" \notin Legal[s] /\ s \notin Legal[s]
BY DEF Legal, Statuses

\* The row a status request leaves before readiness.
LEMMA SteppedRows ==
  ASSUME TypeOK, NEW r \in StatusRequest, r.plan = plan, r.task \in Tasks
  PROVE  /\ Stepped(r) \in [Tasks -> Row]
         /\ \A t \in Tasks \ {r.task} : Stepped(r)[t] = row[plan][t]
         /\ Stepped(r)[r.task].status = r.to
         /\ Stepped(r)[r.task].effort = row[plan][r.task].effort
         /\ Stepped(r)[r.task].fraction =
              IF r.to = "completed" THEN Full ELSE row[plan][r.task].fraction
<1> DEFINE old == row[plan][r.task]
           f == IF r.to = "completed" THEN Full ELSE old.fraction
<1>1. row[plan] \in [Tasks -> Row] /\ old \in Row /\ r.to \in Statuses
  BY DEF TypeOK, StatusRequest
<1>2. old.version + 1 \in Nat /\ f \in 0..Full
  BY <1>1, FullAssumption DEF Row
<1>3. Moved(r) = [old EXCEPT !.status = r.to, !.version = old.version + 1, !.fraction = f]
  BY DEF Moved
<1> HIDE DEF old, f
<1>4. /\ Moved(r) \in Row /\ Moved(r).status = r.to /\ Moved(r).effort = old.effort
      /\ Moved(r).fraction = f
  BY <1>1, <1>2, <1>3 DEF Row
<1>5. Stepped(r) = [row[plan] EXCEPT ![r.task] = Moved(r)]
  BY DEF Stepped
<1> HIDE DEF Stepped
<1>6. Stepped(r) \in [Tasks -> Row] /\ Stepped(r)[r.task] = Moved(r)
      /\ \A t \in Tasks \ {r.task} : Stepped(r)[t] = row[plan][t]
  BY <1>1, <1>4, <1>5
<1> QED BY <1>4, <1>6 DEF old, f

\* What a transition does to the rows.
LEMMA TransitionRows ==
  ASSUME TypeOK, NEW c \in Clients, Transition(c)
  PROVE  /\ plan' = plan /\ updates' = updates
         /\ row' \in [Plans -> [Tasks -> Row]]
         /\ \A p \in Plans \ {plan} : row'[p] = row[p]
         /\ row'[plan] = Propagated(plan, Stepped(request[c]))
<1>1. request[c] \in StatusRequest /\ request[c].plan = plan /\ request[c].task \in Tasks
  BY TransitionGuard
<1>2. Propagated(plan, Stepped(request[c])) \in [Tasks -> Row]
  BY <1>1, SteppedRows, PropagatedRows DEF TypeOK
<1>3. row' = [row EXCEPT ![plan] = Propagated(plan, Stepped(request[c]))]
  BY <1>1 DEF Transition, Stepped
<1> QED BY <1>2, <1>3 DEF TypeOK, Transition

\* .. and to the events.
LEMMA TransitionEvents ==
  ASSUME TypeOK, NEW c \in Clients, Transition(c)
  PROVE  /\ \A p \in Plans \ {plan} : history'[p] = history[p]
         /\ history' \in [Plans -> [Tasks -> Seq(Event)]]
         /\ \A t \in Tasks :
              /\ Logged(request[c], t) \in Seq(Event)
              /\ history'[plan][t] =
                   IF row'[plan][t].status = Stepped(request[c])[t].status
                   THEN Logged(request[c], t)
                   ELSE Recorded(Logged(request[c], t), Stepped(request[c])[t].status,
                                 row'[plan][t].status, None)
<1> DEFINE r == request[c]
           after == Propagated(plan, Stepped(r))
           new == [t \in Tasks |->
                     IF after[t].status = Stepped(r)[t].status THEN Logged(r, t)
                     ELSE Recorded(Logged(r, t), Stepped(r)[t].status, after[t].status, None)]
<1>1. /\ r \in StatusRequest /\ r.plan = plan /\ r.task \in Tasks /\ r.to \in Statuses
      /\ r.key \in Keys
  BY TransitionGuard DEF StatusRequest
<1>2. history' = [history EXCEPT ![plan] = new]
  BY <1>1 DEF Transition, Stepped, Logged
<1>3. row'[plan] = after /\ after \in [Tasks -> Row] /\ Stepped(r) \in [Tasks -> Row]
  BY <1>1, SteppedRows, PropagatedRows, TransitionRows DEF TypeOK
<1>4. ASSUME NEW log \in Seq(Event), NEW s \in Statuses, NEW u \in Statuses,
             NEW k \in Keys \cup {None}
      PROVE  Recorded(log, s, u, k) \in Seq(Event)
  <2>1. [from |-> s, to |-> u, key |-> k] \in Event
    BY DEF Event
  <2> QED BY <2>1, AppendProperties DEF Recorded
<1>5. ASSUME NEW t \in Tasks PROVE Logged(r, t) \in Seq(Event)
  <2>1. history[plan][t] \in Seq(Event) /\ row[plan][t].status \in Statuses
    BY DEF TypeOK, Row
  <2> QED BY <1>1, <1>4, <2>1 DEF Logged
<1>6. ASSUME NEW t \in Tasks PROVE new[t] \in Seq(Event)
  <2>1. after[t].status \in Statuses /\ Stepped(r)[t].status \in Statuses
    BY <1>3 DEF Row
  <2> QED BY <1>4, <1>5, <2>1
<1>7. new \in [Tasks -> Seq(Event)]
  BY <1>6
<1>8. history' \in [Plans -> [Tasks -> Seq(Event)]] /\ history'[plan] = new
      /\ \A p \in Plans \ {plan} : history'[p] = history[p]
  BY <1>2, <1>7 DEF TypeOK
<1>9. \A t \in Tasks : new[t] =
        IF row'[plan][t].status = Stepped(r)[t].status THEN Logged(r, t)
        ELSE Recorded(Logged(r, t), Stepped(r)[t].status, row'[plan][t].status, None)
  BY <1>3
<1> QED BY <1>5, <1>8, <1>9

\* What a progress report that takes effect does.
LEMMA ReportRows ==
  ASSUME TypeOK, NEW c \in Clients, UpdateProgress(c)
  PROVE  /\ plan' = plan /\ history' = history
         /\ request[c] \in ProgressRequest /\ request[c].task \in Tasks
         /\ row' \in [Plans -> [Tasks -> Row]]
         /\ \A p \in Plans \ {plan} : row'[p] = row[p]
         /\ \A t \in Tasks \ {request[c].task} : row'[plan][t] = row[plan][t]
         /\ LET old == row[plan][request[c].task]
                new == row'[plan][request[c].task]
            IN /\ old.status \in {"in_progress", "blocked"} /\ new.status = old.status
               /\ new.fraction >= old.fraction /\ new.fraction < Full
               /\ new.effort >= old.effort
<1> DEFINE r == request[c]
           old == row[plan][r.task]
           told == [old EXCEPT !.fraction = r.fraction, !.effort = r.effort]
           new == IF told = old THEN old ELSE [told EXCEPT !.version = old.version + 1]
<1>1. r \in StatusRequest \cup ProgressRequest /\ r.kind = "progress" /\ r.plan = plan
  BY DEF TypeOK, UpdateProgress, Current
<1>2. r \in ProgressRequest
  BY <1>1 DEF StatusRequest
<1>3. r.task \in Tasks /\ r.fraction \in 0..Full /\ r.effort \in 0..MaxEffort
  BY <1>2 DEF ProgressRequest
<1>4. old \in Row /\ old.version + 1 \in Nat
  BY <1>3 DEF TypeOK, Row
<1>5. /\ old.status \in {"in_progress", "blocked"}
      /\ r.fraction >= old.fraction /\ r.fraction < Full /\ r.effort >= old.effort
  BY <1>1 DEF UpdateProgress, Reportable
<1>6. row' = [row EXCEPT ![plan][r.task] = new] /\ plan' = plan /\ history' = history
  BY <1>1 DEF UpdateProgress
<1> HIDE DEF old, r
<1>7. /\ told \in Row /\ told.status = old.status /\ told.fraction = r.fraction
      /\ told.effort = r.effort
  BY <1>3, <1>4 DEF Row
<1> HIDE DEF told
<1>8. /\ new \in Row /\ new.status = old.status /\ new.fraction = r.fraction
      /\ new.effort = r.effort
  <2>1. CASE told = old
    BY <1>4, <1>7, <2>1
  <2>2. CASE told # old
    <3>1. new = [told EXCEPT !.version = old.version + 1]
      BY <2>2
    <3> HIDE DEF new
    <3> QED BY <1>4, <1>7, <3>1 DEF Row
  <2> QED BY <2>1, <2>2
<1> HIDE DEF new
<1>9. /\ row' \in [Plans -> [Tasks -> Row]] /\ row'[plan][r.task] = new
      /\ \A p \in Plans \ {plan} : row'[p] = row[p]
      /\ \A t \in Tasks \ {r.task} : row'[plan][t] = row[plan][t]
  BY <1>3, <1>6, <1>8 DEF TypeOK
<1> QED BY <1>2, <1>3, <1>5, <1>6, <1>8, <1>9 DEF old, r

\* What the activation of the next plan does.
LEMMA ActivationRows ==
  ASSUME TypeOK, Activate
  PROVE  /\ plan + 1 \in Plans /\ plan' = plan + 1 /\ plan \in Nat
         /\ row' \in [Plans -> [Tasks -> Row]]
         /\ history' \in [Plans -> [Tasks -> Seq(Event)]]
         /\ row'[plan + 1] = Initialized(plan + 1)
         /\ history'[plan + 1] = Activations(plan + 1)
         /\ \A p \in Plans \ {plan + 1} : row'[p] = row[p] /\ history'[p] = history[p]
<1>1. plan + 1 \in Plans /\ plan \in Nat
  BY PlansAssumption DEF TypeOK, Activate, Plans
<1> QED BY <1>1, InitializedPlan DEF TypeOK, Activate

-----------------------------------------------------------------------------
(* The type invariant *)

LEMMA SendableRequests ==
  ASSUME TypeOK
  PROVE  Sendable \subseteq Request
<1>1. ASSUME NEW t \in Tasks, NEW s \in Statuses, NEW k \in Keys
      PROVE  [kind |-> "status", plan |-> plan, task |-> t, to |-> s, key |-> k,
              expected |-> row[plan][t].version] \in Request
  <2>1. plan \in Plans /\ row[plan][t].version \in Nat
    BY DEF TypeOK, Row
  <2> QED BY <2>1 DEF Request, StatusRequest
<1>2. ASSUME NEW t \in Tasks, NEW d \in Reports, NEW k \in ReportKeys
      PROVE  [kind |-> "progress", plan |-> plan, task |-> t, fraction |-> d[1], effort |-> d[2],
              key |-> k, expected |-> row[plan][t].version] \in Request
  <2>1. plan \in Plans /\ row[plan][t].version \in Nat
    BY DEF TypeOK, Row
  <2>2. d[1] \in 0..Full /\ d[2] \in 0..MaxEffort
    BY ReportsAssumption
  <2> QED BY <2>1, <2>2 DEF Request, ProgressRequest
<1> QED BY <1>1, <1>2 DEF Sendable

LEMMA TypeInit == Init => TypeOK
<1> SUFFICES ASSUME Init PROVE TypeOK
  OBVIOUS
<1>1. 1 \in Plans
  BY PlansAssumption DEF Plans
<1>2. row \in [Plans -> [Tasks -> Row]]
  BY <1>1, InitializedPlan, Unstarted DEF Init
<1>3. history \in [Plans -> [Tasks -> Seq(Event)]]
  <2>1. <<>> \in Seq(Event)
    OBVIOUS
  <2> QED BY <1>1, <2>1, InitializedPlan DEF Init
<1> QED BY <1>1, <1>2, <1>3 DEF Init, TypeOK

LEMMA TypeStep == TypeOK /\ [Next]_vars => TypeOK'
<1> SUFFICES ASSUME TypeOK, [Next]_vars PROVE TypeOK'
  OBVIOUS
<1>1. CASE Activate
  BY <1>1, ActivationRows DEF TypeOK, Activate
<1>2. ASSUME NEW c \in Clients, Submit(c) PROVE TypeOK'
  BY <1>2, SendableRequests DEF TypeOK, Submit, Request
<1>3. ASSUME NEW c \in Clients, Transition(c) PROVE TypeOK'
  BY <1>3, TransitionRows, TransitionEvents DEF TypeOK, Transition, Finished
<1>4. ASSUME NEW c \in Clients, UpdateProgress(c) PROVE TypeOK'
  <2> DEFINE r == request[c]
  <2>1. [plan |-> r.plan, task |-> r.task, fraction |-> r.fraction, effort |-> r.effort] \in Update
    BY <1>4, ReportRows DEF ProgressRequest, Update
  <2>2. updates' \in [ReportKeys -> Update \cup {None}]
    BY <1>4, <2>1 DEF TypeOK, UpdateProgress
  <2> QED BY <1>4, <2>2, ReportRows DEF TypeOK, UpdateProgress, Finished
<1>5. ASSUME NEW c \in Clients, Refuse(c) PROVE TypeOK'
  BY <1>5 DEF TypeOK, Refuse, Finished
<1>6. CASE UNCHANGED vars
  BY <1>6 DEF vars, TypeOK
<1> QED BY <1>1, <1>2, <1>3, <1>4, <1>5, <1>6 DEF Next

\* Every variable of the execution keeps its type: services/execution.py.
THEOREM TypeCorrect == Spec => []TypeOK
BY TypeInit, TypeStep, PTL DEF Spec

-----------------------------------------------------------------------------
(* Plans that are not active yet *)

\* A plan has no rows and no events before it becomes active.
LEMMA FutureStep == TypeOK /\ FutureUnwritten /\ [Next]_vars => FutureUnwritten'
<1> SUFFICES ASSUME TypeOK, FutureUnwritten, [Next]_vars PROVE FutureUnwritten'
  OBVIOUS
<1>0. plan \in Plans /\ Plans \subseteq Nat
  BY PlansAssumption DEF TypeOK, Plans
<1>1. CASE Activate
  <2>1. ASSUME NEW p \in Plans, NEW t \in Tasks, p > plan'
        PROVE  row'[p][t] = Unwritten /\ history'[p][t] = <<>>
    <3>1. p # plan + 1 /\ p > plan
      BY <1>0, <1>1, <2>1, ActivationRows
    <3> QED BY <1>1, <3>1, ActivationRows DEF FutureUnwritten
  <2> QED BY <2>1 DEF FutureUnwritten
<1>2. ASSUME NEW c \in Clients, Transition(c) PROVE FutureUnwritten'
  <2>1. \A p \in Plans : p > plan => row'[p] = row[p] /\ history'[p] = history[p]
    BY <1>0, <1>2, TransitionRows, TransitionEvents
  <2> QED BY <1>2, <2>1, TransitionRows DEF FutureUnwritten
<1>3. ASSUME NEW c \in Clients, UpdateProgress(c) PROVE FutureUnwritten'
  <2>1. \A p \in Plans : p > plan => row'[p] = row[p]
    BY <1>0, <1>3, ReportRows
  <2> QED BY <1>3, <2>1, ReportRows DEF FutureUnwritten
<1>4. CASE UNCHANGED <<plan, row, history>>
  BY <1>4 DEF FutureUnwritten
<1> QED BY <1>1, <1>2, <1>3, <1>4 DEF Next, Submit, Refuse, vars

-----------------------------------------------------------------------------
(* Events explain statuses *)

\* The history of the moved task, and of the others, before readiness.
LEMMA LoggedExplains ==
  ASSUME TypeOK, HistoryExplainsStatus, NEW c \in Clients, Transition(c), NEW t \in Tasks
  PROVE  Explains(Logged(request[c], t), Stepped(request[c])[t].status)
<1> DEFINE r == request[c]
<1>1. /\ r \in StatusRequest /\ r.plan = plan /\ r.task \in Tasks /\ r.key \in Keys
      /\ r.to \in Statuses /\ r.to \in Legal[row[plan][r.task].status]
  BY TransitionGuard DEF StatusRequest
<1>2. plan \in 1..plan
  BY PlansAssumption DEF TypeOK, Plans
<1>3. /\ history[plan][t] \in Seq(Event) /\ row[plan][t].status \in Statuses
      /\ Explains(history[plan][t], row[plan][t].status)
  <2>1. Explains(history[plan][t], row[plan][t].status)
    BY <1>2 DEF HistoryExplainsStatus, Explains
  <2> QED BY <2>1 DEF TypeOK, Row
<1>4. CASE t # r.task
  <2>1. Stepped(r)[t] = row[plan][t]
    BY <1>1, <1>4, SteppedRows
  <2> QED BY <1>1, <1>3, <1>4, <2>1 DEF Logged
<1>5. CASE t = r.task
  <2>1. Stepped(r)[t].status = r.to
    BY <1>1, <1>5, SteppedRows
  <2>2. Logged(r, t) = Recorded(history[plan][t], row[plan][t].status, r.to, r.key)
    BY <1>1, <1>5 DEF Logged
  <2> QED BY <1>1, <1>3, <1>5, <2>1, <2>2, ExplainsMore
<1> QED BY <1>4, <1>5

\* .. and after it.
LEMMA TransitionExplains ==
  ASSUME TypeOK, HistoryExplainsStatus, NEW c \in Clients, Transition(c), NEW t \in Tasks
  PROVE  Explains(history'[plan][t], row'[plan][t].status)
<1> DEFINE r == request[c]
           s == Stepped(r)[t].status
           u == row'[plan][t].status
<1>1. r \in StatusRequest /\ r.plan = plan /\ r.task \in Tasks /\ plan \in Plans
  BY TransitionGuard DEF TypeOK
<1>2. Stepped(r) \in [Tasks -> Row] /\ s \in Statuses
  BY <1>1, SteppedRows DEF Row
<1>3. u = Readiness(s, Satisfied(plan, Stepped(r), t))
  BY <1>1, <1>2, TransitionRows, PropagatedRows DEF Projected
<1>4. Satisfied(plan, Stepped(r), t) \in BOOLEAN
  BY DEF Satisfied
<1>5. u \in Statuses /\ (u # s => u \in Legal[s] \cup {"pending"})
  <2>1. "ready" \in Legal["pending"]
    BY DEF Legal
  <2> HIDE DEF s, u
  <2> QED BY <1>2, <1>3, <1>4, <2>1, ReadinessMoves
<1>6. Logged(r, t) \in Seq(Event) /\ Explains(Logged(r, t), s)
  BY LoggedExplains, TransitionEvents
<1>7. history'[plan][t] = IF u = s THEN Logged(r, t) ELSE Recorded(Logged(r, t), s, u, None)
  BY TransitionEvents
<1>8. CASE u = s
  BY <1>6, <1>7, <1>8
<1>9. CASE u # s
  <2> HIDE DEF r, s, u
  <2>1. u \in Legal[s] \cup (IF None = None THEN {"pending"} ELSE {})
    BY <1>5, <1>9
  <2>2. None \in Keys \cup {None}
    OBVIOUS
  <2>3. Explains(Recorded(Logged(r, t), s, u, None), u)
    BY <1>2, <1>5, <1>6, <2>1, <2>2, ExplainsMore
  <2>4. Explains(history'[plan][t], u)
    BY <1>7, <1>9, <2>3
  <2> QED BY <2>4 DEF u
<1> QED BY <1>8, <1>9

LEMMA HistoryStep ==
  TypeOK /\ HistoryExplainsStatus /\ [Next]_vars => HistoryExplainsStatus'
<1> SUFFICES ASSUME TypeOK, HistoryExplainsStatus, [Next]_vars,
                    NEW p \in 1..plan', NEW t \in Tasks
             PROVE  Explains(history'[p][t], row'[p][t].status)
  BY DEF HistoryExplainsStatus, Explains
<1>0. plan \in Plans /\ Plans \subseteq Nat /\ 1..plan \subseteq Plans
  BY PlansAssumption DEF TypeOK, Plans
<1>1. ASSUME NEW q \in 1..plan PROVE Explains(history[q][t], row[q][t].status)
  BY DEF HistoryExplainsStatus, Explains
<1>2. CASE Activate
  <2>1. CASE p = plan + 1
    BY <1>2, <2>1, ActivationRows, InitializedPlan
  <2>2. CASE p # plan + 1
    <3>1. p \in 1..plan /\ p \in Plans \ {plan + 1}
      BY <1>0, <1>2, <2>2, ActivationRows
    <3>2. row'[p] = row[p] /\ history'[p] = history[p]
      BY <1>2, <3>1, ActivationRows
    <3> QED BY <1>1, <3>1, <3>2
  <2> QED BY <2>1, <2>2
<1>3. ASSUME NEW c \in Clients, Transition(c)
      PROVE  Explains(history'[p][t], row'[p][t].status)
  <2>1. p \in 1..plan /\ p \in Plans
    BY <1>0, <1>3, TransitionRows
  <2>2. CASE p = plan
    BY <1>3, <2>2, TransitionExplains
  <2>3. CASE p # plan
    BY <1>1, <1>3, <2>1, <2>3, TransitionRows, TransitionEvents
  <2> QED BY <2>2, <2>3
<1>4. ASSUME NEW c \in Clients, UpdateProgress(c)
      PROVE  Explains(history'[p][t], row'[p][t].status)
  <2>1. p \in 1..plan /\ p \in Plans /\ history' = history
    BY <1>0, <1>4, ReportRows
  <2>2. row'[p][t].status = row[p][t].status
    BY <1>4, <2>1, ReportRows
  <2> QED BY <1>1, <2>1, <2>2
<1>5. CASE UNCHANGED <<plan, row, history>>
  BY <1>1, <1>5
<1> QED BY <1>2, <1>3, <1>4, <1>5 DEF Next, Submit, Refuse, vars

LEMMA HistoryInit == Init => HistoryExplainsStatus
<1> SUFFICES ASSUME Init, NEW p \in 1..plan, NEW t \in Tasks
             PROVE  Explains(history[p][t], row[p][t].status)
  BY DEF HistoryExplainsStatus, Explains
<1>1. 1 \in Plans /\ p = 1
  BY PlansAssumption DEF Init, Plans
<1>2. history[1] = Activations(1) /\ row[1] = Initialized(1)
  BY <1>1 DEF Init
<1> QED BY <1>1, <1>2, InitializedPlan

\* The events of a task explain its status, after any interleaving of transitions,
\* readiness and activations: task_status_events of services/execution.py.
THEOREM HistoryExplains == Spec => []HistoryExplainsStatus
<1>1. TypeOK /\ HistoryExplainsStatus /\ [Next]_vars => (TypeOK /\ HistoryExplainsStatus)'
  BY TypeStep, HistoryStep
<1> QED BY <1>1, TypeInit, HistoryInit, PTL DEF Spec

-----------------------------------------------------------------------------
(* Rows agree with their prerequisites and their progress *)

\* One plan: between requests a task waits exactly while a prerequisite is open.
Agree(p, rows) ==
  \A t \in Tasks :
    /\ rows[t].status # "cancelled" => (rows[t].status = "pending" <=> ~Satisfied(p, rows, t))
    /\ rows[t].fraction = Full <=> rows[t].status = "completed"

\* A step of a client completes at most one task, and takes none back.
LEMMA SteppedDone ==
  ASSUME TypeOK, NEW r \in StatusRequest, r.plan = plan, r.task \in Tasks,
         r.to \in Legal[row[plan][r.task].status]
  PROVE  /\ Done(plan, row[plan]) \subseteq Done(plan, Stepped(r))
         /\ \A t \in Tasks : Satisfied(plan, row[plan], t) => Satisfied(plan, Stepped(r), t)
<1>1. row[plan][r.task].status # "completed"
  BY DEF Legal
<1>2. Done(plan, row[plan]) \subseteq Done(plan, Stepped(r))
  BY <1>1, SteppedRows DEF Done
<1> QED BY <1>2 DEF Satisfied

\* After the step, and before readiness, only a pending or a ready task can
\* disagree with its prerequisites.
LEMMA SteppedAgree ==
  ASSUME TypeOK, Agree(plan, row[plan]), NEW c \in Clients, Transition(c), NEW t \in Tasks
  PROVE  LET s == Stepped(request[c])[t] IN
         /\ s.status \notin {"pending", "ready", "cancelled"} =>
              Satisfied(plan, Stepped(request[c]), t)
         /\ s.fraction = Full <=> s.status = "completed"
<1> DEFINE r == request[c]
           old == row[plan][t]
<1>1. /\ r \in StatusRequest /\ r.plan = plan /\ r.task \in Tasks /\ r.to \in Statuses
      /\ r.to \in Legal[row[plan][r.task].status]
      /\ r.to \in {"ready", "in_progress"} => Satisfied(plan, row[plan], r.task)
  BY TransitionGuard DEF StatusRequest
<1>2. old.status \in Statuses
  BY DEF TypeOK, Row
<1>3. Satisfied(plan, row[plan], t) => Satisfied(plan, Stepped(r), t)
  BY <1>1, SteppedDone
<1>4. /\ old.status # "cancelled" => (old.status = "pending" <=> ~Satisfied(plan, row[plan], t))
      /\ old.fraction = Full <=> old.status = "completed"
  BY DEF Agree
<1>5. CASE t # r.task
  <2>1. Stepped(r)[t] = old
    BY <1>1, <1>5, SteppedRows
  <2> QED BY <1>2, <1>3, <1>4, <2>1
<1>6. CASE t = r.task
  <2>1. /\ Stepped(r)[t].status = r.to
        /\ Stepped(r)[t].fraction = IF r.to = "completed" THEN Full ELSE old.fraction
    BY <1>1, <1>6, SteppedRows
  <2>2. r.to \in Legal[old.status]
    BY <1>1, <1>6
  <2>3. old.status # "completed" /\ old.status # "cancelled"
    BY <2>2 DEF Legal
  <2>4. r.to \in {"blocked", "completed"} => old.status # "pending"
    BY <2>2 DEF Legal
  <2> QED BY <1>1, <1>3, <1>4, <1>6, <2>1, <2>3, <2>4 DEF Statuses
<1> QED BY <1>5, <1>6

\* Readiness brings the waiting tasks in line.
LEMMA TransitionAgree ==
  ASSUME TypeOK, Agree(plan, row[plan]), NEW c \in Clients, Transition(c)
  PROVE  Agree(plan, row'[plan])
<1> DEFINE rows == Stepped(request[c])
           new == Propagated(plan, rows)
<1>1. rows \in [Tasks -> Row] /\ plan \in Plans
  BY TransitionGuard, SteppedRows DEF TypeOK
<1>2. row'[plan] = new
  BY TransitionRows
<1> HIDE DEF rows
<1>3. ASSUME NEW t \in Tasks
      PROVE  /\ new[t].status # "cancelled" =>
                  (new[t].status = "pending" <=> ~Satisfied(plan, new, t))
             /\ new[t].fraction = Full <=> new[t].status = "completed"
  <2>1. /\ new[t].status = Readiness(rows[t].status, Satisfied(plan, rows, t))
        /\ new[t].fraction = rows[t].fraction
    BY <1>1, PropagatedRows DEF Projected
  <2>2. Satisfied(plan, new, t) = Satisfied(plan, rows, t)
    BY <1>1, PropagatedDone
  <2>3. rows[t].status \in Statuses /\ Satisfied(plan, rows, t) \in BOOLEAN
    BY <1>1 DEF Row, Satisfied
  <2>4. /\ rows[t].status \notin {"pending", "ready", "cancelled"} => Satisfied(plan, rows, t)
        /\ rows[t].fraction = Full <=> rows[t].status = "completed"
    BY SteppedAgree DEF rows
  <2> HIDE DEF new
  <2>5. CASE Satisfied(plan, rows, t)
    BY <2>1, <2>2, <2>3, <2>4, <2>5 DEF Readiness, Statuses
  <2>6. CASE ~Satisfied(plan, rows, t)
    BY <2>1, <2>2, <2>3, <2>4, <2>6 DEF Readiness, Statuses
  <2> QED BY <2>5, <2>6
<1> QED BY <1>2, <1>3 DEF Agree

\* A report changes no status, and does not complete.
LEMMA ReportAgree ==
  ASSUME TypeOK, Agree(plan, row[plan]), NEW c \in Clients, UpdateProgress(c)
  PROVE  Agree(plan, row'[plan])
<1> DEFINE r == request[c]
<1>1. \A t \in Tasks : row'[plan][t].status = row[plan][t].status
  BY ReportRows
<1>2. Done(plan, row'[plan]) = Done(plan, row[plan])
  BY <1>1 DEF Done
<1>3. \A t \in Tasks : Satisfied(plan, row'[plan], t) = Satisfied(plan, row[plan], t)
  BY <1>2 DEF Satisfied
<1>4. ASSUME NEW t \in Tasks
      PROVE  row'[plan][t].fraction = Full <=> row'[plan][t].status = "completed"
  <2>1. CASE t # r.task
    <3>1. row'[plan][t] = row[plan][t]
      BY <2>1, ReportRows
    <3> QED BY <3>1 DEF Agree
  <2>2. CASE t = r.task
    <3>1. /\ row'[plan][t].status \in {"in_progress", "blocked"}
          /\ row'[plan][t].fraction < Full
      BY <2>2, ReportRows
    <3>2. row'[plan][t].fraction # Full
      BY <3>1, FullAssumption
    <3> QED BY <3>1, <3>2
  <2> QED BY <2>1, <2>2
<1> QED BY <1>1, <1>3, <1>4 DEF Agree

LEMMA InitializedAgree ==
  ASSUME NEW p \in Plans
  PROVE  Agree(p, Initialized(p))
<1>1. Done(p, Initialized(p)) = {}
  BY InitializedPlan DEF Done
<1>2. \A t \in Tasks : Satisfied(p, Initialized(p), t) <=> Preds[p][t] = {}
  BY <1>1 DEF Satisfied
<1>3. 0 # Full
  BY FullAssumption
<1> QED BY <1>2, <1>3, InitializedPlan DEF Agree

LEMMA AgreeStep == TypeOK /\ RowsAgree /\ [Next]_vars => RowsAgree'
<1> SUFFICES ASSUME TypeOK, RowsAgree, [Next]_vars, NEW p \in 1..plan'
             PROVE  Agree(p, row'[p])
  BY DEF RowsAgree, Agree, Satisfied, Done
<1>0. plan \in Plans /\ Plans \subseteq Nat /\ 1..plan \subseteq Plans /\ plan \in 1..plan
  BY PlansAssumption DEF TypeOK, Plans
<1>1. ASSUME NEW q \in 1..plan PROVE Agree(q, row[q])
  BY DEF RowsAgree, Agree
<1>2. CASE Activate
  <2>1. CASE p = plan + 1
    BY <1>2, <2>1, ActivationRows, InitializedAgree
  <2>2. CASE p # plan + 1
    <3>1. p \in 1..plan /\ p \in Plans \ {plan + 1}
      BY <1>0, <1>2, <2>2, ActivationRows
    <3>2. row'[p] = row[p]
      BY <1>2, <3>1, ActivationRows
    <3> QED BY <1>1, <3>1, <3>2
  <2> QED BY <2>1, <2>2
<1>3. ASSUME NEW c \in Clients, Transition(c) PROVE Agree(p, row'[p])
  <2>1. p \in 1..plan /\ p \in Plans
    BY <1>0, <1>3, TransitionRows
  <2>2. CASE p = plan
    BY <1>0, <1>1, <1>3, <2>2, TransitionAgree
  <2>3. CASE p # plan
    <3>1. row'[p] = row[p]
      BY <1>3, <2>1, <2>3, TransitionRows
    <3> QED BY <1>1, <2>1, <3>1
  <2> QED BY <2>2, <2>3
<1>4. ASSUME NEW c \in Clients, UpdateProgress(c) PROVE Agree(p, row'[p])
  <2>1. p \in 1..plan /\ p \in Plans
    BY <1>0, <1>4, ReportRows
  <2>2. CASE p = plan
    BY <1>0, <1>1, <1>4, <2>2, ReportAgree
  <2>3. CASE p # plan
    <3>1. row'[p] = row[p]
      BY <1>4, <2>1, <2>3, ReportRows
    <3> QED BY <1>1, <2>1, <3>1
  <2> QED BY <2>2, <2>3
<1>5. CASE UNCHANGED <<plan, row, history>>
  BY <1>1, <1>5
<1> QED BY <1>2, <1>3, <1>4, <1>5 DEF Next, Submit, Refuse, vars

LEMMA AgreeInit == Init => RowsAgree
<1> SUFFICES ASSUME Init, NEW p \in 1..plan PROVE Agree(p, row[p])
  BY DEF RowsAgree, Agree
<1>1. 1 \in Plans /\ p = 1
  BY PlansAssumption DEF Init, Plans
<1>2. row[1] = Initialized(1)
  BY <1>1 DEF Init
<1> QED BY <1>1, <1>2, InitializedAgree

\* No task is left waiting when its last prerequisite is completed, none runs before
\* it, and progress is whole exactly with completion: _propagate_readiness.
THEOREM RowsAlwaysAgree == Spec => []RowsAgree
<1>1. TypeOK /\ RowsAgree /\ [Next]_vars => (TypeOK /\ RowsAgree)'
  BY TypeStep, AgreeStep
<1> QED BY <1>1, TypeInit, AgreeInit, PTL DEF Spec

-----------------------------------------------------------------------------
(* The events a step adds *)

LEMMA RecordedEvents ==
  ASSUME NEW log \in Seq(Event), NEW s \in Statuses, NEW to \in Statuses,
         NEW key \in Keys \cup {None}
  PROVE  /\ Recorded(log, s, to, key) \in Seq(Event)
         /\ DOMAIN log = 1..Len(log) /\ Len(log) \in Nat
         /\ DOMAIN Recorded(log, s, to, key) = 1..(Len(log) + 1)
         /\ \A i \in 1..Len(log) : Recorded(log, s, to, key)[i] = log[i]
         /\ Recorded(log, s, to, key)[Len(log) + 1] = [from |-> s, to |-> to, key |-> key]
<1> DEFINE e == [from |-> s, to |-> to, key |-> key]
<1>1. e \in Event
  BY DEF Event
<1>2. /\ Append(log, e) \in Seq(Event) /\ Len(Append(log, e)) = Len(log) + 1
      /\ \A i \in 1..Len(log) : Append(log, e)[i] = log[i]
      /\ Append(log, e)[Len(log) + 1] = e
  BY <1>1, AppendProperties
<1>3. DOMAIN log = 1..Len(log) /\ Len(log) \in Nat
  BY LenProperties
<1>4. DOMAIN Append(log, e) = 1..Len(Append(log, e))
  BY <1>2, LenProperties
<1> QED BY <1>2, <1>3, <1>4 DEF Recorded

\* A transition keeps the events of every task and adds the client's to one of
\* them; those of readiness have no key and start nothing.
LEMMA TransitionAdds ==
  ASSUME TypeOK, NEW c \in Clients, Transition(c), NEW t \in Tasks
  PROVE  LET r == request[c]
             old == history[plan][t]
             new == history'[plan][t]
             n == Len(old) + 1
         IN /\ DOMAIN old \subseteq DOMAIN new
            /\ \A i \in DOMAIN old : new[i] = old[i]
            /\ t = r.task => n \in DOMAIN new /\ new[n].to = r.to /\ new[n].key = r.key
            /\ \A i \in DOMAIN new :
                 \/ i \in DOMAIN old
                 \/ t = r.task /\ i = n
                 \/ new[i].key = None /\ new[i].to \in {"pending", "ready"}
<1> DEFINE r == request[c]
           old == history[plan][t]
           mid == Logged(r, t)
           new == history'[plan][t]
           n == Len(old) + 1
           s == Stepped(r)[t].status
           u == row'[plan][t].status
<1>1. /\ r \in StatusRequest /\ r.plan = plan /\ r.task \in Tasks /\ r.to \in Statuses
      /\ r.key \in Keys
  BY TransitionGuard DEF StatusRequest
<1>2. old \in Seq(Event) /\ row[plan][t].status \in Statuses
  BY DEF TypeOK, Row
<1>3. Stepped(r) \in [Tasks -> Row] /\ s \in Statuses
  BY <1>1, SteppedRows DEF Row
<1>4. u = Readiness(s, Satisfied(plan, Stepped(r), t)) /\ Satisfied(plan, Stepped(r), t) \in BOOLEAN
  <2>1. Satisfied(plan, Stepped(r), t) \in BOOLEAN
    BY DEF Satisfied
  <2>2. plan \in Plans
    BY DEF TypeOK
  <2>3. u = Projected(plan, Stepped(r), t)
    BY <1>1, <1>3, <2>2, TransitionRows, PropagatedRows
  <2> QED BY <2>1, <2>3 DEF Projected
<1>5. u \in Statuses /\ (u # s => u \in {"pending", "ready"})
  <2> HIDE DEF s, u
  <2> QED BY <1>3, <1>4, ReadinessMoves
<1>6. mid \in Seq(Event) /\ new = IF u = s THEN mid ELSE Recorded(mid, s, u, None)
  BY TransitionEvents
<1>7. /\ DOMAIN old = 1..Len(old) /\ Len(old) \in Nat
      /\ DOMAIN mid = 1..Len(mid) /\ Len(mid) \in Nat
  BY <1>2, <1>6, LenProperties
<1>8. /\ DOMAIN old \subseteq DOMAIN mid /\ \A i \in DOMAIN old : mid[i] = old[i]
      /\ t = r.task => n \in DOMAIN mid /\ mid[n].to = r.to /\ mid[n].key = r.key
      /\ \A i \in DOMAIN mid : i \in DOMAIN old \/ (t = r.task /\ i = n)
  <2>1. CASE t # r.task
    <3>1. mid = old
      BY <1>1, <2>1 DEF Logged
    <3> QED BY <2>1, <3>1
  <2>2. CASE t = r.task
    <3>1. mid = Recorded(old, row[plan][t].status, r.to, r.key)
      BY <1>1, <2>2 DEF Logged
    <3>2. /\ DOMAIN mid = 1..n /\ \A i \in 1..Len(old) : mid[i] = old[i]
          /\ mid[n] = [from |-> row[plan][t].status, to |-> r.to, key |-> r.key]
      <4> DEFINE from == row[plan][t].status
      <4>1. r.key \in Keys \cup {None} /\ from \in Statuses /\ mid = Recorded(old, from, r.to, r.key)
        BY <1>1, <1>2, <3>1
      <4> HIDE DEF r, mid, old, from
      <4>2. /\ DOMAIN mid = 1..(Len(old) + 1) /\ \A i \in 1..Len(old) : mid[i] = old[i]
            /\ mid[Len(old) + 1] = [from |-> from, to |-> r.to, key |-> r.key]
        BY <1>1, <1>2, <4>1, RecordedEvents
      <4> QED BY <4>2 DEF from
    <3> HIDE DEF r, mid, old
    <3> QED BY <1>7, <2>2, <3>2
  <2> QED BY <2>1, <2>2
<1>9. /\ DOMAIN mid \subseteq DOMAIN new /\ \A i \in DOMAIN mid : new[i] = mid[i]
      /\ \A i \in DOMAIN new :
           i \in DOMAIN mid \/ (new[i].key = None /\ new[i].to \in {"pending", "ready"})
  <2> HIDE DEF mid, new, s, u
  <2>1. CASE u = s
    BY <1>6, <2>1
  <2>2. CASE u # s
    <3>1. new = Recorded(mid, s, u, None) /\ u \in {"pending", "ready"}
      BY <1>5, <1>6, <2>2
    <3>2. /\ DOMAIN new = 1..(Len(mid) + 1) /\ \A i \in 1..Len(mid) : new[i] = mid[i]
          /\ new[Len(mid) + 1] = [from |-> s, to |-> u, key |-> None]
      BY <1>3, <1>5, <1>6, <3>1, RecordedEvents
    <3> QED BY <1>7, <3>1, <3>2
  <2> QED BY <2>1, <2>2
<1> HIDE DEF r, old, mid, new, n
<1>10. /\ DOMAIN old \subseteq DOMAIN new
       /\ \A i \in DOMAIN old : new[i] = old[i]
       /\ t = r.task => n \in DOMAIN new /\ new[n].to = r.to /\ new[n].key = r.key
       /\ \A i \in DOMAIN new :
            \/ i \in DOMAIN old
            \/ t = r.task /\ i = n
            \/ new[i].key = None /\ new[i].to \in {"pending", "ready"}
  BY <1>8, <1>9
<1> QED BY <1>10 DEF r, old, new, n

-----------------------------------------------------------------------------
(* Idempotency keys *)

\* An event of a client after a step was there before, or is the one of the request
\* that has just taken effect.
LEMMA KeyedEvents ==
  ASSUME TypeOK, [Next]_vars, NEW p \in Plans, NEW t \in Tasks,
         NEW i \in DOMAIN history'[p][t], history'[p][t][i].key # None
  PROVE  \/ i \in DOMAIN history[p][t] /\ history'[p][t][i] = history[p][t][i]
         \/ \E c \in Clients :
              /\ Transition(c)
              /\ p = plan /\ t = request[c].task /\ i = Len(history[p][t]) + 1
              /\ history'[p][t][i].key = request[c].key
<1>1. CASE Activate
  <2>1. CASE p = plan + 1
    BY <1>1, <2>1, ActivationRows, InitializedPlan
  <2>2. CASE p # plan + 1
    BY <1>1, <2>2, ActivationRows
  <2> QED BY <2>1, <2>2
<1>2. ASSUME NEW c \in Clients, Transition(c)
      PROVE  \/ i \in DOMAIN history[p][t] /\ history'[p][t][i] = history[p][t][i]
             \/ /\ p = plan /\ t = request[c].task /\ i = Len(history[p][t]) + 1
                /\ history'[p][t][i].key = request[c].key
  <2>1. CASE p # plan
    BY <1>2, <2>1, TransitionEvents
  <2>2. CASE p = plan
    BY <1>2, <2>2, TransitionAdds
  <2> QED BY <2>1, <2>2
<1>3. CASE history' = history
  BY <1>3
<1> QED BY <1>1, <1>2, <1>3 DEF Next, Submit, Refuse, UpdateProgress, vars

LEMMA KeyStep == TypeOK /\ KeyAppliedOnce /\ [Next]_vars => KeyAppliedOnce'
<1> SUFFICES ASSUME TypeOK, KeyAppliedOnce, [Next]_vars,
                    NEW p \in Plans, NEW q \in Plans, NEW t \in Tasks, NEW u \in Tasks,
                    NEW i \in DOMAIN history'[p][t], NEW j \in DOMAIN history'[q][u],
                    history'[p][t][i].key # None,
                    history'[p][t][i].key = history'[q][u][j].key
             PROVE  <<p, t, i>> = <<q, u, j>>
  BY DEF KeyAppliedOnce
<1> DEFINE Old(x, y, k) == k \in DOMAIN history[x][y] /\ history'[x][y][k] = history[x][y][k]
           New(x, y, k) == \E c \in Clients :
                             /\ Transition(c)
                             /\ x = plan /\ y = request[c].task /\ k = Len(history[x][y]) + 1
                             /\ history'[x][y][k].key = request[c].key
<1>1. Old(p, t, i) \/ New(p, t, i)
  BY KeyedEvents
<1>2. Old(q, u, j) \/ New(q, u, j)
  BY KeyedEvents
<1>3. CASE Old(p, t, i) /\ Old(q, u, j)
  BY <1>3 DEF KeyAppliedOnce
\* a key that was used before is not used by a transition
<1>4. ASSUME NEW x \in Plans, NEW y \in Tasks, NEW k, Old(x, y, k),
             NEW v \in Plans, NEW w \in Tasks, NEW l, New(v, w, l),
             history'[x][y][k].key = history'[v][w][l].key
      PROVE  FALSE
  <2> PICK c \in Clients : Transition(c) /\ history'[v][w][l].key = request[c].key
    BY <1>4
  <2>1. history[x][y][k].key = request[c].key /\ k \in DOMAIN history[x][y]
    BY <1>4
  <2>2. KeyUsed(request[c].key)
    BY <2>1 DEF KeyUsed
  <2> QED BY <2>2, TransitionGuard
\* the rows of two transitions in one step are the same
<1>5. CASE New(p, t, i) /\ New(q, u, j)
  <2>1. PICK c \in Clients :
          /\ Transition(c)
          /\ p = plan /\ t = request[c].task /\ i = Len(history[p][t]) + 1
          /\ history'[p][t][i].key = request[c].key
    BY <1>5
  <2>2. q = plan /\ p = plan
    BY <1>5
  <2>3. CASE u = t
    BY <1>5, <2>2, <2>3
  <2>4. CASE u # t
    <3>1. \/ j \in DOMAIN history[plan][u]
          \/ history'[plan][u][j].key = None
      BY <2>1, <2>2, <2>4, TransitionAdds
    <3>2. j = Len(history[plan][u]) + 1
      BY <1>5, <2>2
    <3>3. history[plan][u] \in Seq(Event)
      BY DEF TypeOK
    <3>4. j \notin DOMAIN history[plan][u]
      BY <3>2, <3>3, LenProperties
    <3> QED BY <2>2, <3>1, <3>4
  <2> QED BY <2>3, <2>4
<1> HIDE DEF Old, New
<1> QED BY <1>1, <1>2, <1>3, <1>4, <1>5

LEMMA KeyInit == Init => KeyAppliedOnce
<1> SUFFICES ASSUME Init, NEW p \in Plans, NEW t \in Tasks, NEW i \in DOMAIN history[p][t]
             PROVE  history[p][t][i].key = None
  BY DEF KeyAppliedOnce
<1>1. CASE p = 1
  <2>1. history[p][t] = Activations(p)[t]
    BY <1>1 DEF Init
  <2> QED BY <2>1, InitializedPlan
<1>2. CASE p # 1
  <2>1. history[p][t] = <<>>
    BY <1>2 DEF Init
  <2>2. DOMAIN << >> = {}
    OBVIOUS
  <2> QED BY <2>1, <2>2
<1> QED BY <1>1, <1>2

\* Two requests with one idempotency key never both take effect: the lookup before
\* the lock in transition, and the unique event_key at the insert.
THEOREM KeysAppliedOnce == Spec => []KeyAppliedOnce
<1>1. TypeOK /\ KeyAppliedOnce /\ [Next]_vars => (TypeOK /\ KeyAppliedOnce)'
  BY TypeStep, KeyStep
<1> QED BY <1>1, TypeInit, KeyInit, PTL DEF Spec

-----------------------------------------------------------------------------
(* What a closed plan keeps *)

LEMMA RecordsStep ==
  ASSUME TypeOK, FutureUnwritten, Next, NEW p \in Plans, NEW t \in Tasks
  PROVE  /\ p < plan => row'[p][t] = row[p][t] /\ history'[p][t] = history[p][t]
         /\ row'[p][t].fraction >= row[p][t].fraction
         /\ row'[p][t].effort >= row[p][t].effort
<1>0. plan \in Plans /\ plan \in Nat /\ p \in Nat
  BY PlansAssumption DEF TypeOK, Plans
<1>1. row[p][t].fraction \in Nat /\ row[p][t].effort \in Nat /\ row[p][t].fraction <= Full
  BY FullAssumption DEF TypeOK, Row
<1>2. CASE Activate
  <2>1. CASE p = plan + 1
    <3>1. /\ row'[p][t].fraction = 0 /\ row'[p][t].effort = 0
          /\ row[p][t].fraction = 0 /\ row[p][t].effort = 0
      BY <1>0, <1>2, <2>1, ActivationRows, InitializedPlan, Unstarted DEF FutureUnwritten
    <3> QED BY <1>0, <2>1, <3>1
  <2>2. CASE p # plan + 1
    <3>1. row'[p] = row[p] /\ history'[p] = history[p]
      BY <1>2, <2>2, ActivationRows
    <3> QED BY <1>1, <3>1
  <2> QED BY <2>1, <2>2
<1>3. ASSUME NEW c \in Clients, Transition(c)
      PROVE  /\ p < plan => row'[p][t] = row[p][t] /\ history'[p][t] = history[p][t]
             /\ row'[p][t].fraction >= row[p][t].fraction
             /\ row'[p][t].effort >= row[p][t].effort
  <2> DEFINE r == request[c]
  <2>1. CASE p # plan
    <3>1. row'[p] = row[p] /\ history'[p] = history[p]
      BY <1>3, <2>1, TransitionRows, TransitionEvents
    <3> QED BY <1>1, <3>1
  <2>2. CASE p = plan
    <3>1. r \in StatusRequest /\ r.plan = plan /\ r.task \in Tasks
      BY <1>3, TransitionGuard
    <3>2. /\ row'[plan][t].fraction = Stepped(r)[t].fraction
          /\ row'[plan][t].effort = Stepped(r)[t].effort
      BY <1>0, <1>3, <3>1, TransitionRows, SteppedRows, PropagatedRows
    <3>3. /\ Stepped(r)[t].effort = row[plan][t].effort
          /\ Stepped(r)[t].fraction \in {Full, row[plan][t].fraction}
      BY <3>1, SteppedRows
    <3> HIDE DEF r
    <3> QED BY <1>0, <1>1, <2>2, <3>2, <3>3, FullAssumption
  <2> QED BY <2>1, <2>2
<1>4. ASSUME NEW c \in Clients, UpdateProgress(c)
      PROVE  /\ p < plan => row'[p][t] = row[p][t] /\ history'[p][t] = history[p][t]
             /\ row'[p][t].fraction >= row[p][t].fraction
             /\ row'[p][t].effort >= row[p][t].effort
  <2>1. CASE p # plan \/ t # request[c].task
    <3>1. row'[p][t] = row[p][t] /\ history' = history
      BY <1>0, <1>4, <2>1, ReportRows
    <3> QED BY <1>1, <3>1
  <2>2. CASE p = plan /\ t = request[c].task
    BY <1>0, <1>4, <2>2, ReportRows
  <2> QED BY <2>1, <2>2
<1>5. CASE row' = row /\ history' = history
  BY <1>1, <1>5
<1> QED BY <1>2, <1>3, <1>4, <1>5 DEF Next, Submit, Refuse

LEMMA FutureInit == Init => FutureUnwritten
BY PlansAssumption DEF Init, FutureUnwritten, Plans

LEMMA FutureInvariance == Spec => [](TypeOK /\ FutureUnwritten)
<1>1. TypeOK /\ FutureUnwritten /\ [Next]_vars => (TypeOK /\ FutureUnwritten)'
  BY TypeStep, FutureStep
<1> QED BY <1>1, TypeInit, FutureInit, PTL DEF Spec

\* A superseded plan keeps its rows and its events whatever request was on its way,
\* and progress and effort never go back: _owned_active_task and update_progress.
THEOREM RecordsAreKept == Spec => RecordsKept
<1> DEFINE A == \A p \in Plans, t \in Tasks :
                  /\ p < plan => row'[p][t] = row[p][t] /\ history'[p][t] = history[p][t]
                  /\ row'[p][t].fraction >= row[p][t].fraction
                  /\ row'[p][t].effort >= row[p][t].effort
<1>1. TypeOK /\ FutureUnwritten /\ [Next]_vars => [A]_vars
  BY RecordsStep
<1> QED BY <1>1, FutureInvariance, PTL DEF Spec, RecordsKept

-----------------------------------------------------------------------------
(* The work order *)

Begun == {t \in Tasks : \E i \in DOMAIN history[plan][t] : history[plan][t][i].to = "in_progress"}
Completed == {t \in Tasks : row[plan][t].status = "completed"}
Dropped == {t \in Tasks : row[plan][t].status = "cancelled"}

OrderInv == TypeOK /\ HistoryExplainsStatus

\* The sets of a plan that has just become active are empty.
LEMMA NothingBegun ==
  ASSUME NEW p \in Plans, NEW t \in Tasks
  PROVE  /\ ~\E i \in DOMAIN Activations(p)[t] : Activations(p)[t][i].to = "in_progress"
         /\ Initialized(p)[t].status \notin {"completed", "cancelled"}
BY InitializedPlan

LEMMA ActivationReplans ==
  ASSUME TypeOK, Activate
  PROVE  plan' = plan + 1 /\ Begun' = {} /\ Completed' = {} /\ Dropped' = {}
<1>1. /\ plan' = plan + 1 /\ plan + 1 \in Plans
      /\ row'[plan'] = Initialized(plan + 1) /\ history'[plan'] = Activations(plan + 1)
  BY ActivationRows
<1> QED BY <1>1, NothingBegun DEF Begun, Completed, Dropped

\* A task is completed only from in_progress, so it was begun.
LEMMA InProgressBegun ==
  ASSUME OrderInv, NEW t \in Tasks, row[plan][t].status = "in_progress"
  PROVE  t \in Begun
<1>1. plan \in 1..plan
  BY PlansAssumption DEF OrderInv, TypeOK, Plans
<1>2. Explains(history[plan][t], "in_progress")
  BY <1>1 DEF OrderInv, HistoryExplainsStatus, Explains
<1>3. history[plan][t] \in Seq(Event)
  BY DEF OrderInv, TypeOK
<1>4. /\ Len(history[plan][t]) \in DOMAIN history[plan][t]
      /\ history[plan][t][Len(history[plan][t])].to = "in_progress"
  BY <1>2, <1>3, LenProperties, EmptySeq DEF Explains
<1> QED BY <1>4 DEF Begun

\* A transition touches the three sets only by the task it names.
LEMMA TransitionSets ==
  ASSUME TypeOK, NEW c \in Clients, Transition(c)
  PROVE  LET r == request[c]
             Of(s) == IF r.to = s THEN {r.task} ELSE {}
         IN /\ plan' = plan
            /\ Begun' = Begun \cup Of("in_progress")
            /\ Completed' = Completed \cup Of("completed")
            /\ Dropped' = Dropped \cup Of("cancelled")
<1> DEFINE r == request[c]
<1>1. /\ r \in StatusRequest /\ r.plan = plan /\ r.task \in Tasks /\ r.to \in Statuses
      /\ r.to \in Legal[row[plan][r.task].status] /\ plan \in Plans /\ plan' = plan
  BY TransitionGuard, TransitionRows DEF StatusRequest, TypeOK
<1>2. row[plan][r.task].status \notin {"completed", "cancelled"}
  BY <1>1 DEF Legal
<1>3. Stepped(r) \in [Tasks -> Row]
  BY <1>1, SteppedRows
<1>4. ASSUME NEW t \in Tasks
      PROVE  \A s \in {"completed", "cancelled"} :
               row'[plan][t].status = s <=>
                 row[plan][t].status = s \/ (t = r.task /\ r.to = s)
  <2>1. row'[plan][t].status =
          Readiness(Stepped(r)[t].status, Satisfied(plan, Stepped(r), t))
    BY <1>1, <1>3, TransitionRows, PropagatedRows DEF Projected
  <2>2. Stepped(r)[t].status \in Statuses /\ Satisfied(plan, Stepped(r), t) \in BOOLEAN
    BY <1>3 DEF Row, Satisfied
  <2>3. \A s \in {"completed", "cancelled"} :
          row'[plan][t].status = s <=> Stepped(r)[t].status = s
    BY <2>1, <2>2, ReadinessMoves
  <2>4. CASE t = r.task
    <3>1. Stepped(r)[t].status = r.to
      BY <1>1, <2>4, SteppedRows
    <3> QED BY <1>2, <2>3, <2>4, <3>1
  <2>5. CASE t # r.task
    <3>1. Stepped(r)[t] = row[plan][t]
      BY <1>1, <2>5, SteppedRows
    <3> QED BY <2>3, <2>5, <3>1
  <2> QED BY <2>4, <2>5
<1>5. ASSUME NEW t \in Tasks
      PROVE  (t \in Begun)' <=> t \in Begun \/ (t = r.task /\ r.to = "in_progress")
  <2> DEFINE old == history[plan][t]
             new == history'[plan][t]
             n == Len(old) + 1
  <2>1. /\ DOMAIN old \subseteq DOMAIN new /\ \A i \in DOMAIN old : new[i] = old[i]
        /\ t = r.task => n \in DOMAIN new /\ new[n].to = r.to
        /\ \A i \in DOMAIN new :
             i \in DOMAIN old \/ (t = r.task /\ i = n) \/ new[i].to \in {"pending", "ready"}
    BY TransitionAdds
  <2>2. (t \in Begun)' <=> \E i \in DOMAIN new : new[i].to = "in_progress"
    BY <1>1 DEF Begun
  <2>3. t \in Begun <=> \E i \in DOMAIN old : old[i].to = "in_progress"
    BY DEF Begun
  <2> HIDE DEF old, new, n, r
  <2> QED BY <2>1, <2>2, <2>3
<1>6. Begun \subseteq Tasks /\ Begun' \subseteq Tasks
  BY DEF Begun
<1>7. /\ Begun' = Begun \cup (IF r.to = "in_progress" THEN {r.task} ELSE {})
  BY <1>1, <1>5, <1>6
<1>8. Completed' = Completed \cup (IF r.to = "completed" THEN {r.task} ELSE {})
  BY <1>1, <1>4 DEF Completed
<1>9. Dropped' = Dropped \cup (IF r.to = "cancelled" THEN {r.task} ELSE {})
  BY <1>1, <1>4 DEF Dropped
<1> QED BY <1>1, <1>7, <1>8, <1>9

\* A report moves no task.
LEMMA ReportSets ==
  ASSUME TypeOK, NEW c \in Clients, UpdateProgress(c)
  PROVE  UNCHANGED <<plan, Begun, Completed, Dropped>>
<1>1. plan' = plan /\ history' = history
  BY ReportRows
<1>2. \A t \in Tasks : row'[plan][t].status = row[plan][t].status
  BY ReportRows
<1> QED BY <1>1, <1>2 DEF Begun, Completed, Dropped

LEMMA TransitionFollows ==
  ASSUME OrderInv, NEW c \in Clients, Transition(c)
  PROVE  [Order!Next]_<<plan, Begun, Completed, Dropped>>
<1> DEFINE r == request[c]
           t == r.task
<1>1. /\ r.to \in Legal[row[plan][t].status] /\ t \in Tasks
      /\ r.to = "in_progress" => Satisfied(plan, row[plan], t)
      /\ r.to \in Statuses
  BY TransitionGuard DEF OrderInv, StatusRequest
<1>2. /\ plan' = plan
      /\ Begun' = Begun \cup (IF r.to = "in_progress" THEN {t} ELSE {})
      /\ Completed' = Completed \cup (IF r.to = "completed" THEN {t} ELSE {})
      /\ Dropped' = Dropped \cup (IF r.to = "cancelled" THEN {t} ELSE {})
  BY TransitionSets DEF OrderInv
<1>3. t \notin Completed /\ t \notin Dropped
  BY <1>1 DEF Completed, Dropped, Legal
<1>4. Satisfied(plan, row[plan], t) <=> Preds[plan][t] \subseteq Completed
  BY DEF Satisfied, Done, Completed
<1>5. r.to = "completed" => t \in Begun
  <2>1. r.to = "completed" => row[plan][t].status = "in_progress"
    <3>1. row[plan][t].status \in Statuses
      BY <1>1 DEF OrderInv, TypeOK, Row
    <3> QED BY <1>1, <3>1 DEF Legal, Statuses
  <2> QED BY <1>1, <2>1, InProgressBegun
<1>6. CASE r.to = "in_progress"
  <2>1. Order!Begin(r.task)
    BY <1>1, <1>2, <1>3, <1>4, <1>6
       DEF Order!Begin, Order!Pursued, Begun, Completed, Dropped
  <2>2. r.task \in Tasks
    BY <1>1
  <2> HIDE DEF r
  <2>3. \E u \in Tasks : Order!Begin(u)
    BY <2>1, <2>2 DEF Order!Begin, Order!Pursued
  <2>4. Order!Next
    BY <2>3 DEF Order!Next
  <2> QED BY <2>4
<1>7. CASE r.to = "completed"
  <2>1. Order!Finish(r.task)
    BY <1>1, <1>2, <1>3, <1>5, <1>7
       DEF Order!Finish, Order!Pursued, Begun, Completed, Dropped
  <2>2. r.task \in Tasks
    BY <1>1
  <2> HIDE DEF r
  <2>3. \E u \in Tasks : Order!Finish(u)
    BY <2>1, <2>2 DEF Order!Finish, Order!Pursued
  <2>4. Order!Next
    BY <2>3 DEF Order!Next
  <2> QED BY <2>4
<1>8. CASE r.to = "cancelled"
  <2>1. Order!Drop(r.task)
    BY <1>1, <1>2, <1>3, <1>8
       DEF Order!Drop, Order!Pursued, Begun, Completed, Dropped
  <2>2. r.task \in Tasks
    BY <1>1
  <2> HIDE DEF r
  <2>3. \E u \in Tasks : Order!Drop(u)
    BY <2>1, <2>2 DEF Order!Drop, Order!Pursued
  <2>4. Order!Next
    BY <2>3 DEF Order!Next
  <2> QED BY <2>4
<1>9. CASE r.to \notin {"in_progress", "completed", "cancelled"}
  BY <1>2, <1>9
<1> QED BY <1>6, <1>7, <1>8, <1>9

\* TaskExecution implements WorkOrder: no task is begun before what it depends on is
\* done, none is done that was not begun, and what is done or dropped stays so.
THEOREM WorkIsOrdered == Spec => FollowsWorkOrder
<1>1. Init => Order!Init
  <2>1. Init => Begun = {} /\ Completed = {} /\ Dropped = {} /\ plan = 1
    <3> SUFFICES ASSUME Init PROVE Begun = {} /\ Completed = {} /\ Dropped = {} /\ plan = 1
      OBVIOUS
    <3>1. plan = 1 /\ 1 \in Plans
      BY PlansAssumption DEF Init, Plans
    <3>2. row[1] = Initialized(1) /\ history[1] = Activations(1)
      BY <3>1 DEF Init
    <3> QED BY <3>1, <3>2, NothingBegun DEF Begun, Completed, Dropped
  <2> QED BY <2>1 DEF Order!Init, Begun, Completed, Dropped
<1>2. OrderInv /\ [Next]_vars => [Order!Next]_<<plan, Begun, Completed, Dropped>>
  <2> SUFFICES ASSUME OrderInv, [Next]_vars
               PROVE  [Order!Next]_<<plan, Begun, Completed, Dropped>>
    OBVIOUS
  <2>1. CASE Activate
    <3>1. plan' = plan + 1 /\ Begun' = {} /\ Completed' = {} /\ Dropped' = {}
      BY <2>1, ActivationReplans DEF OrderInv
    <3>2. Order!Replan
      BY <3>1 DEF Order!Replan, Begun, Completed, Dropped
    <3> QED BY <3>2 DEF Order!Next
  <2>2. ASSUME NEW c \in Clients, Transition(c)
        PROVE  [Order!Next]_<<plan, Begun, Completed, Dropped>>
    BY <2>2, TransitionFollows
  <2>3. ASSUME NEW c \in Clients, UpdateProgress(c)
        PROVE  UNCHANGED <<plan, Begun, Completed, Dropped>>
    BY <2>3, ReportSets DEF OrderInv
  <2>4. CASE UNCHANGED <<plan, row, history>>
    BY <2>4 DEF Begun, Completed, Dropped
  <2> QED BY <2>1, <2>2, <2>3, <2>4 DEF Next, Submit, Refuse, vars
<1>3. OrderInv /\ [Next]_vars => OrderInv'
  BY TypeStep, HistoryStep DEF OrderInv
<1>4. Init => OrderInv
  BY TypeInit, HistoryInit DEF OrderInv
<1>5. <<plan, Begun, Completed, Dropped>> = Order!work
  BY DEF Order!work, Begun, Completed, Dropped
<1> QED BY <1>1, <1>2, <1>3, <1>4, PTL
    DEF Spec, FollowsWorkOrder, Order!Spec, Order!work, Begun, Completed, Dropped
=============================================================================
