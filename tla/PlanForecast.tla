---------------------------- MODULE PlanForecast ----------------------------
(***************************************************************************)
(* One plan from the candidate of the planning run to the end of its       *)
(* execution, and what the calculations of Schedule make of it on the way: *)
(* calculate_plan for the candidate, validate_persisted_plan for the       *)
(* draft, MonitoringService.recalculate for the active plan and            *)
(* _scenario_result for a plan and an override.                            *)
(*                                                                         *)
(* The steps are one at a time: how requests overlap is the subject of     *)
(* PlanLifecycle, TaskExecution and Monitoring.  A snapshot is a function  *)
(* of the state, so it is an operator here and not a variable.             *)
(***************************************************************************)
EXTENDS Schedule, TaskRules

CONSTANTS
  Tasks,        \* 1..N, in the order of the stable keys
  Milestones,
  MilestoneOf,  \* task -> milestone
  Target,       \* milestone -> its target date
  Factors,      \* task -> the factors of its priority, each 0..100
  Streams,      \* task -> its workstreams
  Candidates,   \* what the models may propose: [list, effort]
  Projects,     \* [start, deadline, weekly, team, calendar] the owner may set
  Efforts,      \* likely hours an edit may set
  Overrides,    \* [task, effort, weekly] of a scenario
  Full,         \* the steps of a progress fraction
  MaxEdits,     \* bound: edits of the draft and of the project
  LastDay       \* bound: the last day

ASSUME TasksAssumption ==
  /\ IsFiniteSet(Tasks) /\ Tasks = 1..Cardinality(Tasks) /\ Tasks # {}
  /\ \A t \in Tasks :
       Factors[t] \in [mvp_necessity : Nat, deadline_urgency : Nat, user_value : Nat,
                       risk_reduction : Nat, user_preference : Nat]
ASSUME MilestoneAssumption ==
  MilestoneOf \in [Tasks -> Milestones] /\ Target \in [Milestones -> Int]
\* Any numbers may be given as references; an effort is positive
ASSUME CandidatesAssumption ==
  /\ Candidates \subseteq [list : Seq(Int \X Int), effort : [Tasks -> Nat \ {0}]]
  /\ Efforts \subseteq Nat \ {0}
\* What ProjectService and WorkCalendar accept
ASSUME ProjectsAssumption ==
  Projects \subseteq
    [start : Nat, deadline : {None} \cup Nat, weekly : Nat, team : Nat \ {0},
     calendar : {None} \cup [hours : [0..6 -> Nat], holidays : SUBSET Int,
                            from : {None} \cup Int, to : {None} \cup Int,
                            parallel : Nat \ {0}]]
\* What ScenarioOverrides accepts; a task has finitely many workstreams
ASSUME OverridesAssumption ==
  /\ Overrides \subseteq [task : Tasks, effort : Nat \ {0}, weekly : Nat \ {0}]
  /\ \A t \in Tasks : IsFiniteSet(Streams[t])
ASSUME FullAssumption == Full \in Nat \ {0}

VARIABLES
  stage,    \* "candidate", "rejected", "draft" or "active"
  list,     \* the dependencies, in the order the models gave them
  effort,   \* task -> effort_likely_hours
  project,
  quality,  \* quality_status
  issues,   \* the codes of the last quality report
  cycle,    \* cycle_path of the last graph error
  dates,    \* task -> planned_start and planned_finish
  status,   \* task -> status of its projection
  fraction, \* task -> progress_fraction, in steps
  today,
  edits     \* the edits that were made

plan == <<stage, list, effort, quality, issues, cycle, dates>>
work == <<status, fraction>>
vars == <<plan, project, work, today, edits>>

Edges == Range(list)
Undated == [start |-> None, finish |-> None]

-----------------------------------------------------------------------------
(* The project's calendar *)

\* project_work_calendar: the hours of one person.  Without a calendar of its
\* own a project works on weekdays; with one the availability factor brings
\* the week down to capacity_hours_per_week.
WorkCalendar ==
  LET own == project.calendar
      nominal == project.team * SumOf(own.hours, 0..6)
      scaled == [d \in 0..6 |->
                   IF project.weekly < nominal
                   THEN (own.hours[d] * project.weekly) \div nominal ELSE own.hours[d]]
  IN IF own = None
     THEN [hours |-> [d \in 0..6 |-> IF d < 5 THEN project.weekly \div (project.team * 5) ELSE 0],
           holidays |-> {}, from |-> None, to |-> None, parallel |-> Max({1, project.team})]
     ELSE [own EXCEPT !.hours = scaled]

PlanScore == Score(Tasks, Edges, Factors)

\* What schedule_tasks is given for the whole plan
WholePlan ==
  [tasks |-> Tasks, edges |-> Edges, effort |-> effort, score |-> PlanScore,
   start |-> project.start, cal |-> WorkCalendar, team |-> project.team,
   deadline |-> project.deadline]

Dated(s) ==
  [t \in Tasks |-> [start |-> Starts(s.slots, t), finish |-> Finishes(s.slots, t)]]

-----------------------------------------------------------------------------
(* The candidate and the draft *)

Init ==
  /\ stage = "candidate"
  /\ \E c \in Candidates : list = c.list /\ effort = c.effort
  /\ project \in Projects
  /\ quality = "not_run" /\ issues = {} /\ cycle = <<>>
  /\ dates = [t \in Tasks |-> Undated]
  /\ status = [t \in Tasks |-> "pending"]
  /\ fraction = [t \in Tasks |-> 0]
  /\ today = 0 /\ edits = 0

GraphIssues == IF GraphError(Tasks, list) = None THEN {} ELSE {GraphError(Tasks, list)}

CycleFound ==
  IF "DEPENDENCY_CYCLE" \in GraphIssues
  THEN FirstCycle(Tasks \ Range(GraphOrder(Tasks, Edges)), Edges) ELSE <<>>

\* calculate_plan: the run ends where the graph or the calendar has no dates
JudgeCandidate ==
  LET s == ScheduleTasks(WholePlan)
      sound == GraphIssues = {} /\ s.outcome = "placed"
  IN /\ stage = "candidate"
     /\ stage' = IF sound THEN "draft" ELSE "rejected"
     /\ issues' = IF GraphIssues # {} THEN GraphIssues
                  ELSE IF s.outcome = "no_capacity" THEN {"NO_WORKING_CAPACITY"} ELSE {}
     /\ cycle' = CycleFound
     /\ dates' = IF sound THEN Dated(s) ELSE dates
     /\ quality' = IF sound THEN "passed" ELSE "failed"
     /\ UNCHANGED <<list, effort, project, work, today, edits>>

\* _structural_issues, as far as efforts and dependencies go
StructuralIssues ==
  IF \E t \in Tasks : effort[t] < 4 \/ effort[t] > 24 THEN {"LEAF_TASK_TOO_LARGE"} ELSE {}

\* The must issues of the schedule, the failed calculation among them
ScheduleIssues(s) ==
  CASE s.outcome = "no_capacity" -> {"NO_WORKING_CAPACITY"}
    [] s.outcome = "error" -> {"DETERMINISTIC_CALCULATION_FAILED"}
    [] OTHER -> {}

\* validate_persisted_plan.  Dates are written whenever there are any, with or
\* without other issues, and stay as they were when there are none.
Validate ==
  LET s == ScheduleTasks(WholePlan)
      found == StructuralIssues \cup GraphIssues
               \cup (IF GraphIssues = {} THEN ScheduleIssues(s) ELSE {})
  IN /\ stage = "draft"
     /\ issues' = found
     /\ cycle' = CycleFound
     /\ quality' = IF found = {} THEN "passed" ELSE "failed"
     /\ dates' = IF GraphIssues = {} /\ s.outcome = "placed" THEN Dated(s) ELSE dates
     /\ UNCHANGED <<stage, list, effort, project, work, today, edits>>

\* An edit of the draft: _invalidate
Edited ==
  /\ stage = "draft" /\ edits < MaxEdits
  /\ edits' = edits + 1
  /\ quality' = "not_run" /\ issues' = {} /\ cycle' = <<>>
  /\ UNCHANGED <<stage, dates, project, work, today>>

\* Mutant: only the new edge is looked at
MutEnsureGraph(edges) == EdgeError(Tasks, edges) = None

\* _ensure_graph
EnsureGraph(edges) == GraphError(Tasks, edges) = None

CreateDependency ==
  /\ \E e \in Tasks \X Tasks : EnsureGraph(Append(list, e)) /\ list' = Append(list, e)
  /\ UNCHANGED effort
  /\ Edited

DeleteDependency ==
  /\ \E i \in DOMAIN list : list' = SubSeq(list, 1, i - 1) \o SubSeq(list, i + 1, Len(list))
  /\ UNCHANGED effort
  /\ Edited

UpdateEffort ==
  /\ \E t \in Tasks, h \in Efforts : effort[t] # h /\ effort' = [effort EXCEPT ![t] = h]
  /\ UNCHANGED list
  /\ Edited

\* ProjectService.update, at any time: it touches no plan
ChangeProject ==
  /\ stage # "rejected" /\ edits < MaxEdits
  /\ \E p \in Projects \ {project} : project' = p
  /\ edits' = edits + 1
  /\ UNCHANGED <<plan, work, today>>

\* approve_and_activate: it validates once more and then initializes the
\* projections
Activate ==
  LET s == ScheduleTasks(WholePlan) IN
  /\ stage = "draft" /\ quality = "passed"
  /\ StructuralIssues = {} /\ GraphIssues = {} /\ ScheduleIssues(s) = {}
  /\ stage' = "active"
  /\ status' = [t \in Tasks |-> Readiness("pending", Preds(Edges, t) = {})]
  /\ UNCHANGED <<list, effort, quality, issues, cycle, dates, project, fraction, today, edits>>

-----------------------------------------------------------------------------
(* Execution: see TaskExecution *)

Complete(st) == {t \in Tasks : st[t] = "completed"}

Transition(t, to) ==
  LET moved == [status EXCEPT ![t] = to] IN
  /\ stage = "active"
  /\ to \in Legal[status[t]]
  /\ to \in {"ready", "in_progress"} => Preds(Edges, t) \subseteq Complete(status)
  /\ status' = [u \in Tasks |-> Readiness(moved[u], Preds(Edges, u) \subseteq Complete(moved))]
  /\ fraction' = IF to = "completed" THEN [fraction EXCEPT ![t] = Full] ELSE fraction
  /\ UNCHANGED <<plan, project, today, edits>>

Reportable(t) == (fraction[t] + 1)..(Full - 1)

UpdateProgress(t) ==
  /\ stage = "active"
  /\ status[t] \in {"in_progress", "blocked"}
  /\ \E f \in Reportable(t) : fraction' = [fraction EXCEPT ![t] = f]
  /\ UNCHANGED <<plan, project, status, today, edits>>

NextDay ==
  /\ stage = "active" /\ today < LastDay
  /\ today' = today + 1
  /\ UNCHANGED <<plan, project, work, edits>>

Next ==
  \/ JudgeCandidate \/ Validate \/ CreateDependency \/ DeleteDependency \/ UpdateEffort
  \/ ChangeProject \/ Activate \/ NextDay
  \/ \E t \in Tasks : UpdateProgress(t) \/ \E s \in Statuses : Transition(t, s)

Spec == Init /\ [][Next]_vars

-----------------------------------------------------------------------------
(* recalculate: the snapshot of the active plan *)

Active == {t \in Tasks : status[t] # "cancelled"}
Incomplete == {t \in Active : status[t] # "completed"}

Left(t) == (effort[t] * (Full - fraction[t])) \div Full
Remaining == [t \in Tasks |-> Left(t)]

\* _remaining_schedule: priority_score is the one of the last validation, and
\* an active plan has not changed since
RemainingPlan ==
  [tasks |-> Incomplete, edges |-> Edges \cap (Incomplete \X Incomplete),
   effort |-> [t \in Incomplete |-> Max({1, Left(t)})], score |-> PlanScore,
   start |-> Max({today, project.start}), cal |-> WorkCalendar, team |-> project.team,
   deadline |-> project.deadline]

LeftOf(m) == {t \in Incomplete : MilestoneOf[t] = m}

\* _delayed_milestones
DelayedMilestones(s) ==
  {m \in Milestones :
     s.slots # {} /\ LeftOf(m) # {} /\ Max({Finishes(s.slots, t) : t \in LeftOf(m)}) > Target[m]}

\* Milestones with a critical task that are past their target
OverdueCritical ==
  {m \in {MilestoneOf[t] : t \in {u \in Tasks : Label(PlanScore[u]) = "Critical"}} :
     Target[m] < today /\ LeftOf(m) # {}}

\* _remaining_duration and _remaining_buffer
Duration(s) ==
  IF s.finish = None THEN 0
  ELSE Max({0, CountWorkingDays(WorkCalendar, today, s.finish, TRUE, TRUE)})
Buffer(s) ==
  IF project.deadline = None \/ s.finish = None THEN None
  ELSE Max({0, CountWorkingDays(WorkCalendar, s.finish, project.deadline, FALSE, TRUE)})

\* remaining_buffer_days <= remaining_planned_duration_days * 0.10
LowBuffer(s) == Buffer(s) # None /\ Duration(s) > 0 /\ 10 * Buffer(s) <= Duration(s)
\* capacity_overload_ratio > 0.10
Overload(s) == s.feasible = FALSE /\ 10 * s.shortfall > Max({1, Duration(s)})

Blocked == {t \in Incomplete : status[t] = "blocked"}

Holding(rules) == {r \in DOMAIN rules : rules[r]}

\* evaluate_health, the rules of each label
DelayedRules(s) == Holding(
  [DEADLINE_PASSED_INCOMPLETE |-> today > project.deadline,
   FORECAST_AFTER_DEADLINE |-> s.forecast # None /\ s.forecast > project.deadline,
   OVERDUE_CRITICAL_MILESTONE |-> OverdueCritical # {}])

\* Mutant: the blocked effort and the milestones are not looked at
MutAtRiskRules(s) == Holding(
  [LOW_REMAINING_BUFFER |-> LowBuffer(s),
   BLOCKED_CRITICAL_TASK |-> Blocked \cap Range(s.path) # {},
   CAPACITY_OVERLOAD |-> Overload(s)])

AtRiskRules(s) == Holding(
  [LOW_REMAINING_BUFFER |-> LowBuffer(s),
   BLOCKED_EFFORT_THRESHOLD |->
     /\ Incomplete # {}
     /\ 100 * SumOf(Remaining, Blocked) >= 15 * SumOf(Remaining, Incomplete),
   BLOCKED_CRITICAL_TASK |-> Blocked \cap Range(s.path) # {},
   MILESTONE_FORECAST_LATE |-> DelayedMilestones(s) # {},
   CAPACITY_OVERLOAD |-> Overload(s)])

HealthLabel(s) ==
  IF Active # {} /\ Incomplete = {} THEN "Completed"
  ELSE IF project.deadline = None THEN "Insufficient data"
  ELSE IF DelayedRules(s) # {} THEN "Delayed"
  ELSE IF AtRiskRules(s) # {} THEN "At risk"
  ELSE "On track"

UnmetTasks ==
  {t \in Tasks : status[t] \in {"ready", "in_progress"}
                 /\ ~(Preds(Edges, t) \subseteq Complete(status))}

PlannedFinish == LargestOf({dates[t].finish : t \in Active}, None)

\* detect_conditions; scope_change_count is never given
Detections(s) == Holding(
  [INCONSISTENT_STATE |-> GraphIssues # {},
   BLOCKED_TASKS |-> Blocked # {},
   OVERDUE_TASKS |-> \E t \in Incomplete : dates[t].finish < today,
   UNMET_DEPENDENCY |-> UnmetTasks # {},
   DELAYED_MILESTONE |-> \E m \in Milestones : Target[m] < today /\ LeftOf(m) # {},
   SCHEDULE_SLIPPAGE |-> PlannedFinish # None /\ s.forecast # None /\ s.forecast > PlannedFinish,
   SCHEDULE_INFEASIBLE |-> s.feasible = FALSE,
   LOW_BUFFER |-> LowBuffer(s),
   CAPACITY_OVERLOAD |-> Overload(s),
   READY_WORK_AVAILABLE |-> \E t \in Tasks : status[t] = "ready"])

CriticalDetections == {"INCONSISTENT_STATE", "UNMET_DEPENDENCY", "DELAYED_MILESTONE", "SCHEDULE_INFEASIBLE"}

-----------------------------------------------------------------------------
(* _scenario_result: what an override would change.  The range of a task's  *)
(* effort is half to twice the likely hours.                                *)

Lanes ==
  LET parallel == IF project.calendar = None THEN 1 ELSE project.calendar.parallel
      names == UNION {Streams[t] : t \in Tasks}
  IN [w \in names |-> [i \in 1..parallel |-> 0]]

\* durations
Overridden(o) == [effort EXCEPT ![o.task] = o.effort]

\* _capacity_ranges: workstreams share the weekly capacity evenly, so hours
\* measure what the code counts in weeks
CapacityRanges(likely) ==
  LET Finish(hours) == RangeFinishes(Tasks, Edges, hours, Streams, Lanes)
  IN [optimistic |-> Finish([t \in Tasks |-> Min({effort[t] \div 2, likely[t]})]),
      likely |-> Finish(likely),
      pessimistic |-> Finish([t \in Tasks |-> Max({2 * effort[t], likely[t]})])]

ScenarioResult(o) ==
  LET total == SumOf(Overridden(o), Tasks)
  IN [critical |-> CriticalPath(Tasks, Edges, Overridden(o)),
      finish |-> project.start + CapacityDays(total, o.weekly),
      ranges |-> CapacityRanges(Overridden(o))]

-----------------------------------------------------------------------------
(* Properties *)

\* A set of tasks each of which waits for another of the set
Cyclic(edges) == \E S \in (SUBSET Tasks) \ {{}} : \A t \in S : Preds(edges, t) \cap S # {}

\* No plan that the calculations let through, and no edit after them, has
\* dependencies that go in a circle; a candidate is turned down for a circle
\* exactly when it has one, and the one that is named is there.
GraphIsJudged ==
  /\ stage \in {"draft", "active"} =>
       /\ ~Cyclic(Edges)
       /\ Edges \subseteq Tasks \X Tasks
       /\ Cardinality(Edges) = Len(list)
  /\ stage = "rejected" /\ EdgeError(Tasks, list) = None =>
       (Cyclic(Edges) <=> "DEPENDENCY_CYCLE" \in issues)
  /\ "DEPENDENCY_CYCLE" \in issues =>
       /\ Len(cycle) > 1 /\ cycle[1] = cycle[Len(cycle)]
       /\ \A i \in 2..Len(cycle) : <<cycle[i - 1], cycle[i]>> \in Edges

Capacity(day) == WorkCalendar.hours[day % 7] * project.team

\* What the dates of a plan can be held to without the allocations
Fits ==
  LET days == {dates[t].start : t \in Tasks} \cup {dates[t].finish : t \in Tasks}
      Inside(a, b) == {t \in Tasks : dates[t].start >= a /\ dates[t].finish <= b}
  IN /\ \A e \in Edges : dates[e[1]].finish < dates[e[2]].start
     /\ \A d \in days : d >= project.start /\ Working(WorkCalendar, d)
     /\ \A a, b \in days :
          SumOf(effort, Inside(a, b))
            <= SumOf([d \in a..b |-> Capacity(d)], {d \in a..b : Working(WorkCalendar, d)})
     /\ \A d \in days :
          Cardinality({t \in Tasks : d \in {dates[t].start, dates[t].finish}}) <= WorkCalendar.parallel

\* A plan passes its quality gate only with dates that can be kept: after
\* every predecessor, on working days, no more work in any stretch of days
\* than the team has hours there, and no day with more tasks than the limit.
DatesFit == [][(JudgeCandidate \/ Validate) /\ quality' = "passed" => Fits']_vars

\* The forecast of an active plan plans the whole of what is left and nothing
\* else, from today on, within the hours and the limit of each day.
RemainingFits ==
  LET p == RemainingPlan
      s == ScheduleTasks(p)
      days == {r.day : r \in s.slots}
  IN stage = "active" /\ s.outcome = "placed" =>
     /\ \A t \in Incomplete :
          SumOf(Hours(s.slots), {r \in s.slots : r.task = t}) = Max({1, Left(t)})
     /\ \A d \in days : /\ d >= today
                        /\ HoursOn(s.slots, d) <= Capacity(d)
                        /\ Cardinality(TasksOn(s.slots, d)) <= p.cal.parallel
     /\ \A e \in p.edges : Finishes(s.slots, e[1]) < Starts(s.slots, e[2])

\* A task comes after another whatever closed set one starts from
Reaches(u, t) ==
  \A S \in SUBSET Tasks :
    Succs(Edges, u) \subseteq S /\ (\A v \in S : Succs(Edges, v) \subseteq S) => t \in S

\* Whatever is overridden, the critical path is the heaviest chain of
\* dependencies and its tasks are those on such a chain; more effort never
\* ends a task earlier; and no range ends before the critical path allows.
\* A scenario does not look at execution, so a draft shows what it says of the
\* active plan too.
ScenarioIsSound ==
  stage = "draft" =>
  \A o \in Overrides :
    LET hours == Overridden(o)
        result == ScenarioResult(o)
        chains == {S \in SUBSET Tasks : \A t, u \in S : t = u \/ Reaches(t, u) \/ Reaches(u, t)}
        Weight(S) == SumOf(hours, S)
        heaviest == Max({Weight(S) : S \in chains})
        ends == result.ranges
    IN /\ result.critical.duration = heaviest
       /\ result.critical.keys = UNION {S \in chains : Weight(S) = heaviest}
       /\ \A t \in Tasks : ends.optimistic[t] <= ends.likely[t] /\ ends.likely[t] <= ends.pessimistic[t]
       /\ Max(Range(ends.likely)) >= heaviest

\* As long as the rest of the work can be placed, a plan that is called on
\* track has no critical detection, ends in time, keeps its milestones, and
\* little of its work is blocked.  Execution never gives the monitor a task
\* that was started before its predecessors.
HealthIsHonest ==
  LET s == ScheduleTasks(RemainingPlan) IN
  stage = "active" =>
  /\ Detections(s) \cap {"INCONSISTENT_STATE", "UNMET_DEPENDENCY"} = {}
  /\ s.outcome = "placed" /\ HealthLabel(s) = "On track" =>
       /\ Detections(s) \cap CriticalDetections = {}
       /\ \A t \in Incomplete :
            /\ Finishes(s.slots, t) <= project.deadline
            /\ Finishes(s.slots, t) <= Target[MilestoneOf[t]]
       /\ 100 * SumOf(Remaining, Blocked) < 15 * SumOf(Remaining, Incomplete)

\* "IMPLEMENTATION PLAN.MD":685: at risk when any critical-path task is blocked.  It
\* does not hold: the code looks for blocked tasks on the schedule's blocking path,
\* which is empty while the deadline is met
BlockedCriticalIsAtRisk ==
  LET p == RemainingPlan
      s == ScheduleTasks(p)
      critical == CriticalPath(p.tasks, p.edges, p.effort).keys
  IN stage = "active" /\ Blocked \cap critical # {} => HealthLabel(s) # "On track"
=============================================================================
