------------------------------ MODULE Schedule ------------------------------
(***************************************************************************)
(* The calculations of app/domain that turn a dependency graph, efforts    *)
(* and a calendar into dates: validate_graph, calculate_critical_path,     *)
(* score_priorities, schedule_tasks and _schedule_range.                   *)
(*                                                                         *)
(* Tasks are numbers in the order of their stable keys, days are numbers   *)
(* (0 is a Monday), edges are <<predecessor, successor>>.  Hours are whole *)
(* numbers; the rounding of what a day allocates to 0.01 h is left out.    *)
(***************************************************************************)
EXTENDS Integers, Sequences, FiniteSets, Functions, FiniteSetsExt, TLC

CONSTANTS
  SearchLimit,  \* bound: search_limit_days of next_working_day
  None

ASSUME LimitsAssumption == SearchLimit \in Nat
ASSUME NoneAssumption ==
  /\ None \notin Int
  /\ None \notin {"MISSING_TASK_REFERENCE", "SELF_DEPENDENCY", "DUPLICATE_DEPENDENCY",
                  "DEPENDENCY_CYCLE"}

\* The sum of a function over some of its arguments
SumOf(f, S) == MapThenSumSet(LAMBDA x : f[x], S)

Preds(edges, t) == {e[1] : e \in {d \in edges : d[2] = t}}
Succs(edges, t) == {e[2] : e \in {d \in edges : d[1] = t}}

-----------------------------------------------------------------------------
(* graph.py *)

\* The tasks that wait for nothing but what was popped
Waiting(tasks, edges, popped) == {t \in tasks \ popped : Preds(edges, t) \subseteq popped}

\* The top of the heap: the highest score, then the first key
First(heap, score) ==
  CHOOSE t \in heap : \A u \in heap :
    score[t] > score[u] \/ (score[t] = score[u] /\ t <= u)

PopNext(tasks, edges, score, popped) ==
  LET heap == Waiting(tasks, edges, Range(popped))
  IN IF heap = {} THEN popped ELSE Append(popped, First(heap, score))

\* Kahn's algorithm with a heap.  It stops short of the tasks on and behind a cycle.
TopologicalOrder(tasks, edges, score) ==
  LET order[n \in 0..Cardinality(tasks)] ==
        IF n = 0 THEN <<>> ELSE PopNext(tasks, edges, score, order[n - 1])
  IN order[Cardinality(tasks)]

\* validate_graph's own order has no scores
GraphOrder(tasks, edges) == TopologicalOrder(tasks, edges, [t \in tasks |-> 0])

\* What is wrong with an edge by itself: a reference outside the version, a task
\* before itself, a pair given twice
WrongEdge(tasks, list, i) ==
  CASE ~({list[i][1], list[i][2]} \subseteq tasks) -> "MISSING_TASK_REFERENCE"
    [] list[i][1] = list[i][2] -> "SELF_DEPENDENCY"
    [] \E j \in 1..(i - 1) : list[j] = list[i] -> "DUPLICATE_DEPENDENCY"
    [] OTHER -> None

\* The first wrong edge ends validate_graph
EdgeError(tasks, list) ==
  LET wrong == {i \in DOMAIN list : WrongEdge(tasks, list, i) # None}
  IN IF wrong = {} THEN None ELSE WrongEdge(tasks, list, Min(wrong))

\* _first_cycle: depth first over the tasks Kahn left, smallest key first.
\* The search is a stack of tasks being visited and the set of visited ones.
Visit(remaining, edges, s) ==
  LET top == s.stack[Len(s.stack)]
      next == (Succs(edges, top) \cap remaining) \ s.visited
      u == Min(next)
  IN IF s.cycle # <<>> \/ s.visited = remaining THEN s
     ELSE IF s.stack = <<>>
     THEN [s EXCEPT !.stack = <<Min(remaining \ s.visited)>>]
     ELSE IF next = {}
     THEN [s EXCEPT !.stack = SubSeq(@, 1, Len(@) - 1), !.visited = @ \cup {top}]
     ELSE IF u \in Range(s.stack)
     THEN [s EXCEPT !.cycle = Append(SubSeq(s.stack,
              CHOOSE i \in DOMAIN s.stack : s.stack[i] = u, Len(s.stack)), u)]
     ELSE [s EXCEPT !.stack = Append(@, u)]

FirstCycle(remaining, edges) ==
  LET search[n \in 0..(2 * Cardinality(remaining) + 1)] ==
        IF n = 0 THEN [stack |-> <<>>, visited |-> {}, cycle |-> <<>>]
        ELSE Visit(remaining, edges, search[n - 1])
  IN search[2 * Cardinality(remaining) + 1].cycle

\* The error code of validate_graph, None for a graph it accepts
GraphError(tasks, list) ==
  IF EdgeError(tasks, list) # None THEN EdgeError(tasks, list)
  ELSE IF Len(GraphOrder(tasks, Range(list))) # Cardinality(tasks) THEN "DEPENDENCY_CYCLE"
  ELSE None

\* _calculate_downstream, over a graph without cycles
Downstream(tasks, edges) ==
  LET reachable[t \in tasks] ==
        UNION {{u} \cup reachable[u] : u \in Succs(edges, t)}
  IN [t \in tasks |-> reachable[t]]

-----------------------------------------------------------------------------
(* critical_path.py, over a graph without cycles *)

Quantum == 0   \* SCHEDULING_QUANTUM_HOURS: less than one hour

LargestOf(S, default) == IF S = {} THEN default ELSE Max(S)
SmallestOf(S, default) == IF S = {} THEN default ELSE Min(S)

EarliestFinish(tasks, edges, hours) ==
  LET finish[t \in tasks] ==
        LargestOf({finish[p] : p \in Preds(edges, t)}, 0) + hours[t]
  IN [t \in tasks |-> finish[t]]

\* Mutant: the last successor decides, not the first
MutLatestStart(tasks, edges, hours, end) ==
  LET start[t \in tasks] ==
        LargestOf({start[s] : s \in Succs(edges, t)}, end) - hours[t]
  IN [t \in tasks |-> start[t]]

LatestStart(tasks, edges, hours, end) ==
  LET start[t \in tasks] ==
        SmallestOf({start[s] : s \in Succs(edges, t)}, end) - hours[t]
  IN [t \in tasks |-> start[t]]

CriticalPath(tasks, edges, hours) ==
  LET earliest == EarliestFinish(tasks, edges, hours)
      end == LargestOf(Range(earliest), 0)
      latest == LatestStart(tasks, edges, hours, end)
      slack == [t \in tasks |-> latest[t] - (earliest[t] - hours[t])]
  IN [duration |-> end, slack |-> slack, keys |-> {t \in tasks : slack[t] <= Quantum}]

-----------------------------------------------------------------------------
(* priority.py; scores are counted in hundredths *)

HalfUp(a, b) == (2 * a + b) \div (2 * b)

\* dependency_centrality
Centrality(tasks, edges, t) ==
  HalfUp(10000 * Cardinality(Downstream(tasks, edges)[t]), Max({1, Cardinality(tasks) - 1}))

\* score_priorities: the weights of a task's factors, each 0..100
Score(tasks, edges, factors) ==
  [t \in tasks |->
     LET f == factors[t] IN
     HalfUp(100 * (30 * f.mvp_necessity + 20 * f.deadline_urgency + 15 * f.user_value
                   + 10 * f.risk_reduction + 5 * f.user_preference)
            + 20 * Centrality(tasks, edges, t), 100)]

\* priority_label
Label(score) ==
  CASE score >= 8500 -> "Critical"
    [] score >= 6500 -> "High"
    [] score >= 4000 -> "Medium"
    [] OTHER -> "Low"

\* critical_saturation_warning
Saturated(tasks, edges, factors) ==
  LET critical == {t \in tasks : Label(Score(tasks, edges, factors)[t]) = "Critical"} IN
  /\ 4 * Cardinality(critical) > Cardinality(tasks)
  /\ \E t \in critical :
       factors[t].deadline_urgency = 0 /\ Centrality(tasks, edges, t) < 6500

-----------------------------------------------------------------------------
(* calendar.py: weekday hours are those of one person, with the availability *)
(* factor applied; from and to are None where the calendar is open.           *)

Working(cal, day) ==
  /\ cal.from # None => day >= cal.from
  /\ cal.to # None => day <= cal.to
  /\ day \notin cal.holidays
  /\ cal.hours[day % 7] > 0

\* next_working_day; None where it raises
NextWorkingDay(cal, day) ==
  SmallestOf({d \in day..(day + SearchLimit) : Working(cal, d)}, None)

\* add_working_days; None where it raises
AddWorkingDays(cal, day, count) ==
  LET cursor[n \in 0..count] ==
        IF n = 0 THEN day
        ELSE LET last == cursor[n - 1]
             IN IF last = None THEN None ELSE NextWorkingDay(cal, last + 1)
  IN cursor[count]

WorkingDays(cal, start, end) == {d \in start..end : Working(cal, d)}

\* count_working_days
CountWorkingDays(cal, start, end, withStart, withEnd) ==
  LET Counted(a, b, withA, withB) ==
        Cardinality(WorkingDays(cal, a, b) \ ((IF withA THEN {} ELSE {a})
                                              \cup (IF withB THEN {} ELSE {b})))
  IN IF end < start THEN -Counted(end, start, withEnd, withStart)
     ELSE Counted(start, end, withStart, withEnd)

-----------------------------------------------------------------------------
(* scheduler.py.  A slot is [task, day, hours]: what a task takes of a day.  *)

Hours(slots) == [s \in slots |-> s.hours]
HoursOn(slots, day) == SumOf(Hours(slots), {s \in slots : s.day = day})
TasksOn(slots, day) == {s.task : s \in {r \in slots : r.day = day}}

\* Mutant: the task may start on the day its predecessor ends
MutReadyOn(p, ends) == LargestOf(ends, p.start)

\* The first day a task may be worked on
ReadyOn(p, ends) == IF ends = {} THEN p.start ELSE Max(ends) + 1

\* Mutant: the parallel limit is passed by one
MutOpen(p, slots, day) == Cardinality(TasksOn(slots, day)) <= p.cal.parallel

\* The parallel limit leaves room for one more task
Open(p, slots, day) == Cardinality(TasksOn(slots, day)) < p.cal.parallel

\* One pass of _allocate_task: as much of the task as the day has room for
WorkOn(p, slots, t, s) ==
  LET free == p.cal.hours[s.day % 7] * p.team - HoursOn(slots, s.day)
      hours == IF free <= 0 \/ ~Open(p, slots, s.day) THEN 0 ELSE Min({s.left, free})
  IN IF s.left = 0 \/ s.day = None THEN s
     ELSE [day |-> IF hours = s.left THEN s.day ELSE NextWorkingDay(p.cal, s.day + 1),
           left |-> s.left - hours,
           got |-> s.got \cup (IF hours = 0 THEN {}
                               ELSE {[task |-> t, day |-> s.day, hours |-> hours]})]

\* _allocate_task: day by day from the first.  Every pass takes an hour or passes a
\* day that other tasks have a part of, so there are no more passes than these.  The
\* day is None when the calendar ends before the effort does.
Allocate(p, slots, t, earliest) ==
  LET passes == p.effort[t] + Cardinality(slots)
      place[n \in 0..passes] ==
        IF n = 0 THEN [day |-> NextWorkingDay(p.cal, earliest), left |-> p.effort[t], got |-> {}]
        ELSE WorkOn(p, slots, t, place[n - 1])
  IN place[passes]

Starts(slots, t) == Min({s.day : s \in {r \in slots : r.task = t}})
Finishes(slots, t) == Max({s.day : s \in {r \in slots : r.task = t}})

\* A task is placed after its predecessors; without capacity for it the rest is not
Place(p, before, t) ==
  LET ends == {Finishes(before.slots, u) : u \in Preds(p.edges, t)}
      a == Allocate(p, before.slots, t, ReadyOn(p, ends))
  IN IF before.failed # None THEN before
     ELSE IF a.day = None THEN [before EXCEPT !.failed = t]
     ELSE [before EXCEPT !.slots = @ \cup a.got]

\* The placement of every task, in the order of the scores
Placement(p) ==
  LET order == TopologicalOrder(p.tasks, p.edges, p.score)
      placed[n \in 0..Len(order)] ==
        IF n = 0 THEN [slots |-> {}, failed |-> None] ELSE Place(p, placed[n - 1], order[n])
  IN placed[Len(order)]

\* _blocking_path: from the task that ends last back over the predecessors
\* that end last
BlockingPath(p, slots) ==
  LET Last(S) ==
        CHOOSE t \in S : \A u \in S :
          \/ Finishes(slots, t) > Finishes(slots, u)
          \/ Finishes(slots, t) = Finishes(slots, u) /\ t >= u
      back[n \in 1..Cardinality(p.tasks)] ==
        IF n = 1 THEN <<Last(p.tasks)>>
        ELSE LET path == back[n - 1]
             IN IF Preds(p.edges, path[1]) = {} THEN path
                ELSE <<Last(Preds(p.edges, path[1]))>> \o path
  IN back[Cardinality(p.tasks)]

\* A schedule without dates
Unplaced(outcome, path, feasible) ==
  [outcome |-> outcome, path |-> path, feasible |-> feasible,
   slots |-> {}, finish |-> None, forecast |-> None, shortfall |-> 0]

\* A tenth of the working days is the buffer; None where add_working_days
\* raises because the buffer leaves the calendar
Forecast(cal, days) ==
  AddWorkingDays(cal, Max(days), (CountWorkingDays(cal, Min(days), Max(days), TRUE, TRUE) + 9) \div 10)

Late(p, forecast) == p.deadline # None /\ forecast > p.deadline

Forecasted(p, slots, forecast) ==
  IF forecast = None THEN Unplaced("error", <<>>, None)
  ELSE [outcome |-> "placed", slots |-> slots, finish |-> Max({s.day : s \in slots}),
        forecast |-> forecast,
        feasible |-> IF p.deadline = None THEN None ELSE ~Late(p, forecast),
        shortfall |-> IF Late(p, forecast)
                      THEN CountWorkingDays(p.cal, p.deadline, forecast, FALSE, TRUE) ELSE 0,
        path |-> BlockingPath(p, slots)]

Placed(p, placement) ==
  IF placement.failed # None THEN Unplaced("no_capacity", <<placement.failed>>, FALSE)
  ELSE Forecasted(p, placement.slots, Forecast(p.cal, {s.day : s \in placement.slots}))

\* schedule_tasks: p has tasks, edges, effort, score, start, cal, team and
\* deadline.  outcome is "empty", "placed", "no_capacity" (a warning) or
\* "error".
ScheduleTasks(p) ==
  IF p.tasks = {} THEN Unplaced("empty", <<>>, IF p.deadline = None THEN None ELSE TRUE)
  ELSE Placed(p, Placement(p))

-----------------------------------------------------------------------------
(* advanced_schedule.py *)

\* The slot of a workstream that is free first.  A lane holds the week in which each
\* slot is free.
Soonest(lane) ==
  CHOOSE i \in DOMAIN lane :
    \A j \in DOMAIN lane : lane[i] < lane[j] \/ (lane[i] = lane[j] /\ i <= j)

\* _schedule_range for one task: it waits for its predecessors and takes the slot that
\* is free first in each of its workstreams.  r has the lanes and the finishes so far.
Book(edges, weeks, streams, t, r) ==
  LET begin == Max({0} \cup {r.finish[u] : u \in Preds(edges, t)}
                   \cup {r.lanes[w][Soonest(r.lanes[w])] : w \in streams[t]})
      end == begin + weeks[t]
  IN [lanes |-> [w \in DOMAIN r.lanes |->
                   IF w \in streams[t]
                   THEN [r.lanes[w] EXCEPT ![Soonest(r.lanes[w])] = end]
                   ELSE r.lanes[w]],
      finish |-> [u \in {t} \cup DOMAIN r.finish |-> IF u = t THEN end ELSE r.finish[u]]]

\* _schedule_range: every task in the order of the graph, from lanes that are free
RangeFinishes(tasks, edges, weeks, streams, lanes) ==
  LET order == GraphOrder(tasks, edges)
      run[n \in 0..Len(order)] ==
        IF n = 0 THEN [lanes |-> lanes, finish |-> <<>>]
        ELSE Book(edges, weeks, streams, order[n], run[n - 1])
  IN run[Len(order)].finish

\* capacity_forecast, in days: total effort over the weekly capacity
CapacityDays(effort, weekly) == (7 * effort + weekly - 1) \div weekly
=============================================================================
