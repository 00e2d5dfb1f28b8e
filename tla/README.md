# TLA+ project for the AI Project Manager Agent

The program turns a project description into a validated plan with the help of
language models, lets its owner review and activate the plan, and then follows
its execution.  This directory holds TLA+ modules translated from
`src/backend/app`, the TLC configurations that model-check them, and proofs that
TLAPS checks.

## 1. The system

One PostgreSQL (or, in development, SQLite) database is the only shared state.
Three kinds of process work on it: the HTTP API (FastAPI; one database session
per request), any number of worker processes (`workers/main.py`), and a browser
client that only polls.  Nothing is sent between processes: an API request
inserts a row of `agent_jobs`, a worker claims it, and both write the same
`agent_runs`, `plan_versions` and `tasks` rows.

Two properties of the sessions decide most of what can go wrong:

- a session is not expired on commit (`db/session.py:47`) and its identity map
  answers a second `SELECT` of a row with the object it already holds, so a value
  may be old when it is used;
- an `UPDATE` names only the columns that differ from that object and, unless the
  table has a `version_id_col`, only `WHERE id = ..`.

| Component | State | Operations | Interacts with | Hard behaviour | What makes it correct |
|---|---|---|---|---|---|
| Job queue `services/jobs.py` | `agent_jobs`: status, claim token, lease, attempts, `available_at` | enqueue, claim_next, heartbeat, complete, fail, cancel_run, reconcile | API (enqueue, cancel), workers, `agent_runs` | leases that run out under a live worker; check and write in two steps; crash on the last attempt | one owner per claim; a running lease is not taken over; a settled job stays; every job settles |
| Worker loop `workers/main.py` | its claim, its heartbeat task | poll, execute, finish | queue, workflows | the heartbeat runs beside the workflow; the process may die anywhere | finishes only what it owns |
| Node runner `workflows/engine.py` | `agent_run_steps`, `agent_runs` | run_node: memo, attempts, checkpoint, failure | worker sessions, cancel requests | stale copies of the run; re-execution from the first node | a step completed for an input is not redone and is not taken for another one |
| Planning workflow `workflows/planning.py` | `candidate_data` | 17 nodes, wait, resume, complete | providers, gate, draft | memo and document must agree | handlers find their inputs; a completed run is whole |
| Run requests `services/runs.py` | `agent_runs`, clarification questions, jobs | start, answer, cancel | worker | read without a lock, written at commit | an active run can always be advanced |
| Semantic nodes `workflows/planning_nodes.py`, `ai/validation.py` | the handler's progress through its batches, `tokens_used` | generate, normalise, validate, repair once, complete, salvage | providers, node runner | each batch numbers its items from one; a retry begins the node again | pieces of separate calls fit together; no requirement is lost |
| Quality gate `services/plan_quality.py`, `services/plan_validation.py` | `quality_status`, `validation_report` | judge a candidate, judge a draft | semantic nodes, scheduler | judges what several nodes made | what passes can be kept |
| Draft persistence `services/planning.py` | `plan_versions` and children | persist_validated_draft | gate | runs twice after a crash or beside another worker | one draft per run, of judged content |
| Plan lifecycle `services/plans.py`, `services/approval.py` | `plan_versions`: state, row_version, hash, validation; approvals; events | edit, validate, submit, request changes, approve, archive | initialisation of execution | approval reads before it locks; concurrent edit | the active plan is the reviewed one, and the only one |
| Advanced planning `services/advanced.py` | proposals, scenarios | propose, decide, calculate a scenario | plan lifecycle, scheduler | a proposal is made without a lock and decided late | it is applied to its baseline only |
| Task execution `services/execution.py` | projections, status events, progress updates | initialise, transition, update_progress, readiness | approval, monitoring | retried idempotency keys, stale row versions, cascades of readiness | events explain the status; work follows the dependencies |
| Monitoring and health `services/monitoring.py`, `workflows/monitoring.py`, `domain/health.py` | `monitoring_snapshots`, monitoring runs and their jobs | recalculate, ensure_current, execute | execution, recommendations, reports | two sessions compute one snapshot; rows read in several statements; roll-backs | a snapshot is of the state it is stored under; a run to be done has a job |
| Recommendations `services/recommendations.py` | recommendations and decisions | sync, narrate, decide | monitoring, providers | a narrative is written after the owner has decided | a decision is final |
| Reports `services/reports.py`, `workflows/reporting.py` | reports, reporting runs | start, persist, cancel | budgets, monitoring, providers | overlapping deliveries, two runs with equal facts | one report of equal facts, and runs that say what it is |
| Budgets `services/budgets.py` | none: adds up the runs of an owner | assert_can_start | runs, reports | the lock ends with the transaction | the quota is kept |
| Scheduler, graph, critical path, priority, calendar `domain/` | none (pure) | validate_graph, schedule_tasks, .. | gate, monitoring, scenarios | boundaries of calendars and graphs | agreement with a reference definition |
| Authentication, audit, evaluation, front end | small rows | sessions, throttling, append | API | counters at their limit | limits hold |

The hazards, each at its line and with the property that covers it or the reason
why none does, are in `PROJECT.json`.

## 2. Modules

| Module | Models | Role |
|---|---|---|
| `JobQueue` | `services/jobs.py`, `workers/main.py` | state machine |
| `PlanningRuns` | `workflows/engine.py`, `workflows/planning.py`, `services/runs.py`, the parts of `services/planning.py` and `workflows/planning_nodes.py` they call | state machine |
| `SemanticNodes` | `workflows/planning_nodes.py`, `ai/validation.py`, the structural rules of `services/plan_quality.py` | state machine |
| `PlanLifecycle` | `services/plans.py`, `services/approval.py`, `auth/policies.py`, the regeneration requests of `services/advanced.py`, the intake changes of `services/projects.py` | state machine |
| `ApprovedBaseline` | what execution, monitoring and reports rely on | abstract specification, implemented by `PlanLifecycle` |
| `TaskExecution` | the mutations of `services/execution.py`, `domain/progress.py` | state machine |
| `TaskRules` | legal transitions and readiness | operators of `TaskExecution` and `PlanForecast` |
| `WorkOrder` | the order of the work | abstract specification, implemented by `TaskExecution` |
| `Monitoring` | `services/monitoring.py` (sessions), `workflows/monitoring.py`, `services/recommendations.py`, `_monitor_inline` of `services/execution.py` | state machine |
| `Reports` | `services/reports.py`, `workflows/reporting.py`, `services/budgets.py` | state machine |
| `Schedule` | `domain/graph.py`, `critical_path.py`, `priority.py`, `calendar.py`, `scheduler.py`, `advanced_schedule.py` | pure operators |
| `PlanForecast` | `services/plan_validation.py`, the calculations of `services/monitoring.py`, `domain/monitoring.py`, `domain/health.py`, `_scenario_result` | state machine over `Schedule` |
| `MC..` | | instances of the state machines for TLC |
| `JobQueueProofs`, `PlanningRunsProofs`, `SemanticNodesProofs`, `PlanLifecycleProofs`, `TaskExecutionProofs`, `MonitoringProofs`, `ReportsProofs`, `PlanForecastProofs` | | theorems |

The system is one database, so the state machines meet in its rows and each
states what it takes from the others:

- `JobQueue` gives the delivery of a job (at most `MaxAttempts` times, possibly again
  while the old worker lives) that `PlanningRuns`, `Monitoring` and `Reports` use;
- `PlanningRuns` treats the output of a model node as one value, sound or not;
  `SemanticNodes` opens that value and lets the nodes run one after the other;
- `PlanLifecycle` treats the items of a plan as one value that passes the gate or
  does not; `PlanForecast` computes what the gate computes of it;
- `TaskExecution` starts where `ApprovedBaseline` says that a plan became current;
- `Monitoring` and `Reports` number the states that `TaskExecution` commits.

### JobQueue

| Specification | Code |
|---|---|
| `jobs` | rows of `agent_jobs`; `lease` and `wait` are the seconds left until `lease_expires_at` and `available_at` |
| `runs` | `agent_runs.status` |
| `issued` | the number of `uuid4` tokens handed out: a token is never repeated |
| `pc`, `job`, `token` | where `process_one_job` stands and what it holds |
| `beat` | the heartbeat task: off, on, or between its check and its `UPDATE` |
| `deadline` | the timestamp an open transaction will write, as seconds left |
| `spent`, `due`, `seen` | what an open `claim_next` (or `fail`) has locked or read |
| `verdict` | what the finish transaction decided after `_claimed` |

A step is atomic only where the database makes it so.  `_claimed` reads with an
unlocked `session.get`; the write comes at flush with `WHERE id`.  So heartbeat is
`HeartbeatCheck` and `HeartbeatWrite`, and finish is `FinishCheck`,
`FinishReadRun` (only for a terminal failure) and `FinishWrite`.  `claim_next`
holds row locks on the claims it reconciles (`FOR UPDATE SKIP LOCKED`) from
`ClaimBegin` to `ClaimCommit`, and takes one timestamp at its start; the runs of
those claims are read without a lock.  The model gives time as distances, all
reduced by `Tick`, so it needs no bound on the clock.  `WorkflowWrites` is what a
workflow may do to a run, seen from the queue: commit any status, with no claim
checked.

### PlanningRuns

| Specification | Code |
|---|---|
| `run` | `status`, `cancel_requested`, `candidate_data` of the row |
| `steps` | `agent_run_steps`, the attempts of each node with their input hash |
| `questions`, `decisions` | clarification questions and the decisions made of them |
| `draft` | content of the `PlanVersion` whose `source_run_id` is the run |
| `jobs` | the run's jobs, keyed by the state of the answers |
| `ws[w].copy` | the run as the worker's session holds it |
| `answering`, `cancelling` | what an open request has read |

A value in `candidate_data` is what it was computed from: a model node's output
is a member of `Outputs`, a deterministic node's output is its input.  An input
hash is the input itself.  `Write` is the `UPDATE` of the columns that differ from
the session's copy.  The quality gate accepts exactly what is made of `Sound`
outputs.  Jobs are delivered as `JobQueue` allows: at most `MaxAttempts` times,
perhaps again while the old worker lives.  When a lease runs out is left open, so
`PlanningRuns` allows every schedule that the seconds of `JobQueue` allow.
`PLANNING_SEQUENCE` has 17 nodes; the sequence is a constant, and the instances
use subsequences with a node of each kind (question, model, model that rewrites
its own input, gate, transaction, completion).

### PlanLifecycle

| Specification | Code |
|---|---|
| `project` | `projects.status`, and what the intake, constraints and calendar say |
| `plans` | `plan_versions`: state, quality status, content hash, row version |
| `content` | milestones, tasks, dependencies and risks of a version as one value, and the facts its dates were calculated from |
| `approvals` | rows of `plan_approvals`; `shown` is auxiliary, the content the reader had on the screen |
| `executed` | the versions `initialize_active_plan` has created projections for |
| `proposals` | `regeneration_proposals` |
| `ss` | a reader: what it was shown, and what its open request has read before its lock |

A request locks the project's row, joined with the version's, with its first
statement and so is one action.  Three requests read earlier and are two:
`approve_and_activate` (`ApproveRead`, `Approve`), `propose_regeneration`
(`ProposeRead`, `Propose`, which never locks) and `decide_regeneration`
(`DecideRead`, `Decide..`).  A reader opens a version with two actions because
`graph` runs a `SELECT` for each table.  `Current` is `WHERE row_version = ..`.  The
second, locked `SELECT` of `approve_and_activate` does not refresh the object the
session holds, so `Reviewed` looks at `copy`.

A hash is the content it was taken of, with `typed` for a hash of values that had
not yet been through the database (`Decimal("5")` is stored and read back as
`5.00`): equal content, another hash.  All the `UPDATE`s of a version in one
transaction count as one.  A refused or aborted request has no effect: `Leave`.
Not kept: the number of a version and `based_on`, the project's own row version,
the warnings of a report, and which item an edit changes.

`ApprovedBaseline` has two variables: for each version the content it was approved
with, and the version in execution.  Under the mapping `baseline` (content of the
versions with an approval) and `current` (the active version) every step of
`PlanLifecycle` is `Activate` or a stutter.

### SemanticNodes

| Specification | Code |
|---|---|
| `path` | the hosted path, or the fast local one (with an intake that names its essentials or not) |
| `at`, `attempt`, `status` | the node of the sequence, its attempt, the status of the run |
| `draft` | what the nodes have left in `candidate_data` |
| `work` | the loop of the handler: the calls still to make, what was repaired, what is saved |
| `used`, `spent` | `tokens_used`, and every token a provider has answered with |
| `Answer(answer, cost)` | one `_generate`: normalise, validate, repair once, complete or salvage, or fail the attempt |
| `Exhausted`, `ProviderFails`, `Crash` | the budget check before a call, a provider error, the death of the worker |
| `Finish`, `Gate` | what a node saves, and the structural rules of the gate |

A fact is a number, an item is the set of facts it cites (a task also names its
milestone and whether its size is legal).  Every malformed answer is one of: too
many or no items, an item that cites nothing, an unknown or an excluded fact.  A
retry or a restart begins the handler again.  A refused call records no usage in
the code, and none here.

### TaskExecution and WorkOrder

| Specification | Code |
|---|---|
| `row` | `task_execution_projections`: status, fraction, effort, `row_version` |
| `history` | `task_status_events` of a task, oldest first, with the key of each |
| `updates` | `progress_updates`, by key |
| `request` | a request between its look for the key and its locks |

`_owned_active_task` locks the task, the plan and the project, so what follows it is
one action; what precedes it, the look for an event with the key, is `Submit`.
`Transition` includes the propagation of readiness over all tasks, once, from one
reading of the statuses, and `UpdateProgress` the completion of the projection's
values.  `Activate` is `initialize_active_plan` at the approval of the next plan.
Under the mapping begun (tasks with an event to `in_progress`), done and dropped
(completed and cancelled rows) every step is one of `WorkOrder` or a stutter.

### Monitoring

| Specification | Code |
|---|---|
| `state` | what `current_state_hash` covers; row versions only grow, so states are numbered |
| `run`, `job` | the monitoring run of a state and its job |
| `snapshot` | the `monitoring_snapshots` row of a state, and the state its facts were read in |
| `recs`, `decided` | recommendations and their decisions |
| `tx` | what a session is doing: `Hash`, `Load`, `SameState` and `Insert` (`recalculate`), `Sync`, `Create` and `Narrate` (`sync` and `enrich_narrative`), the commit |

Unique keys are modelled by `WaitsFor`: an insert waits for the uncommitted insert of
the same key, and is refused if that commits.  Two sessions that wait for each other
are ended by `DeadlockDetected`.  A refusal in `recalculate` rolls the whole
transaction back, the caller's part with it.  `_monitor_inline` swallows every error;
the worker fails its job.  `Seen` is the identity map: a session that has just committed
a state keeps seeing that state until something makes it read again.

### Reports

| Specification | Code |
|---|---|
| `runs` | reporting runs by idempotency key: status, the facts collected at the start, tokens; `alone` is auxiliary |
| `jobs` | their jobs; `by` stands for the claim token |
| `snapshots`, `lock` | the committed snapshots, the holders of the admission lock |
| `tx`, `wk` | where a request and a worker stand |
| `reports` | the rows of `reports` |

`Start`, `Compute`, `Insert` are the parts of `start` between which another session's
commit matters; `Compute` gives the lock up when it is rolled back.  `Begin`,
`Narrate`, `Persist`, `Settle` are one delivery.  The narrative is asked for between
two transactions.  Facts are two states: that of the snapshot and the later one the
rows were read in, because `aggregate` reads them after the snapshot.

### Schedule and PlanForecast

`Schedule` translates the calculations of `app/domain` over numbered tasks, numbered
days and whole hours; loops become recursive functions over the number of steps.
`PlanForecast` takes one plan from the candidate through the gate, edits and
re-validation to activation and then day by day through its execution, and states
what the calculations must satisfy against definitions that do not use them (a
cycle is a set of tasks each of which has a predecessor in the set; the critical path is
the heaviest chain).  Its steps do not overlap: overlapping is the subject of the
other modules.

## 3. Runs

| Run | What it shows | Bounds | Distinct states |
|---|---|---|---|
| `queue` | `OneOwner`, `LeaseProtectsClaim`, `SettledJobStays`, `SpentClaimIsReconciled` | 2 workers, 1 job, lease of 2 s, 2 attempts, 2 crashes | 79,753 |
| `queue_single` | `JobSettles` | 1 worker, 2 jobs of one run, 2 crashes | 63,303 |
| `planning_live` | `DraftIsTheGatedOne`, `InputsPresent`, `WaitingHasQuestion`, `ActiveRunCanAdvance`, `RunSettles` | 1 worker, 6 nodes, 2 crashes, a required and an optional question, provider retries, one changed answer | 334,252 |
| `planning_two_workers` | `CompletedIsWhole`, `DraftIsSound`, `DraftWrittenOnce` | 2 workers on one run, 4 nodes, 3 outputs of which 2 sound, a crash and a cancel | 1,032,959 |
| `semantic` | `PlanIsLinked`, `NothingLost`, `GateAgrees`, `SpendBounded` | 2 requirements, a constraint, an excluded and an unknown fact; batches of 1, groups of 2; 2 attempts, 1 crash, a budget of 2 answers | 556,824 |
| `lifecycle` | `ActiveWasShown`, `ReviewCanEnd`, `ActivatedPlanPasses`, `NoLostUpdate` | 1 version, 2 readers, 2 bodies, 2 states of the intake, row versions up to 4 | 576,520 |
| `regeneration` | `RegeneratedOnBaseline`, `BaselineHolds` | 1 version, 1 proposal, 2 readers, row versions up to 3 | 830,546 |
| `execution` | `HistoryExplainsStatus`, `KeyAppliedOnce`, `RowsAgree`, `RecordsKept`, `FollowsWorkOrder` | 2 plans whose dependencies are opposite, 2 tasks, 2 clients, 3 keys for moves and 2 for reports | 1,018,144 |
| `forecast` | `GraphIsJudged`, `DatesFit`, `RemainingFits`, `ScenarioIsSound`, `HealthIsHonest` | 3 tasks, 2 milestones, 3 calendars, every wrong dependency and every wrong pair, one edit, 5 days | 123,288 |
| `monitoring` | `SnapshotIsOfItsState`, `QueuedRunHasJob`, `DecisionIsFinal` | 2 requests and the worker, 2 states, a condition in one of them, 2 attempts, 2 keys | 1,261,415 |
| `reports` | `RunsAgreeWithReport`, `BudgetKept`, `SettledRunStays` | 2 requests, 2 workers, 2 runs, 1 mutation, 2 attempts, a quota of one run and a half | 2,136,909 |
| `queue_stale` | the finding of section 6 | 2 workers, 1 job | |

Why the bounds suffice.  Two workers and one job give every overlap of a check
with another worker's write; a second job of the same run (`queue_single`) shows what
one job's reconciliation does to the other's run.  A lease of 2 s distinguishes
running, about to run out and run out.  Two attempts distinguish first, last and
spent.  A heartbeat that is refused stops for good, so a third worker adds nothing
to a claim that changed hands once; the theorems hold for any number.  In
`PlanningRuns` two sound outputs let a re-run produce a different good plan, which
is what a memo or a draft could confuse; one bad output makes the gate reject.
Attempts on a step are bounded by deliveries times `ModelAttempts`.

In `SemanticNodes` two requirements and batches of one make every node with batches
call more than once, so numbers of different calls meet; `Cites` and `MaxItems` name
which references an answer may have: for every rule of the validation an answer that
keeps it and one that breaks it.

In `PlanLifecycle` the bound on row versions limits only the steps that leave a
version a draft or make it one again.  With 4 a version is written, submitted, sent
back, edited, validated and submitted again, which takes a row version past the copy
of a reader in the middle of an approval; with 2 it would be edited or validated once
before its review.  Two readers give every overlap of a stale read with another's
write.  `OneActive`, `DatesAreCalculated`, `ActivatedFromReview`,
`ReviewedContentFrozen` and `DecidedOnce` are proved (section 5) and need no run of
their own.

In `TaskExecution` the second plan turns the dependency round, so a request for the old
one that arrives late would be visible in the new one.  One key more than clients
allows a retry of a used key beside two live ones.  `row_version` is bounded because
statuses only move towards the end of `Legal` or through `blocked`, each with a key.

In `Monitoring` two states and one detecting state distinguish the snapshot of the current
state from an older one and a recommendation that is still wanted from one that is
not.  In `Reports` the bound `Read` stops the plan when the last run is in, since
nobody reads it after that.  `UsedAssumption` says that a narrative costs at most what
its run reserves: the code reserves 8,000 tokens for a report (`reports.py:116`)
but does not enforce the run's own budget on its one call.

Clients, workers and keys are interchangeable where no definition names one, so
those runs use symmetry; none of them checks liveness.  Deadlock is not checked in the
runs whose system may really stop: an archived project, a settled planning run, a
plan whose tasks are all completed or cancelled, the last day of the forecast, reports
that are all settled.

## 4. Fairness

Only `queue`, `queue_single` and `planning_live` check liveness; the other specifications
state none.

Weak fairness is assumed for the steps a live process takes by itself: the poll
loop never stops (`workers/main.py`, `while True`), a transaction is opened and
closed inside one `with` block, every provider call has a timeout
(`ai/openai_provider.py:48`, `ai/ollama_provider.py:63`), and `finally` stops and
awaits the heartbeat.  A crashed worker is started again (`restart: unless-stopped` in
`compose.yaml`), which is why `Crash` returns to `idle`; crashes are bounded.  Time
passes.  Nobody is assumed to start, answer or cancel: a run that waits for its
user may wait forever, and `RunSettles` says so.

## 5. Proofs

`JobQueueProofs` proves, for every number of jobs, runs and workers, every lease
and every number of attempts:

- `TypeCorrect`: `Spec => []TypeOK`, in particular no more than `MaxAttempts` deliveries;
- `OneOwnerHolds`: `Spec => []OneOwner`;
- `LeaseProtects`: `Spec => LeaseProtectsClaim`;
- `SettledStays`: `Spec => SettledJobStays`.

Assumptions: `RunOfAssumption` (each job has one run), `NoneAssumption` ("no job" is
not a job), `LimitsAssumption` (lease and attempts are positive).

`OneOwner` is not inductive.  The invariant is
`QueueInv == TypeInv /\ OneOwner /\ TokensIssued /\ LocksHold`:

- `TokensIssued`, every token on a row or in a worker's hands has been issued, is
  what makes the token of a new claim (`issued + 1`) different from all others;
- `LocksHold`, a claim that an open `claim_next` has locked for reconciliation is
  still claimed with its lease run out, and no two transactions have locked the same
  row, is what makes it safe for `ClaimCommit` to fail a row it looked at in an
  earlier step.  Every writer's guard `~Locked(j)` is used there;
- `TypeInv` is `TypeOK` with what the control points imply about a worker's job.

The two action properties need one more lemma, `RowNext`: what any step can do to
one row is one of six things (`RowStep`), and each theorem checks the six.

Two theorems add the hypothesis `OneWorker`: `OneWorkerHolds`, the job a worker is busy
with carries its claim until it finishes or the run is cancelled (`ClaimHeld`), and
`OneWorkerCommits`, `Spec => NoStaleCommit`.  The first is what `PlanningRuns` takes from the
queue when it lets only the worker whose claim it is finish a job; the second says that
the finding of section 6 needs a second worker process, not just an expired lease.

`PlanLifecycleProofs` proves, for every number of versions, proposals and readers,
whatever a plan or an intake may say and whatever the gate accepts, every property
the runs check about `PlanLifecycle`, and that it implements `ApprovedBaseline`:

- `TypeCorrect`, `OneActiveHolds`, `ShownIsActive`, `ReviewEnds`, `DatesHold` (invariants);
- `FromReview`, `PlanPasses`, `ContentFrozen`, `NoUpdateIsLost`, `OnItsBaseline`,
  `DecidedOnceHolds` (what a step may never do);
- `Refinement`: `Spec => BaselineHolds`.

Assumptions: `SoundAssumption` (what the gate accepts is a set of pairs of a content and
an intake), `FactsAssumption` and `NoneAssumption` ("out of date" is not a state of the
intake, "nothing" is not a version, proposal, content or intake).
`BoundAssumption` is there for TLC; no proof cites it, so the theorems do not
depend on the bound.

The invariant is `Inv == TypeInv /\ VersionInv /\ ReadsInv`:

- `VersionInv`: the recorded hash of a version is of its content.  It is what makes
  the row stand for the content, and needed for the validation that finds nothing to
  update;
- `ReadsInv`: what a reader was shown, and what its approval has loaded, is never newer
  than the version, and if it has the version's `row_version` it *is* the version.
  This is the whole of optimistic locking, and needs `RowVersionGrows`: every
  change of a row or its content takes a `row_version` nobody has seen.  An approval
  that passes `WHERE row_version = ..` was therefore looking at the present after all
  (`ApprovalStep`);
- `TypeInv`: `TypeOK`, and that an open request works on an existing version.

`VersionStep` lists the few things a step can do to a version (create, revise a
draft, move between states, activate or retire by an approval), `VersionsNext`
shows that there is no other, and each theorem checks the list.  The refinement adds
`ApprovedInv`: a version with an approving decision is never a draft again, so none
is activated twice.

`TaskExecutionProofs` proves, for every number of plans, tasks, clients and keys, any
dependencies and any reports a client may send:

- `TypeCorrect`, `HistoryExplains`, `RowsAlwaysAgree`, `KeysAppliedOnce` (invariants);
- `RecordsAreKept`: `Spec => RecordsKept`;
- `WorkIsOrdered`: `Spec => FollowsWorkOrder`, the refinement.

Assumptions: `PlansAssumption`, `FullAssumption` and `ReportsAssumption` (there is a plan, and
a report is within its range).  Nothing says that the dependencies have no circle: the
theorems hold with one, its tasks just never start.
`RowsAgree` is inductive with `TypeOK` because propagation over one reading of the statuses
is enough: `PropagatedRows` and `PropagatedDone` show that it changes only `pending`
and `ready` and so no prerequisite.  `KeyAppliedOnce` rests on `TransitionAdds`, that a
transition adds one keyed event and events without a key only.  `RecordsKept` adds
`FutureUnwritten` (a plan that is not yet active has no rows), and the refinement
`HistoryExplainsStatus`: a task in progress or completed has an event that began it.

`MonitoringProofs` proves, for every number of request sessions, states, attempts and
decisions, `TypeCorrect`, `SnapshotsHold`, `QueuedRunsHaveJobs` and `DecisionsStay`.
The invariant is `Inv == Typed /\ JobsSound /\ (\A s : Sound(s)) /\ ..` with the two
invariants of the run.  `Sound(s)` says what a session in the middle of its work
may rely on: what it ensured is committed or is its own uncommitted insert, and a
recommendation it saw open is still open if its version is still the one it saw.  What
the others may do meanwhile is one relation, `Env`; `Undisturbed` shows that it keeps
`Sound` of a session that does not move, and each action is shown to keep `Env` for the
others and `Sound` for itself.  Assumption: `BoundsAssumption` (the bounds are positive).

`ReportsProofs` proves, for every number of requests, workers and runs, `TypeCorrect`,
`OneReportHolds`, `SettledStays` and `QuotaHolds`.  `Effect` lists what any step may do to
runs, jobs, deliveries and reports: facts of a run stay, reports stay, a run is settled
only with what a report of its facts says.  The invariant adds that the run of a job and
of a delivery is there (`JobHasRun`, `BusyHasRun`) and that a report a worker has found
stays found (`FoundIsThere`).  Assumptions: `BoundsAssumption`, `UsedAssumption`.

`QuotaHolds` is `Spec => []BudgetKept`, for any number of runs and any budget.  Its
invariant is `QuotaInv`: the admission lock has one holder, the runs that went in under
it use at most the budget, and *while it is held* there is room for one run more.  The
last part carries the decision from `assert_can_start`, which looked, to the commit that
adds the run; it holds because whatever another session does meanwhile only lowers
the sum (`Lowers`): a delivery uses no more than its run reserved (`UsedAssumption`).
The sum is a fold over all keys.  That it exists and is monotone is proved without
an induction rule, by taking a smallest set for which it would fail (`Shrinking`).
Assumption: `KeysAssumption` (there are finitely many runs).

`PlanningRunsProofs` has two parts.  The first proves for every number of workers, nodes,
questions, crashes, answers and cancels:

- `TypeCorrect`: `Spec => []TypeInv`, with what each place in the workflow implies of
  the session's copy and that no two workers run the same attempt;
- `CheckpointsStay`: `Spec => CheckpointsKept`, a completed step is not rewritten;
- `WholeInvariant`, and of it `CompletedRunIsWhole`, `DraftPassedTheGate` and
  `OneDraft` (`CompletedIsWhole`, `DraftIsSound`, `DraftWrittenOnce`).

`WholeInv` is `TypeInv /\ Progress /\ DraftStored /\ DraftIsSound /\ CompletedIsWhole`.
`Progress` is the heart: the nodes behind *every* session are done, a stale one's
too, because a completed step stays completed and a session passes a node only
where it found it so or made it so.  `CompletedIsWhole` follows when a session completes the
run behind the last node.  Nothing is said of the candidates, which a stale session may
overwrite (section 6): `persist_draft` judges what it finds once more.

The second part adds the hypothesis `OneWorker`.  `compose.yaml` and
`compose.production.yaml` start one worker, which runs one job at a time
(`compose.demo.yaml:111` starts four); crashes, redeliveries, answers and cancels stay.  The
hypothesis is needed: section 6 shows how a second worker breaks `InputsPresent`.

- `DraftIsTheJudgedContent`, `HandlersFindTheirInputs` (`DraftIsTheGatedOne`,
  `InputsPresent`).  `GateInv` adds to `WholeInv` that a handler's copy of the
  candidates is the row's (`Synced`), that a running attempt's input is of the candidates
  as they are (`InputFresh`), that a node that is done has left its candidate (`Filled`)
  and that behind the gate the candidates are what some completed gate step judged
  (`GatePassed`).  The last needs the order of the nodes: no node behind the gate
  writes a key the gate reads (`AfterGate`);
- `WaitingRunCanBeAnswered` (`WaitingHasQuestion`), `UncancelledRunCanAdvance`, and
  with no cancel `ActiveRunIsNotAbandoned` (`ActiveRunCanAdvance`).  `QueueInv` relates the
  five things that answering and executing a run pass to each other: questions come
  of nodes that are done (`AskedAfter`), a session cannot get past the nodes that ask while
  a required question is open (`SessionOrder`), a queued run has none open and a waiting one has
  (`RowOrder`), what an open answer has read is no newer than the rows (`RequestOrder`),
  and a run nobody cancelled has a job that will be delivered (`JobOrder`), whose key is
  of answers that were given (`KeysAnswered`).  With a cancel the last theorem is false
  (section 6), and `UncancelledRunCanAdvance` says how far it is true.

Assumptions: `SequenceAssumption`, `QuestionAssumption`, `OutputAssumption`, `BoundAssumption`
(nodes in the code's order, the ones that judge, persist and complete among them) and
`NoneAssumption` ("absent" is none of the values).

`SemanticNodesProofs` proves for every set of facts, every batch and group size, every
limit, cost and budget, and whatever the models answer, the four invariants of the run:
`PlanStaysLinked`, `NothingIsLost`, `GateFindsNothing`, `SpendStaysBounded`, and `TypeCorrect`.
`PlanInv` is `TypeInv /\ DraftInv(at, draft) /\ WorkInv(at, draft, work)`: what the
draft holds before each node, and what the calls made and the calls to make of the
running node add up to (`ModulesWork`, `MilestonesWork`, `TasksWork`,
`AcceptanceWork`).  The loops number the items of each answer from one and shift
them, so the invariant speaks of ranges: the answers so far hold an item of every
fact up to the batch that is next, and their ids are exactly 1..n.
`SpendInv` is: counted tokens are below the budget and one answer, and what was
spent and not counted is at most one answer for each crash.  Assumptions:
`FactsAssumption`, `LimitsAssumption`, `CostsAssumption`, `BoundsAssumption`.

`PlanForecastProofs` proves, for every finite set of tasks, any dependencies the models may
give, any efforts, calendars, teams, workstreams and overrides and any number of edits,
every property the run checks about the calculations:

- `GraphHolds` and of it `GraphJudgedHolds` (`GraphIsJudged`): Kahn's algorithm pops every
  task exactly if there is no circle, and the depth-first search behind it names one
  if there is (`OrderLemma`, `CycleLemma`);
- `RemainingHolds`, `DatesFitHolds`, `HealthHolds` (`RemainingFits`, `DatesFit`,
  `HealthIsHonest`), all three from `ScheduleLemma`: `schedule_tasks` places all tasks or
  fails, and what it places keeps the hours and the limit of every day and the order;
- `ScenarioHolds` (`ScenarioIsSound`).

The state of a plan needs little: `Typed /\ Judged`, its stage and its report agree with
`validate_graph`, and for the health of an active plan `StartedInOrder`, no task was
started before its predecessors were completed.  The work is in the algorithms.  They are
recursive functions over a number of steps, that is, a `CHOOSE` of a solution:
`Recursion` shows that there is one, and each has an invariant of its own that is carried
from step to step up to the last (`UpTo`):

- `Allocating`: what the passes of `_allocate_task` have taken and what is left add up to the
  effort, and every day it takes from has that room and a place left.  A measure shows
  that the passes are enough: every one takes an hour or passes a day that is full, on
  which other tasks have a part (`PassLemma`, `FullDay`);
- `WellPlaced`: the tasks placed so far, each with all its hours, behind its predecessors;
- `Heaviest`: a task's earliest finish is the weight of the heaviest chain that ends with it,
  and its latest start, in the reversed graph, that of the heaviest chain that begins
  with it; the tasks without slack are those where the two make up the whole
  (`JoinedChains`, `SplitChain`, `CriticalLemma`);
- `Below`: list scheduling is not monotone in general, but here the order of the tasks is
  fixed and each takes the slot that is free first.  Then the slots of a workstream can
  be paired up so that none is free later with shorter tasks (`Dominated`), and it
  stays so with every task that is booked (`BelowLemma`).

Assumptions: those `PlanForecast` and `Schedule` state of their constants, named where
they are declared: what the schemas accept of projects, candidates and overrides, that
there are finitely many tasks and workstreams, and that `None` is no number and no error
code.

Only model-checked: liveness (`SpentClaimIsReconciled`, `JobSettles`, `RunSettles`),
which is beyond the prover.  Every invariant and every action property of a passing run
has a theorem.

## 6. Where code and documents disagree

- A worker that passed the token check commits over a later claim (`NoStaleCommit`,
  `jobs.py:159`; run `queue_stale`).  The lock on the row or `WHERE claim_token` is missing.

The others are definitions of the modules that no run checks.  Each is seen by making
the change named here to the configuration and running TLC:

| Property | Change | What the trace shows |
|---|---|---|
| `PlanningRuns!InputsPresent` | `MCPlanningTwoWorkers.cfg`: `PlanSequence <- QuestionSequence`, one output `good`, `MaxCancels = 0`, `INVARIANT InputsPresent` | a stale session writes back the whole candidate document and loses another worker's key; the memoised step is not run again (`engine.py:170`) |
| `PlanningRuns!ResumesFromCheckpoint` | `MCPlanningTwoWorkers.cfg`: `PlanSequence <- TaskSequence`, `Workers = {w1}`, `INVARIANT ResumesFromCheckpoint` | `strengthen_acceptance` rewrites the tasks its input hash covers, so its checkpoint is never found (`planning.py:680`), while `docs/architecture.md:30` says that runs resume from the last checkpoint |
| `PlanningRuns!ActiveRunCanAdvance` | `MCPlanningLive.cfg`: `MaxCancels = 1` | a cancel that read `queued` cancels the job of a run that then turns `running` (`runs.py:173`) |
| `SemanticNodes!FastGateAgrees` | `MCSemanticNodes.cfg`: `INVARIANT FastGateAgrees` | on the fast local path a milestone whose requirements are all in an earlier module has no task, and the gate refuses the plan that `docs/local-ollama.md:46-53` says is created deterministically |
| `Monitoring!OfferedOnce` | `MCMonitoring.cfg`: `INVARIANT OfferedOnce` | a session that looked for a recommendation before the first insert inserts a second one after the first was decided: the unique index leaves decided rows out (`README.md:65`) |
| `Reports!NeverOverbooked` | `MCReports.cfg`: `INVARIANT NeverOverbooked` | a roll-back in `recalculate` releases the admission lock and the start goes on; or a delivery writes `running` on a failed run, which counts again (`budgets.py:1`, `docs/operations/operator-developer-guide.md:84`) |
| `PlanForecast!BlockedCriticalIsAtRisk` | `MCPlanForecast.cfg`: `INVARIANT BlockedCriticalIsAtRisk` | a blocked task on the critical path of a plan that is in time: the code looks at the schedule's blocking path, which is empty while the deadline is met (`monitoring.py:295`), while `IMPLEMENTATION PLAN.MD:685` says "at risk" |

Further observations without a property.  The gap of `jobs.py:159` lets `fail` put back in
the queue a job that was meanwhile delivered for the last time: neither `claim_next`
nor the reconciliation looks at it again, so `JobSettles` is checked for one worker
process.  The retry loop (`engine.py:100`) asks the session's copy for the cancel flag,
so a failed model call may be retried after a cancel was committed.  A narrative that
is rejected is recorded with 0 tokens, and a re-delivery overwrites the tokens of the
first.  The narrative code in the outcome of a run may differ from the one on the
report it shares.  The facts of a report may join a snapshot with rows of a
later state.  `add_working_days` past the end of a calendar raises.  The remaining
schedule drops the edges of a cancelled predecessor, although a cancelled predecessor
keeps its successors `pending` for good.

What holds in spite of them is as telling: no interleaving writes two drafts for one
run, persists a plan that the gate rejects, or completes a run that is not whole.
The review of a plan holds completely: although an approval checks attributes that
may be old, `WHERE row_version` refuses every one that was, the gate is asked again
under the intake of the moment, and what becomes active is what the approver saw.
Without that condition (the mutant `MutRequireVersion`) two requests from one screen pass
each other.  Execution holds completely too: the three row
locks are taken before anything is read, and the unique keys catch what the first look
missed.

## 7. Plan

Done: all modules of section 2 and the proofs of section 5.  Left, in this order:

1. An abstract delivery contract (at least once, at most `MaxAttempts`, one current
   owner) that `JobQueue` implements, in the place of the deliveries that
   `PlanningRuns`, `Monitoring` and `Reports` each state.
2. Two planning runs of one project, with the admission of `runs.py:78`.

## 8. Not modelled

Authentication and throttling (clock and randomness; counters of one process); the
HTTP API and its schemas (they translate requests into the calls that are the
actions here); audit rows and telemetry, which change no decision; evaluation and
demo data; the browser client.  Of the modelled parts: prompts, provider wire formats,
the wording rules of the gate; velocity, activity and the age of blockers; how
detections become templates; the text, PDF and exports of a report; explanations
and risk relations.  Each is listed with its reason in `PROJECT.json`.
