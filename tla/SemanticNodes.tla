--------------------------- MODULE SemanticNodes ---------------------------
(***************************************************************************)
(* The nodes of a planning run that ask a model, PlanningSemanticNodes:    *)
(* what each one asks, how an answer is normalised, validated, repaired    *)
(* once, completed or rejected, what it leaves in candidate_data for the   *)
(* nodes after it, and the structural part of the quality gate that judges *)
(* the whole draft.  PlanningRuns models the runner around these nodes.    *)
(*                                                                         *)
(* A fact (REQ-001, CONSTRAINT-001, ..) is a number; the numbers keep the  *)
(* order of the names, which sorted() uses.  A draft is what the rules     *)
(* tell apart: the references an item cites and whether its leaf tasks     *)
(* are between 4 and 24 hours.  Names and texts are left out: whether a    *)
(* text matches a requirement is part of the choice of its references.     *)
(***************************************************************************)
EXTENDS Naturals, Sequences, SequencesExt, FiniteSets, FiniteSetsExt

CONSTANTS
  Requirements,  \* in-scope requirement facts
  Excluded,      \* requirement facts that are excluded or rejected
  Others,        \* constraint and decision facts
  Unknown,       \* a reference that names nothing
  FastTarget,    \* FAST_LOCAL_MODULE_TARGET
  RefLimit,      \* requirement_refs of one module
  ModuleLimit,   \* items of a ModuleDraftBatch
  TaskLimit,     \* items of a TaskDraftBatch
  BatchSize,     \* TASK_REQUIREMENT_BATCH_SIZE
  GroupSize,     \* ACCEPTANCE_TASK_BATCH_SIZE
  Attempts,      \* max_attempts of an llm node
  Budget,        \* token_budget of the run
  Costs,         \* total tokens one answer may use
  MaxCrashes,    \* bound: deliveries that die
  Cites,         \* bound: node -> the sets of references one item may cite
  MaxItems       \* bound: node -> the items of one answer

Known == Requirements \cup Excluded \cup Others
InScope == Known \ Excluded

ASSUME FactsAssumption ==
  /\ Known \subseteq Nat \ {0} /\ IsFiniteSet(Known)
  /\ Requirements \cap (Excluded \cup Others) = {}
  /\ Excluded \cap Others = {}
  /\ Unknown \notin Known
ASSUME LimitsAssumption ==
  {FastTarget, RefLimit, ModuleLimit, TaskLimit, BatchSize, GroupSize,
   Attempts, Budget} \subseteq Nat \ {0}
ASSUME CostsAssumption == Costs \subseteq Nat /\ Costs # {} /\ MaxCrashes \in Nat

\* the nodes in their order
Nodes == <<"gaps", "analysis", "modules", "milestones", "tasks", "acceptance",
           "dependencies", "risks", "gate">>

ASSUME BoundsAssumption ==
  \A node \in {Nodes[k] : k \in 1..9} :
    MaxItems[node] \in Nat /\ Cites[node] \subseteq SUBSET Nat

VARIABLES
  path,     \* hosted or local; "complete": .. with an intake that names its essentials
  at,       \* the node of Nodes that is next
  status,   \* of the run
  draft,    \* candidate_data
  work,     \* the handler of the node: what a retry or a restart begins again
  attempt,  \* of the node
  used,     \* tokens_used
  spent,    \* every token a provider answered with (no variable of the program)
  crashes

vars == <<path, at, status, draft, work, attempt, used, spent, crashes>>

Paths == {"hosted", "local", "complete"}
Fast == path \in {"local", "complete"}

Node == Nodes[at]

----------------------------------------------------------------------------
(* Sequences *)

\* sorted(): the k-th number of S is the one that has k - 1 below it
Sorted(S) ==
  [k \in 1..Cardinality(S) |-> CHOOSE x \in S : Cardinality({y \in S : y < x}) = k - 1]

\* the elements of s that are in S, in their order
Kept(s, S) ==
  LET places == Sorted({k \in DOMAIN s : s[k] \in S})
  IN [k \in DOMAIN places |-> s[places[k]]]

----------------------------------------------------------------------------
(* What a node asks: one call of _generate per job *)

\* consecutive slices of at most n elements
Slices(s, n) ==
  [k \in 1..((Len(s) + n - 1) \div n) |->
     SubSeq(s, (k - 1) * n + 1, IF k * n < Len(s) THEN k * n ELSE Len(s))]

\* "or [tuple()]": a milestone that needs nothing is still asked for its tasks
RefBatches(refs) ==
  LET slices == Slices(Sorted(refs), BatchSize)
  IN IF slices = <<>> THEN <<{}>> ELSE [k \in DOMAIN slices |-> ToSet(slices[k])]

Job(parent, allowed, required) ==
  [parent |-> parent, allowed |-> allowed, required |-> required]

MilestoneJobs(d) == [k \in DOMAIN d.modules |-> Job(k, Known, {})]

MutTaskJobs(d) ==
  FlattenSeq([k \in DOMAIN d.milestones |->
    LET m == d.milestones[k]
        batches == RefBatches(d.modules[m.module])
        seen == UNION {d.modules[j] : j \in 1..(m.module - 1)}
        jobs == [b \in DOMAIN batches |-> Job(m.id, Known, batches[b])]
    IN Kept(jobs, {j \in ToSet(jobs) : ~ j.required \subseteq seen})])

TaskJobs(d) ==
  FlattenSeq([k \in DOMAIN d.milestones |->
    LET batches == RefBatches(d.modules[d.milestones[k].module])
    IN [b \in DOMAIN batches |-> Job(d.milestones[k].id, Known, batches[b])]])

TasksOf(d, id) == Kept(d.tasks, {t \in ToSet(d.tasks) : t.milestone = id})

\* the tasks grouped by milestone, and at most so many for one call
AcceptanceGroups(d) ==
  FlattenSeq([k \in DOMAIN d.milestones |->
    Slices(TasksOf(d, d.milestones[k].id), GroupSize)])

AcceptanceJobs(d) == [k \in DOMAIN AcceptanceGroups(d) |-> Job(k, Known, {})]

TaskIds(d) == {d.tasks[k].id : k \in DOMAIN d.tasks}

Jobs(node, d) ==
  CASE node = "gaps" -> IF path = "complete" THEN <<>> ELSE <<Job(0, Known, {})>>
    [] node = "analysis" -> <<Job(0, Known, {})>>
    [] node = "modules" -> <<Job(0, Known, Requirements)>>
    [] node = "milestones" /\ ~ Fast -> MilestoneJobs(d)
    [] node = "tasks" /\ ~ Fast -> TaskJobs(d)
    [] node = "acceptance" /\ ~ Fast -> AcceptanceJobs(d)
    [] node = "dependencies" /\ ~ Fast ->
         IF Len(d.tasks) < 2 THEN <<>> ELSE <<Job(0, TaskIds(d), {})>>
    [] node = "risks" /\ ~ Fast -> <<Job(0, Known, {})>>
    [] OTHER -> <<>>

\* the handler of node n begins: the calls it will make, the items so far, the
\* first free number, is the next call the repair of an answer
Start(n, d) ==
  [todo |-> Jobs(Nodes[n], d), items |-> <<>>, next |-> 1, repair |-> FALSE]

Init ==
  /\ path \in Paths
  /\ at = 1 /\ status = "running"
  /\ draft = [questions |-> <<>>, analysis |-> {}, modules |-> <<>>,
              milestones |-> <<>>, tasks |-> <<>>, edges |-> <<>>, risks |-> <<>>]
  /\ work = Start(at, draft) /\ attempt = 1
  /\ used = 0 /\ spent = 0 /\ crashes = 0

Asking == status = "running" /\ work.todo # <<>>

----------------------------------------------------------------------------
(* Normalisation and validation of one answer [items, sized] *)

Cited(items) == UNION ToSet(items)

\* A task keeps the requirements of its batch; without a batch text (no fact of
\* the batch is a requirement) the references are left as they are
NormalizedTask(job, refs) ==
  LET grounded == job.required \cap Requirements
  IN IF grounded = {} THEN refs ELSE refs \cap grounded

\* A citation outside the scope is moved to the closest in-scope fact: any of
\* them, as far as the texts are left out
NormalizedFacts(refs) ==
  IF refs \subseteq InScope \/ InScope = {} THEN {refs}
  ELSE {(refs \cap InScope) \cup {f} : f \in InScope}

Normalized(job, a) ==
  CASE Node = "tasks" ->
         {[a EXCEPT !.items = [k \in DOMAIN a.items |->
                                 NormalizedTask(job, a.items[k])]]}
    [] Node = "analysis" /\ a.items # <<>> ->
         {[a EXCEPT !.items[1] = refs] : refs \in NormalizedFacts(a.items[1])}
    [] OTHER -> {a}

IssueIf(code, holds) == IF holds THEN {code} ELSE {}

\* dependencies speaks of tasks: it is given no excluded facts
Forbidden == IF Node = "dependencies" THEN {} ELSE Excluded

\* _validate_identifiers and _validate_permissions, for one item
ItemIssues(job, refs) ==
  IssueIf("unknown_reference", ~ refs \subseteq job.allowed)
    \cup IssueIf("excluded_scope", refs \cap Forbidden # {})

ReferenceIssues(job, items) == UNION {ItemIssues(job, refs) : refs \in ToSet(items)}

Dedicated(items) == UNION {refs \in ToSet(items) : Cardinality(refs) = 1}

\* the length bounds of the batch models
BatchLimit == IF Node = "modules" THEN ModuleLimit ELSE TaskLimit
Optional == Node \in {"gaps", "dependencies", "risks"}

SchemaIssues(items) ==
  IssueIf("schema", \/ ~ Optional /\ items = <<>>
                    \/ ~ Optional /\ Len(items) > BatchLimit
                    \/ Node = "modules" /\ \E k \in DOMAIN items :
                         items[k] = {} \/ Cardinality(items[k]) > RefLimit)

\* The provider's adapter has checked the schema of an answer
Answers ==
  [items : {items \in UNION {[1..n -> Cites[Node]] : n \in 0..MaxItems[Node]} :
              SchemaIssues(items) = {}},
   sized : IF Node = "tasks" THEN BOOLEAN ELSE {TRUE}]

BusinessIssues(job, a) ==
  CASE Node = "modules" ->
         IssueIf("requirement_coverage", ~ job.required \subseteq Cited(a.items))
    [] Node = "tasks" ->
         IssueIf("task_requirement_coverage", ~ job.required \subseteq Cited(a.items))
           \cup IssueIf("requirement_task_count",
                        Len(a.items) < Cardinality(job.required))
           \cup IssueIf("dedicated_requirement_task",
                        ~ job.required \subseteq Dedicated(a.items))
           \cup IssueIf("leaf_task_size", ~ a.sized)
    [] OTHER -> {}

\* validate_candidate: the rules are not looked at when the schema fails
Issues(job, a) ==
  IF SchemaIssues(a.items) # {} THEN SchemaIssues(a.items)
  ELSE ReferenceIssues(job, a.items) \cup BusinessIssues(job, a)

----------------------------------------------------------------------------
(* What is done with a repaired answer that still fails *)

\* _complete_grounded_module_coverage: one more module for the missing facts
CompletedModules(job, a) ==
  LET missing == job.required \ Cited(a.items)
      more == [a EXCEPT !.items = Append(@, missing)]
  IN IF Issues(job, a) = {"requirement_coverage"} /\ Len(a.items) < ModuleLimit
          /\ Issues(job, more) = {}
     THEN {more} ELSE {}

TaskCodes == {"task_requirement_coverage", "requirement_task_count",
              "dedicated_requirement_task"}

\* _complete_grounded_task_coverage: a task of its own for every required fact
\* that has none, when all of them have a requirement's text
CompletedTasks(job, a) ==
  LET toAdd == Sorted(job.required \ Dedicated(a.items))
      more == [a EXCEPT !.items = @ \o [k \in DOMAIN toAdd |-> {toAdd[k]}]]
  IN IF Issues(job, a) \subseteq TaskCodes /\ job.required # {}
          /\ job.required \subseteq Requirements /\ Issues(job, more) = {}
     THEN {more} ELSE {}

\* _discard_invalid_optional_items
Salvaged(job, a) ==
  LET kept == Kept(a.items, {refs \in ToSet(a.items) : ItemIssues(job, refs) = {}})
  IN IF Optional THEN {[a EXCEPT !.items = kept]} ELSE {}

Saved(job, a) ==
  CASE Node = "modules" -> CompletedModules(job, a)
    [] Node = "tasks" -> CompletedTasks(job, a)
    [] OTHER -> Salvaged(job, a)

----------------------------------------------------------------------------
(* What an accepted answer adds to the items of the node *)

\* the items of this answer get the next free numbers
Milestones(job, items) ==
  [k \in DOMAIN items |-> [id |-> work.next + k - 1, module |-> job.parent]]

MutTasks(job, items) ==
  [k \in DOMAIN items |-> [id |-> k, milestone |-> job.parent, refs |-> items[k]]]

Tasks(job, items) ==
  [k \in DOMAIN items |->
     [id |-> work.next + k - 1, milestone |-> job.parent, refs |-> items[k]]]

MutEnriched(job, items) ==
  LET group == AcceptanceGroups(draft)[job.parent]
  IN Kept(group, {group[k] : k \in DOMAIN items})

\* A task the answer says nothing about is kept as it was; the others get new
\* criteria.  Here both are the same task
Enriched(job, items) == AcceptanceGroups(draft)[job.parent]

\* detect_gaps drops the questions the confirmed facts answer: any of them, as
\* far as the texts are left out
Unanswered(items) ==
  {Kept(items, open) : open \in SUBSET ToSet(items)}

Accepted(job, items) ==
  CASE Node = "gaps" -> Unanswered(items)
    [] Node = "milestones" -> {Milestones(job, items)}
    [] Node = "tasks" -> {Tasks(job, items)}
    [] Node = "acceptance" -> {Enriched(job, items)}
    [] OTHER -> {items}

Advanced(job, items) ==
  {[todo |-> Tail(work.todo), items |-> work.items \o more,
    next |-> work.next + Len(items), repair |-> FALSE] :
     more \in Accepted(job, items)}

----------------------------------------------------------------------------
(* The local fast path *)

\* _consolidate_local_modules: a module over the target joins the smallest
\* group that stays within the reference limit
Place(groups, refs) ==
  LET fits == {i \in DOMAIN groups : Cardinality(groups[i] \cup refs) <= RefLimit}
      Before(i, j) == \/ Cardinality(groups[i]) < Cardinality(groups[j])
                      \/ Cardinality(groups[i]) = Cardinality(groups[j]) /\ i <= j
  IN IF fits = {} THEN Append(groups, refs)
     ELSE LET least == CHOOSE i \in fits : \A j \in fits : Before(i, j)
          IN [groups EXCEPT ![least] = @ \cup refs]

Consolidated(modules) ==
  IF Len(modules) <= FastTarget THEN modules
  ELSE LET groups[n \in FastTarget..Len(modules)] ==
             IF n = FastTarget THEN SubSeq(modules, 1, FastTarget)
             ELSE Place(groups[n - 1], modules[n])
       IN groups[Len(modules)]

\* _build_local_milestones
LocalMilestones ==
  [k \in DOMAIN draft.modules |-> [id |-> k, module |-> k]]

\* _build_local_tasks: one task for a requirement, in the first module that has it
LocalTasks ==
  LET pairs == FlattenSeq([k \in DOMAIN draft.milestones |->
                 LET m == draft.milestones[k]
                     refs == Sorted(draft.modules[m.module])
                 IN [r \in DOMAIN refs |-> <<m.id, refs[r]>>]])
      Add(ts, p) ==
        IF p[2] \notin Requirements \/ \E k \in DOMAIN ts : ts[k].refs = {p[2]}
        THEN ts
        ELSE Append(ts, [id |-> Len(ts) + 1, milestone |-> p[1], refs |-> {p[2]}])
      tasks[n \in 0..Len(pairs)] ==
        IF n = 0 THEN <<>> ELSE Add(tasks[n - 1], pairs[n])
  IN tasks[Len(pairs)]

----------------------------------------------------------------------------
(* The structural part of the quality gate *)

StructuralIssues ==
  LET modules == ToSet(draft.modules)
      tasks == ToSet(draft.tasks)
      covered == (UNION modules) \cup UNION {t.refs : t \in tasks}
  IN IssueIf("REQUIREMENT_COVERAGE_GAP", ~ Requirements \subseteq covered)
       \cup IssueIf("MODULE_WITHOUT_MILESTONE", \E m \in DOMAIN draft.modules :
              \A s \in ToSet(draft.milestones) : s.module # m)
       \cup IssueIf("MILESTONE_WITHOUT_TASK", \E s \in ToSet(draft.milestones) :
              \A t \in tasks : t.milestone # s.id)
       \cup IssueIf("EXCLUDED_SCOPE_REFERENCED", covered \cap Excluded # {})

----------------------------------------------------------------------------
(* Actions *)

Stop(s) ==
  /\ status' = s
  /\ UNCHANGED <<path, at, draft, work, attempt, crashes>>

\* A failed handler: the runner tries the node again from its beginning when
\* the error is retryable and an attempt is left
FailNode(retryable) ==
  IF retryable /\ attempt < Attempts
  THEN /\ work' = Start(at, draft) /\ attempt' = attempt + 1
       /\ UNCHANGED <<path, at, status, draft, crashes>>
  ELSE Stop("failed")

MutAffordable == TRUE

\* _call: something is left of the budget
Affordable == used < Budget

Exhausted ==
  /\ Asking /\ ~ Affordable
  /\ Stop("partial") /\ UNCHANGED <<used, spent>>

\* The provider refuses, truncates, times out or answers outside the schema.
\* Whatever that cost is recorded as no usage
ProviderFails(retryable) ==
  /\ Asking /\ Affordable
  /\ FailNode(retryable) /\ UNCHANGED <<used, spent>>

\* What _generate does with the answer a of a call
Judged(job, a) ==
  \/ /\ Issues(job, a) = {}
     /\ work' \in Advanced(job, a.items) /\ UNCHANGED status
  \/ /\ Issues(job, a) # {} /\ ~ work.repair
     /\ work' = [work EXCEPT !.repair = TRUE] /\ UNCHANGED status
  \/ /\ Issues(job, a) # {} /\ work.repair
     /\ \E b \in Saved(job, a) : work' \in Advanced(job, b.items)
     /\ UNCHANGED status
  \/ /\ Issues(job, a) # {} /\ work.repair /\ Saved(job, a) = {}
     /\ status' = "failed" /\ UNCHANGED work

\* The usage is added and committed before the answer is looked at
Answer(answer, cost) ==
  /\ Asking /\ Affordable
  /\ used' = used + cost /\ spent' = spent + cost
  /\ \/ used' > Budget /\ Stop("partial")
     \/ /\ used' <= Budget
        /\ \E a \in Normalized(Head(work.todo), answer) : Judged(Head(work.todo), a)
        /\ UNCHANGED <<path, at, draft, attempt, crashes>>

\* The node's output becomes part of candidate_data
Output ==
  CASE Node = "gaps" -> [draft EXCEPT !.questions = work.items]
    [] Node = "analysis" -> [draft EXCEPT !.analysis = Cited(work.items)]
    [] Node = "modules" -> [draft EXCEPT !.modules =
         IF Fast THEN Consolidated(work.items) ELSE work.items]
    [] Node = "milestones" -> [draft EXCEPT !.milestones =
         IF Fast THEN LocalMilestones ELSE work.items]
    [] Node = "tasks" -> [draft EXCEPT !.tasks =
         IF Fast THEN LocalTasks ELSE work.items]
    [] Node = "acceptance" -> [draft EXCEPT !.tasks =
         IF Fast THEN draft.tasks ELSE work.items]
    [] Node = "dependencies" -> [draft EXCEPT !.edges = work.items]
    [] Node = "risks" -> [draft EXCEPT !.risks = work.items]

\* the batch is validated once more as a whole: its length bounds
Whole(d) ==
  CASE Node = "milestones" -> d.milestones # <<>>
    [] Node = "tasks" -> d.tasks # <<>> /\ Len(d.tasks) <= TaskLimit
    [] OTHER -> TRUE

Finish ==
  /\ status = "running" /\ Node # "gate" /\ work.todo = <<>>
  /\ \/ /\ Whole(Output)
        /\ draft' = Output /\ at' = at + 1
        /\ work' = Start(at + 1, Output)
        /\ attempt' = 1 /\ UNCHANGED <<path, status, crashes>>
     \/ ~ Whole(Output) /\ Stop("failed")
  /\ UNCHANGED <<used, spent>>

Gate ==
  /\ Node = "gate" /\ status = "running"
  /\ Stop(IF StructuralIssues = {} THEN "passed" ELSE "failed")
  /\ UNCHANGED <<used, spent>>

\* The worker dies; the next delivery begins the node again.  A crash between
\* the provider's answer and the commit loses the count of it
Crash(cost) ==
  /\ status = "running" /\ crashes < MaxCrashes
  /\ IF Asking /\ Affordable THEN cost \in Costs ELSE cost = 0
  /\ crashes' = crashes + 1 /\ spent' = spent + cost
  /\ work' = Start(at, draft) /\ attempt' = 1
  /\ UNCHANGED <<path, at, status, draft, used>>

Done == status # "running" /\ UNCHANGED vars

Next ==
  \/ Exhausted
  \/ \E retryable \in BOOLEAN : ProviderFails(retryable)
  \/ \E cost \in Costs : \E answer \in Answers : Answer(answer, cost)
  \/ Finish
  \/ Gate
  \/ \E cost \in Costs \cup {0} : Crash(cost)
  \/ Done

Spec == Init /\ [][Next]_vars

----------------------------------------------------------------------------
(* Properties *)

Reached(node) == at > CHOOSE k \in DOMAIN Nodes : Nodes[k] = node

Distinct(items) ==
  \A j, k \in DOMAIN items : items[j].id = items[k].id => j = k

\* The pieces that separate calls produced fit together: their numbers are
\* distinct although every call numbers from its own start, every task belongs
\* to a milestone and every milestone to a module of this draft, and nothing
\* excluded is cited anywhere in it (persist_validated_draft looks each
\* reference up in a dictionary)
PlanIsLinked ==
  /\ Distinct(draft.milestones) /\ Distinct(draft.tasks)
  /\ \A k \in DOMAIN draft.milestones :
       draft.milestones[k].module \in DOMAIN draft.modules
  /\ \A k \in DOMAIN draft.tasks :
       \E j \in DOMAIN draft.milestones : draft.milestones[j].id = draft.tasks[k].milestone
  /\ draft.analysis \cap Excluded = {}
  /\ \A refs \in ToSet(draft.questions \o draft.modules \o draft.risks) :
       refs \cap Excluded = {}
  /\ \A t \in ToSet(draft.tasks) : t.refs \cap Excluded = {}

\* Whatever the models left out, answered wrongly or had repaired, and on
\* either path: after draft_modules the modules cover every in-scope
\* requirement, and from draft_tasks on each of them has a task that cites it
\* alone (through the acceptance pass, which rewrites the whole list)
NothingLost ==
  /\ Reached("modules") => Requirements \subseteq UNION ToSet(draft.modules)
  /\ Reached("tasks") =>
       \A r \in Requirements : \E t \in ToSet(draft.tasks) : t.refs = {r}

\* The calls of the model path leave the gate nothing to refuse: a run that has
\* paid for its tasks does not fail on structure at the end
GateAgrees ==
  Reached("tasks") /\ ~ Fast => StructuralIssues = {}

\* The budget is passed by at most one answer, and an answer that is not
\* counted is one a crash lost
SpendBounded ==
  \A most \in Costs : (\A c \in Costs : c <= most) =>
    spent < Budget + most * (crashes + 1)

\* Fast local planning (docs/local-ollama.md:46-53) "deterministically creates
\* the milestones, requirement-level tasks, acceptance evidence": the gate
\* would have nothing to refuse either.  It does not hold: a milestone whose
\* requirements are all in an earlier module is left without a task
FastGateAgrees ==
  Reached("tasks") /\ Fast => StructuralIssues = {}
=============================================================================
