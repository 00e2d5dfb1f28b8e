---------------------------- MODULE PlanningRuns ----------------------------
(***************************************************************************)
(* One planning run: the row of agent_runs, its checkpoints in             *)
(* agent_run_steps, its clarification questions and its draft, advanced by *)
(* worker sessions (PlanningWorkflow.execute over DurableNodeRunner) and   *)
(* changed under them by the owner's requests (PlanningRunService).        *)
(*                                                                         *)
(* A worker session keeps its own copy of the run (SQLAlchemy identity     *)
(* map, expire_on_commit=False, refreshed before each node) and an UPDATE  *)
(* writes only the columns whose value differs from that copy: Write       *)
(* below.  Every commit is an action of its own.                           *)
(*                                                                         *)
(* Jobs are here what JobQueue promises of them: a job is delivered at     *)
(* most MaxAttempts times, a claim whose lease has run out may be          *)
(* delivered again while its old worker still runs, and only the current   *)
(* claim can finish a job.                                                 *)
(***************************************************************************)
EXTENDS Integers, Sequences, FiniteSets

CONSTANTS
  Workers,
  PlanSequence,   \* the nodes run, in the order of PLANNING_SEQUENCE
  Outputs,        \* what a model call may produce
  Sound,          \* the outputs the deterministic quality gate accepts
  Questions,      \* clarification questions the models may raise
  Required,       \* the required ones
  Defaulted,      \* the ones that come with a default assumption
  AskedBy,        \* the node that raises each
  Answers,        \* what the owner may answer
  None,
  MaxAttempts,    \* AgentJob.max_attempts
  ModelAttempts,  \* NodeDefinition.max_attempts of an "llm" node
  MaxCrashes,     \* bound: worker crashes
  MaxAnswers,     \* bound: answer requests
  MaxCancels      \* bound: cancel requests

ModelNodes == {"detect_gaps", "analyze_project", "draft_modules", "draft_milestones",
               "draft_tasks", "strengthen_acceptance", "suggest_dependencies",
               "identify_risks"}

Keys == {"validated_intake", "clarifications", "decision_refs", "analysis", "modules",
         "milestones", "tasks", "dependencies", "graph", "normalized_effort",
         "priorities", "schedule", "risks", "quality_report", "persisted_draft"}

\* The nodes of the code in their order
PLANNING_SEQUENCE ==
  <<"validate_request", "detect_gaps", "wait_or_assume", "analyze_project", "draft_modules",
    "draft_milestones", "draft_tasks", "strengthen_acceptance", "suggest_dependencies",
    "validate_graph", "normalize_effort", "score_priority", "schedule", "identify_risks",
    "quality_gate", "persist_draft", "await_approval">>

Position(node) == CHOOSE i \in 1..17 : PLANNING_SEQUENCE[i] = node

Nodes == {PlanSequence[i] : i \in 1..Len(PlanSequence)}

\* A run of some of the nodes in the order of the code, those that judge, persist
\* and end the run among them; the one that rewrites the tasks comes with the one
\* that makes them, and the second that may ask with the first.
ASSUME SequenceAssumption ==
  /\ PlanSequence \in Seq({PLANNING_SEQUENCE[i] : i \in 1..17})
  /\ \A i, k \in 1..Len(PlanSequence) :
       i < k => Position(PlanSequence[i]) < Position(PlanSequence[k])
  /\ {"quality_gate", "persist_draft", "await_approval"} \subseteq Nodes
  /\ "strengthen_acceptance" \in Nodes => "draft_tasks" \in Nodes
  /\ "analyze_project" \in Nodes => "detect_gaps" \in Nodes
ASSUME QuestionAssumption ==
  /\ Required \subseteq Questions /\ Defaulted \subseteq Questions
  /\ AskedBy \in [Questions -> Nodes \cap {"detect_gaps", "analyze_project"}]
ASSUME OutputAssumption == Sound \subseteq Outputs
ASSUME BoundAssumption ==
  /\ MaxAttempts \in Nat \ {0} /\ ModelAttempts \in Nat \ {0}
  /\ MaxCrashes \in Nat /\ MaxAnswers \in Nat /\ MaxCancels \in Nat

\* The candidate keys a node's input hash covers (_input_payload); the parts of
\* the payload that never change during a run are left out.
InputKeys(node) ==
  CASE node = "draft_modules"         -> {"analysis"}
    [] node = "draft_milestones"      -> {"modules"}
    [] node = "draft_tasks"           -> {"milestones"}
    [] node = "strengthen_acceptance" -> {"tasks"}
    [] node = "suggest_dependencies"  -> {"tasks"}
    [] node = "validate_graph"        -> {"tasks", "dependencies"}
    [] node = "normalize_effort"      -> {"tasks"}
    [] node = "score_priority"        -> {"tasks", "graph"}
    [] node = "schedule"              -> {"tasks", "dependencies", "priorities"}
    [] node = "identify_risks"        -> {"analysis", "tasks", "schedule"}
    [] node = "quality_gate"          -> {"analysis", "modules", "milestones", "tasks",
                                          "dependencies", "risks", "schedule"}
    [] node = "persist_draft"         -> {"quality_report"}
    [] node = "await_approval"        -> {"persisted_draft"}
    [] OTHER                          -> {}

\* The candidate key a node's result updates
OutputKey(node) ==
  CASE node = "validate_request"      -> "validated_intake"
    [] node = "detect_gaps"           -> "clarifications"
    [] node = "wait_or_assume"        -> "decision_refs"
    [] node = "analyze_project"       -> "analysis"
    [] node = "draft_modules"         -> "modules"
    [] node = "draft_milestones"      -> "milestones"
    [] node = "draft_tasks"           -> "tasks"
    [] node = "strengthen_acceptance" -> "tasks"
    [] node = "suggest_dependencies"  -> "dependencies"
    [] node = "validate_graph"        -> "graph"
    [] node = "normalize_effort"      -> "normalized_effort"
    [] node = "score_priority"        -> "priorities"
    [] node = "schedule"              -> "schedule"
    [] node = "identify_risks"        -> "risks"
    [] node = "quality_gate"          -> "quality_report"
    [] node = "persist_draft"         -> "persisted_draft"
    [] OTHER                          -> None

\* What the candidates are made of: a model's output, or what a deterministic
\* node computed from the candidates of its input.
Plain        == Outputs \cup {None}
Intakes      == [InputKeys("validate_request") -> Plain]
Graphs       == [InputKeys("validate_graph") -> Plain]
Efforts      == [InputKeys("normalize_effort") -> Plain]
Priorities   == [InputKeys("score_priority") -> Plain \cup Graphs]
Schedules    == [InputKeys("schedule") -> Plain \cup Priorities]
Contents     == [InputKeys("quality_gate") -> Plain \cup Schedules]
DecisionSets == [Questions -> Answers \cup {"assumption", None}]

RunStatus == {"queued", "running", "waiting_for_user", "partial", "failed", "completed",
              "cancelled"}
QuestionRow == [status : {"open", "answered", "assumed", "dismissed"},
                answer : Answers \cup {None}]

\* The absent value is none of the values.
ASSUME NoneAssumption ==
  /\ None \notin Outputs \cup Answers \cup Keys \cup RunStatus
  /\ None \notin Intakes /\ None \notin Graphs /\ None \notin Efforts
  /\ None \notin Priorities /\ None \notin Schedules /\ None \notin Contents
  /\ None \notin DecisionSets /\ None \notin QuestionRow
  /\ None \notin [status : RunStatus, questions : [Questions -> QuestionRow \cup {None}]]

MaxTries(node) == IF node \in ModelNodes THEN ModelAttempts ELSE 1

\* The jobs of a run: the initial one, keyed by no answers, and one resume job
\* for each state of the answers
JobKeys == [Questions -> Answers \cup {None}]
InitialJob == [q \in Questions |-> None]

VARIABLES
  run,        \* the row: [status, cancel, cand]
  steps,      \* node -> its attempts, oldest first: [status, input]
  questions,  \* question -> None, or [status, answer]
  decisions,  \* question -> the decision recorded for it, or None
  draft,      \* the content of the run's PlanVersion, or None
  jobs,       \* key -> [status, attempts, owner]
  ws,         \* worker -> its session
  answering,  \* the owner's open answer request: [status, questions] it has read, or None
  cancelling, \* the owner's open cancel request: run status it has read, or None
  spentBounds \* [crashes, answers, cancels] so far

vars == <<run, steps, questions, decisions, draft, jobs, ws, answering, cancelling, spentBounds>>

ActiveRun == {"queued", "running", "waiting_for_user"}
Ended     == {"completed", "failed", "cancelled"}
JobStatus == {"absent", "queued", "claimed", "completed", "failed", "cancelled"}

NoCandidates == [k \in Keys |-> None]
Idle == [pc |-> "idle", job |-> None, at |-> 0, copy |-> None, input |-> None,
         try |-> 0, last |-> 0]

Init ==
  /\ run = [status |-> "queued", cancel |-> FALSE, cand |-> NoCandidates]
  /\ steps = [n \in Nodes |-> <<>>]
  /\ questions = [q \in Questions |-> None]
  /\ decisions = [q \in Questions |-> None]
  /\ draft = None
  /\ jobs = [k \in JobKeys |->
               [status |-> IF k = InitialJob THEN "queued" ELSE "absent",
                attempts |-> 0, owner |-> None]]
  /\ ws = [w \in Workers |-> Idle]
  /\ answering = None
  /\ cancelling = None
  /\ spentBounds = [crashes |-> 0, answers |-> 0, cancels |-> 0]

-----------------------------------------------------------------------------
(* What a session sees *)

Node(w) == PlanSequence[ws[w].at]

\* Mutant: an UPDATE of every column, changed or not
MutWriteEveryColumn(w, new) == [run EXCEPT !.status = new.status, !.cand = new.cand]

\* The columns the session has changed since it last read the row
Write(w, new) ==
  [run EXCEPT !.status = IF new.status # ws[w].copy.status THEN new.status ELSE @,
              !.cand   = IF new.cand # ws[w].copy.cand THEN new.cand ELSE @]

\* What input_hash is the hash of
Input(node, cand) ==
  [cand  |-> [k \in InputKeys(node) |-> cand[k]],
   facts |-> CASE node = "wait_or_assume"  -> questions
               [] node = "analyze_project" -> decisions
               [] OTHER                    -> None]

RequiredOpen ==
  \E q \in Required : questions[q] # None /\ questions[q].status = "open"

\* The content the gate judges and the draft is made of
Content(cand) == [k \in InputKeys("quality_gate") |-> cand[k]]

\* The deterministic gate accepts exactly the plans made of sound outputs.
Passes(content) ==
  \A node \in (Nodes \cap ModelNodes) \ {"detect_gaps"} : content[OutputKey(node)] \in Sound

\* The candidate keys a handler reads, of those some node of the sequence makes:
\* a missing one is a KeyError.
Needs(node) ==
  {OutputKey(n) : n \in Nodes} \cap
    (CASE node \in {"score_priority", "schedule"} ->
            {"analysis", "modules", "milestones", "tasks", "dependencies"}
       [] node = "identify_risks" ->
            {"analysis", "modules", "milestones", "tasks", "dependencies", "schedule"}
       [] node \in {"quality_gate", "persist_draft"} ->
            {"analysis", "modules", "milestones", "tasks", "dependencies", "risks"}
       [] node = "draft_tasks" -> {"modules", "milestones"}
       [] node = "await_approval" -> {}
       [] OTHER -> InputKeys(node))

-----------------------------------------------------------------------------
(* Delivery of jobs *)

\* Mutant: reconciliation and fail leave the run as it is
MutRunLeftActive(row) == row

FailActiveRun(row) == IF row.status \in ActiveRun THEN [row EXCEPT !.status = "failed"] ELSE row

\* Mutant: claim_next never takes over an expired lease
MutNoReclaim(k, expired) == jobs[k].attempts < MaxAttempts /\ jobs[k].status = "queued"

Deliverable(k, expired) ==
  jobs[k].attempts < MaxAttempts /\ (jobs[k].status = "queued" \/ k \in expired)

\* claim_next: fail the jobs whose last lease has run out, then take a job that
\* is queued or whose lease has run out.  A lease may run out under a live
\* worker; when exactly is JobQueue's business.
ClaimNext(w) ==
  /\ ws[w].pc = "idle"
  /\ \E expired \in SUBSET {k \in JobKeys : jobs[k].status = "claimed"} :
       LET exhausted == {k \in expired : jobs[k].attempts >= MaxAttempts}
           reconciled == [k \in JobKeys |->
                            IF k \in exhausted
                              THEN [jobs[k] EXCEPT !.status = "failed", !.owner = None]
                              ELSE jobs[k]]
           ready == {k \in JobKeys : Deliverable(k, expired)}
       IN /\ run' = IF exhausted # {} THEN FailActiveRun(run) ELSE run
          /\ \/ /\ exhausted # {}
                /\ jobs' = reconciled
                /\ UNCHANGED ws
             \/ \E k \in ready :
                  /\ jobs' = [reconciled EXCEPT ![k] =
                               [status |-> "claimed", attempts |-> @.attempts + 1, owner |-> w]]
                  /\ ws' = [ws EXCEPT ![w] = [Idle EXCEPT !.pc = "opening", !.job = k]]
  /\ UNCHANGED <<steps, questions, decisions, draft, answering, cancelling, spentBounds>>

\* The finish transaction.  Node failures are recorded on the run and complete
\* the job; only an exception that escaped the workflow retries it.
FinishJob(w) ==
  /\ ws[w].pc \in {"closing", "raised"}
  /\ LET k == ws[w].job IN
       IF jobs[k].status # "claimed" \/ jobs[k].owner # w
         THEN UNCHANGED <<jobs, run>>
         ELSE LET status == CASE ws[w].pc = "closing" -> "completed"
                              [] ws[w].pc = "raised" /\ jobs[k].attempts < MaxAttempts -> "queued"
                              [] OTHER -> "failed"
              IN /\ jobs' = [jobs EXCEPT ![k] = [@ EXCEPT !.status = status, !.owner = None]]
                 /\ run' = IF status = "failed" THEN FailActiveRun(run) ELSE run
  /\ ws' = [ws EXCEPT ![w] = Idle]
  /\ UNCHANGED <<steps, questions, decisions, draft, answering, cancelling, spentBounds>>

\* The process dies between two commits and is replaced.
Crash(w) ==
  /\ spentBounds.crashes < MaxCrashes
  /\ ws[w].pc # "idle"
  /\ ws' = [ws EXCEPT ![w] = Idle]
  /\ spentBounds' = [spentBounds EXCEPT !.crashes = @ + 1]
  /\ UNCHANGED <<run, steps, questions, decisions, draft, jobs, answering, cancelling>>

-----------------------------------------------------------------------------
(* PlanningWorkflow.execute and DurableNodeRunner.run_node *)

\* A run that has ended is not executed; every other one is, from the first node.
Open(w) ==
  /\ ws[w].pc = "opening"
  /\ ws' = [ws EXCEPT ![w] =
       IF run.status \in Ended THEN [@ EXCEPT !.pc = "closing"]
                               ELSE [@ EXCEPT !.pc = "entering", !.at = 1]]
  /\ UNCHANGED <<run, steps, questions, decisions, draft, jobs, answering, cancelling, spentBounds>>

\* The refresh before a node sees the cancel request: _cancel.
EnterCancelled(w) ==
  /\ ws[w].pc = "entering" /\ run.cancel
  /\ run' = [run EXCEPT !.status = "cancelled"]
  /\ ws' = [ws EXCEPT ![w].pc = "closing"]
  /\ UNCHANGED <<steps, questions, decisions, draft, jobs, answering, cancelling, spentBounds>>

\* Mutant: the memo does not look at the status of the step it finds
MutMemoIgnoresStatus(node, input) ==
  \E i \in DOMAIN steps[node] : steps[node][i].input = input

Memoised(node, input) ==
  \E i \in DOMAIN steps[node] : steps[node][i] = [status |-> "completed", input |-> input]

\* Refresh; a completed step with the same input is not run again, otherwise the
\* attempts left running by another worker are closed and the next one numbered.
Enter(w) ==
  /\ ws[w].pc = "entering" /\ ~run.cancel
  /\ LET n == Node(w)
         input == Input(n, run.cand)
     IN IF Memoised(n, input)
          THEN /\ ws' = [ws EXCEPT ![w] = [@ EXCEPT !.pc = "checkpointed", !.copy = run]]
               /\ UNCHANGED steps
          ELSE /\ ws' = [ws EXCEPT ![w] =
                    [@ EXCEPT !.pc = "starting", !.copy = run, !.input = input,
                              !.try = Len(steps[n]) + 1,
                              !.last = Len(steps[n]) + MaxTries(n)]]
               /\ steps' = [steps EXCEPT ![n] = [i \in DOMAIN @ |->
                    IF @[i].status = "running" THEN [@[i] EXCEPT !.status = "failed"] ELSE @[i]]]
  /\ UNCHANGED <<run, questions, decisions, draft, jobs, answering, cancelling, spentBounds>>

\* Insert the attempt and mark the run running.  The cancel flag looked at here
\* is the session's copy, which no one refreshes between attempts.  A step with
\* this number already there is an IntegrityError.
StartAttempt(w) ==
  /\ ws[w].pc = "starting"
  /\ LET n == Node(w) IN
       IF Len(steps[n]) >= ws[w].try
         THEN /\ ws' = [ws EXCEPT ![w].pc = "raised"]
              /\ UNCHANGED <<run, steps>>
         ELSE LET new == [ws[w].copy EXCEPT !.status = "running"] IN
              /\ steps' = [steps EXCEPT ![n] = Append(@, [status |-> "running",
                                                          input |-> ws[w].input])]
              /\ run' = Write(w, new)
              /\ ws' = [ws EXCEPT ![w] = [@ EXCEPT !.pc = "running", !.copy = new]]
  /\ UNCHANGED <<questions, decisions, draft, jobs, answering, cancelling, spentBounds>>

\* The attempt's step ends as status and the session commits new.
EndAttempt(w, status, new) ==
  /\ steps' = [steps EXCEPT ![Node(w)][ws[w].try].status = status]
  /\ run' = Write(w, new)

\* Mutant: the result replaces candidate_data instead of being merged into it
MutReplaceCandidates(w, value) ==
  LET key == OutputKey(Node(w))
      new == IF key = None THEN ws[w].copy
                           ELSE [ws[w].copy EXCEPT !.cand = [NoCandidates EXCEPT ![key] = value]]
  IN /\ EndAttempt(w, "completed", new)
     /\ ws' = [ws EXCEPT ![w] = [@ EXCEPT !.pc = "checkpointed", !.copy = new]]

\* Success: the result is merged into the session's copy of candidate_data, and
\* the whole document is written back.
Checkpoint(w, value) ==
  LET key == OutputKey(Node(w))
      new == IF key = None THEN ws[w].copy ELSE [ws[w].copy EXCEPT !.cand[key] = value]
  IN /\ EndAttempt(w, "completed", new)
     /\ ws' = [ws EXCEPT ![w] = [@ EXCEPT !.pc = "checkpointed", !.copy = new]]

Running(w, nodes) ==
  /\ ws[w].pc = "running"
  /\ Node(w) \in nodes
  /\ \A k \in Needs(Node(w)) : ws[w].copy.cand[k] # None

\* A model call that returns a valid output, and the questions that come with
\* it; a question already asked is kept as it is (_persist_questions).
ModelNode(w) ==
  /\ Running(w, ModelNodes)
  /\ \E output \in Outputs, asked \in SUBSET {q \in Questions : AskedBy[q] = Node(w)} :
       /\ Checkpoint(w, output)
       /\ questions' = [q \in Questions |->
            IF q \in asked /\ questions[q] = None
              THEN [status |-> "open", answer |-> None] ELSE questions[q]]
  /\ UNCHANGED <<decisions, draft, jobs, answering, cancelling, spentBounds>>

\* A deterministic node whose result is a function of its input
PlainNode(w) ==
  /\ Running(w, {"validate_request", "validate_graph", "normalize_effort", "score_priority",
                 "schedule", "await_approval"})
  /\ Checkpoint(w, Input(Node(w), ws[w].copy.cand).cand)
  /\ UNCHANGED <<questions, decisions, draft, jobs, answering, cancelling, spentBounds>>

\* Answers and default assumptions become decisions; a question that has one
\* keeps it, an open one without a default is dismissed.
WaitOrAssume(w) ==
  /\ Running(w, {"wait_or_assume"}) /\ ~RequiredOpen
  /\ LET open == {q \in Questions : /\ questions[q] # None /\ questions[q].status = "open"
                                    /\ decisions[q] = None}
     IN /\ decisions' = [q \in Questions |->
             IF decisions[q] # None \/ questions[q] = None THEN decisions[q]
             ELSE IF q \in open \cap Defaulted THEN "assumption"
             ELSE questions[q].answer]
        /\ questions' = [q \in Questions |->
             IF q \notin open THEN questions[q]
             ELSE [questions[q] EXCEPT !.status =
                     IF q \in Defaulted THEN "assumed" ELSE "dismissed"]]
  /\ Checkpoint(w, decisions')
  /\ UNCHANGED <<draft, jobs, answering, cancelling, spentBounds>>

QualityGate(w) ==
  /\ Running(w, {"quality_gate"}) /\ Passes(Content(ws[w].copy.cand))
  /\ Checkpoint(w, Content(ws[w].copy.cand))
  /\ UNCHANGED <<questions, decisions, draft, jobs, answering, cancelling, spentBounds>>

\* Mutant: persist_draft trusts the earlier gate, or does not look for an existing draft
MutPersistUngated(w) ==
  /\ Running(w, {"persist_draft"})
  /\ draft' = IF draft = None THEN Content(ws[w].copy.cand) ELSE draft
  /\ Checkpoint(w, draft')
  /\ UNCHANGED <<questions, decisions, jobs, answering, cancelling, spentBounds>>
MutPersistAgain(w) ==
  /\ Running(w, {"persist_draft"}) /\ Passes(Content(ws[w].copy.cand))
  /\ draft' = Content(ws[w].copy.cand)
  /\ Checkpoint(w, draft')
  /\ UNCHANGED <<questions, decisions, jobs, answering, cancelling, spentBounds>>

\* persist_validated_draft, gated again: the run's draft if there is one, else a
\* new one, inserted with the checkpoint in one commit.
PersistDraft(w) ==
  /\ Running(w, {"persist_draft"}) /\ Passes(Content(ws[w].copy.cand))
  /\ draft' = IF draft = None THEN Content(ws[w].copy.cand) ELSE draft
  /\ Checkpoint(w, draft')
  /\ UNCHANGED <<questions, decisions, jobs, answering, cancelling, spentBounds>>

\* Another worker inserted the draft after this one looked for it: the unique
\* source_run_id rejects the second, and the broken session cannot record it.
DraftConflict(w) ==
  /\ Running(w, {"persist_draft"}) /\ Passes(Content(ws[w].copy.cand))
  /\ draft # None /\ ws[w].copy.cand["persisted_draft"] = None
  /\ ws' = [ws EXCEPT ![w].pc = "raised"]
  /\ UNCHANGED <<run, steps, questions, decisions, draft, jobs, answering, cancelling, spentBounds>>

\* Which nodes can raise NodeFailure now
Rejects(w) ==
  LET n == Node(w) IN
    \/ n \in ModelNodes \cup {"validate_request", "validate_graph", "score_priority", "schedule"}
    \/ n = "wait_or_assume" /\ RequiredOpen
    \/ n \in {"quality_gate", "persist_draft"} /\ ~Passes(Content(ws[w].copy.cand))

\* A transient provider failure with attempts left: the step fails, the loop
\* goes on after its backoff.
RetryNode(w) ==
  /\ Running(w, ModelNodes) /\ ws[w].try < ws[w].last
  /\ EndAttempt(w, "failed", ws[w].copy)
  /\ ws' = [ws EXCEPT ![w] = [@ EXCEPT !.pc = "starting", !.try = ws[w].try + 1]]
  /\ UNCHANGED <<questions, decisions, draft, jobs, answering, cancelling, spentBounds>>

\* A terminal NodeFailure: the run fails, or is partial when a model node ran out
\* of tokens.  A gate that rejects still leaves its report in candidate_data.
FailNode(w) ==
  /\ Running(w, Nodes) /\ Rejects(w)
  /\ \E status \in {"failed"} \cup (IF Node(w) \in ModelNodes THEN {"partial"} ELSE {}) :
       LET new == [ws[w].copy EXCEPT
                     !.status = status,
                     !.cand["quality_report"] =
                        IF Node(w) = "quality_gate" THEN Content(ws[w].copy.cand) ELSE @]
       IN EndAttempt(w, "failed", new)
  /\ ws' = [ws EXCEPT ![w].pc = "closing"]
  /\ UNCHANGED <<questions, decisions, draft, jobs, answering, cancelling, spentBounds>>

\* Any other exception in a handler, a missing candidate key among them: the run
\* fails and the exception leaves the workflow.
NodeRaises(w) ==
  /\ ws[w].pc = "running"
  /\ EndAttempt(w, "failed", [ws[w].copy EXCEPT !.status = "failed"])
  /\ ws' = [ws EXCEPT ![w].pc = "raised"]
  /\ UNCHANGED <<questions, decisions, draft, jobs, answering, cancelling, spentBounds>>

\* After the node: the questions are counted, and only then the run is written;
\* an answer may be committed in between.
FindOpenQuestion(w) ==
  /\ ws[w].pc = "checkpointed"
  /\ Node(w) \in {"detect_gaps", "analyze_project"} /\ RequiredOpen
  /\ ws' = [ws EXCEPT ![w].pc = "waiting"]
  /\ UNCHANGED <<run, steps, questions, decisions, draft, jobs, answering, cancelling, spentBounds>>

WaitForUser(w) ==
  /\ ws[w].pc = "waiting"
  /\ run' = Write(w, [ws[w].copy EXCEPT !.status = "waiting_for_user"])
  /\ ws' = [ws EXCEPT ![w].pc = "closing"]
  /\ UNCHANGED <<steps, questions, decisions, draft, jobs, answering, cancelling, spentBounds>>

Complete(w) ==
  /\ ws[w].pc = "checkpointed" /\ Node(w) = "await_approval"
  /\ run' = Write(w, [ws[w].copy EXCEPT !.status = "completed"])
  /\ ws' = [ws EXCEPT ![w].pc = "closing"]
  /\ UNCHANGED <<steps, questions, decisions, draft, jobs, answering, cancelling, spentBounds>>

Advance(w) ==
  /\ ws[w].pc = "checkpointed"
  /\ Node(w) # "await_approval"
  /\ ~(Node(w) \in {"detect_gaps", "analyze_project"} /\ RequiredOpen)
  /\ ws' = [ws EXCEPT ![w] = [@ EXCEPT !.pc = "entering", !.at = ws[w].at + 1]]
  /\ UNCHANGED <<run, steps, questions, decisions, draft, jobs, answering, cancelling, spentBounds>>

-----------------------------------------------------------------------------
(* The owner's requests: the run is read without a lock and written at commit *)

\* answer_clarifications is refused unless the run is waiting or queued.
AnswerBegin ==
  /\ answering = None /\ spentBounds.answers < MaxAnswers
  /\ run.status \in {"waiting_for_user", "queued"}
  /\ answering' = [status |-> run.status, questions |-> questions]
  /\ spentBounds' = [spentBounds EXCEPT !.answers = @ + 1]
  /\ UNCHANGED <<run, steps, questions, decisions, draft, jobs, ws, cancelling>>

\* Any of the run's questions may be answered, whatever its status.  If none of
\* the required questions read is left open, the run is queued and the job for
\* this state of the answers enqueued: a key already used returns the job it finds.
AnswerCommit ==
  /\ answering # None
  /\ answering' = None
  /\ \E given \in [Questions -> Answers \cup {None}] :
       LET read == answering.questions
           answered == {q \in Questions : given[q] # None}
           key == [q \in Questions |->
                     IF q \in answered THEN given[q]
                     ELSE IF read[q] # None /\ read[q].status = "answered" THEN read[q].answer
                     ELSE None]
       IN /\ answered # {} /\ \A q \in answered : read[q] # None
          /\ questions' = [q \in Questions |->
               IF q \in answered THEN [status |-> "answered", answer |-> given[q]]
                                 ELSE questions[q]]
          /\ IF \E q \in Required \ answered : read[q] # None /\ read[q].status = "open"
               THEN UNCHANGED <<run, jobs>>
               ELSE /\ run' = IF answering.status = "queued" THEN run
                                                             ELSE [run EXCEPT !.status = "queued"]
                    /\ jobs' = [jobs EXCEPT ![key].status = IF @ = "absent" THEN "queued" ELSE @]
  /\ UNCHANGED <<steps, decisions, draft, ws, cancelling, spentBounds>>

\* A request with nothing to answer, or refused by validation
AnswerRefused ==
  /\ answering # None
  /\ answering' = None
  /\ UNCHANGED <<run, steps, questions, decisions, draft, jobs, ws, cancelling, spentBounds>>

CancelBegin ==
  /\ cancelling = None /\ spentBounds.cancels < MaxCancels
  /\ run.status \notin Ended
  /\ cancelling' = run.status
  /\ spentBounds' = [spentBounds EXCEPT !.cancels = @ + 1]
  /\ UNCHANGED <<run, steps, questions, decisions, draft, jobs, ws, answering>>

\* A run read as running is only flagged; any other one is cancelled with its jobs.
CancelCommit ==
  /\ cancelling # None
  /\ cancelling' = None
  /\ IF cancelling = "running"
       THEN /\ run' = [run EXCEPT !.cancel = TRUE]
            /\ UNCHANGED jobs
       ELSE /\ run' = [run EXCEPT !.cancel = TRUE, !.status = "cancelled"]
            /\ jobs' = [k \in JobKeys |->
                 IF jobs[k].status \in {"queued", "claimed"}
                   THEN [jobs[k] EXCEPT !.status = "cancelled", !.owner = None] ELSE jobs[k]]
  /\ UNCHANGED <<steps, questions, decisions, draft, ws, answering, spentBounds>>

-----------------------------------------------------------------------------
SessionStep(w) ==
  \/ Open(w) \/ EnterCancelled(w) \/ Enter(w) \/ StartAttempt(w)
  \/ ModelNode(w) \/ PlainNode(w) \/ WaitOrAssume(w) \/ QualityGate(w) \/ PersistDraft(w)
  \/ DraftConflict(w) \/ RetryNode(w) \/ FailNode(w) \/ NodeRaises(w)
  \/ FindOpenQuestion(w) \/ WaitForUser(w) \/ Complete(w) \/ Advance(w) \/ FinishJob(w)

Next ==
  \/ \E w \in Workers : ClaimNext(w) \/ SessionStep(w) \/ Crash(w)
  \/ AnswerBegin \/ AnswerCommit \/ AnswerRefused
  \/ CancelBegin \/ CancelCommit

Spec == Init /\ [][Next]_vars

\* A live worker goes on: a model call has a timeout and the poll loop never stops
\* claiming.  An open request commits.  The owner need not answer or cancel.
FairSpec ==
  /\ Spec
  /\ \A w \in Workers : WF_vars(ClaimNext(w)) /\ WF_vars(SessionStep(w))
  /\ WF_vars(AnswerCommit \/ AnswerRefused) /\ WF_vars(CancelCommit)

-----------------------------------------------------------------------------
(* Properties *)

Done(n) == \E i \in DOMAIN steps[n] : steps[n][i].status = "completed"

\* "never set completed unless every required node succeeded": a completed run
\* has a completed checkpoint of every node and its draft, whatever crashed, was
\* cancelled or ran twice on the way.
CompletedIsWhole ==
  run.status = "completed" => draft # None /\ \A n \in Nodes : Done(n)

\* A draft exists only after a completed quality_gate step and with content the
\* gate accepts: persist_draft judges again what it writes, for another worker
\* may have replaced the candidates since the gate.
DraftIsSound == draft # None => Passes(draft) /\ Done("quality_gate")

\* With one worker the draft is the very content a quality_gate step judged.
DraftIsTheGatedOne ==
  draft # None =>
    \E i \in DOMAIN steps["quality_gate"] :
      steps["quality_gate"][i] = [status |-> "completed",
                                  input |-> [cand |-> draft, facts |-> None]]

\* A run persists one draft and never rewrites it, even when the node runs again
\* in another worker or after a crash.
DraftWrittenOnce == [][draft # None => draft' = draft]_vars

\* A handler that starts finds every candidate its predecessors checkpointed: the
\* memoised steps and the candidate document agree.
InputsPresent ==
  \A w \in Workers :
    ws[w].pc = "running" => \A k \in Needs(Node(w)) : ws[w].copy.cand[k] # None

LiveJob == \E k \in JobKeys : jobs[k].status \in {"queued", "claimed"}

\* "Only states that can still advance without starting a replacement run are
\* active": a queued or running run is in a worker's hands or has a job that will
\* be delivered.
ActiveRunCanAdvance ==
  run.status \in {"queued", "running"} => LiveJob \/ \E w \in Workers : ws[w].pc # "idle"

\* A run that waits for its user has a required question to answer, or an answer
\* request on its way.
WaitingHasQuestion ==
  run.status = "waiting_for_user" => RequiredOpen \/ answering # None

\* "restart resumes the last committed checkpoint" (docs/architecture.md:30): with
\* nobody answering, no node that has a completed checkpoint runs to completion a
\* second time.  It does not hold for a node that replaces a candidate its own input
\* hash covers (strengthen_acceptance): checked with TaskSequence it gives a trace.
ResumesFromCheckpoint ==
  \A n \in Nodes :
    Cardinality({i \in DOMAIN steps[n] : steps[n][i].status = "completed"}) <= 1

\* A run does not stay queued or running: it ends, stops as partial, or waits.
RunSettles ==
  run.status \in {"queued", "running"} ~> run.status \in Ended \cup {"partial", "waiting_for_user"}
=============================================================================
