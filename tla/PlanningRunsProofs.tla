------------------------ MODULE PlanningRunsProofs ------------------------
(***************************************************************************)
(* Proofs about PlanningRuns, for any number of attempts, crashes, answers *)
(* and cancels, and every sequence the assumptions allow.                  *)
(*                                                                         *)
(* For any number of workers: the type invariant, that a completed         *)
(* checkpoint stays, and that a completed run is whole and its one draft   *)
(* judged.  Two workers may run one run at once, so that candidate_data    *)
(* may lose a node's result; what is inductive is about the checkpoints:   *)
(* the nodes behind a session are done (Progress), for it has run each or  *)
(* found it memoised, and a completed step is never taken back.            *)
(*                                                                         *)
(* For one worker, in the second half: the draft is what the gate judged,  *)
(* handlers find their inputs, a waiting run can be answered and an active *)
(* one goes on.  GateInv: the copy of the candidates is the row's.         *)
(* QueueInv: the questions, the status, the jobs and an answer on its way  *)
(* agree.                                                                  *)
(***************************************************************************)
EXTENDS PlanningRuns, TLAPS, SequenceTheorems

-----------------------------------------------------------------------------
(* The sequence and its nodes *)

(* Where each node stands in PLANNING_SEQUENCE. *)
LEMMA PositionLemma ==
  ASSUME NEW j \in 1..17
  PROVE  Position(PLANNING_SEQUENCE[j]) = j
<1>1. \A i, k \in 1..17 : PLANNING_SEQUENCE[i] = PLANNING_SEQUENCE[k] => i = k
  BY DEF PLANNING_SEQUENCE
<1> QED BY <1>1 DEF Position

Names == {PLANNING_SEQUENCE[i] : i \in 1..17}

(* The nodes of a run are nodes of the code. *)
LEMMA NodesLemma ==
  /\ Nodes \subseteq Names
  /\ Len(PlanSequence) \in Nat
  /\ \A i \in 1..Len(PlanSequence) : PlanSequence[i] \in Nodes
<1>1. PlanSequence \in Seq(Names)
  BY SequenceAssumption DEF Names
<1>2. Len(PlanSequence) \in Nat /\ \A i \in 1..Len(PlanSequence) : PlanSequence[i] \in Names
  BY <1>1
<1> QED BY <1>2 DEF Nodes

(* The node that ends a run is the last one. *)
LEMMA LastLemma ==
  ASSUME NEW i \in 1..Len(PlanSequence), PlanSequence[i] # "await_approval"
  PROVE  i + 1 \in 1..Len(PlanSequence)
<1>1. PICK j \in 1..Len(PlanSequence) : PlanSequence[j] = "await_approval"
  BY SequenceAssumption DEF Nodes
<1>2. PICK p \in 1..17 : PlanSequence[i] = PLANNING_SEQUENCE[p]
  BY NodesLemma DEF Names
<1>3. Position(PlanSequence[i]) = p
  BY <1>2, PositionLemma
<1>4. 17 \in 1..17 /\ PLANNING_SEQUENCE[17] = "await_approval"
  BY DEF PLANNING_SEQUENCE
<1>5. Position(PlanSequence[j]) = 17
  BY <1>1, <1>4, PositionLemma
<1>6. ~(j < i)
  BY <1>3, <1>5, SequenceAssumption
<1>7. i # j
  BY <1>1
<1> QED BY <1>6, <1>7, NodesLemma

(* Nodes that come earlier in the code come earlier in the run. *)
LEMMA OrderLemma ==
  ASSUME NEW i \in 1..Len(PlanSequence), NEW k \in 1..Len(PlanSequence),
         Position(PlanSequence[k]) < Position(PlanSequence[i])
  PROVE  k \in 1..(i - 1)
<1>1. \A j \in 1..Len(PlanSequence) : Position(PlanSequence[j]) \in 1..17
  <2> SUFFICES ASSUME NEW j \in 1..Len(PlanSequence) PROVE Position(PlanSequence[j]) \in 1..17
    OBVIOUS
  <2>1. PICK p \in 1..17 : PlanSequence[j] = PLANNING_SEQUENCE[p]
    BY NodesLemma DEF Names
  <2> QED BY <2>1, PositionLemma
<1>2. PICK p \in 1..17, q \in 1..17 : p = Position(PlanSequence[i]) /\ q = Position(PlanSequence[k])
  BY <1>1
<1>3. i < k => p < q
  BY <1>2, SequenceAssumption
<1>4. q < p
  BY <1>2
<1>5. ~(i < k) /\ i # k
  BY <1>2, <1>3, <1>4
<1> QED BY <1>5, NodesLemma

(* A node stands in one place of the run. *)
LEMMA SameNodeLemma ==
  ASSUME NEW i \in 1..Len(PlanSequence), NEW k \in 1..Len(PlanSequence),
         PlanSequence[i] = PlanSequence[k]
  PROVE  i = k
<1>1. PICK p \in 1..17 : PlanSequence[i] = PLANNING_SEQUENCE[p]
  BY NodesLemma DEF Names
<1>2. Position(PlanSequence[i]) = p /\ Position(PlanSequence[k]) = p
  BY <1>1, PositionLemma
<1>3. ~(i < k) /\ ~(k < i)
  BY <1>2, SequenceAssumption
<1> QED BY <1>3, NodesLemma

(* A node with its position. *)
LEMMA NameLemma ==
  ASSUME NEW n \in Names
  PROVE  \E p \in 1..17 : n = PLANNING_SEQUENCE[p] /\ Position(n) = p
BY PositionLemma DEF Names

-----------------------------------------------------------------------------
(* The values of the candidates *)

AnyValue == Plain \cup Intakes \cup DecisionSets \cup Graphs \cup Efforts \cup Priorities
              \cup Schedules \cup Contents

ValueOf(k) ==
  CASE k = "validated_intake"  -> Intakes
    [] k = "decision_refs"     -> DecisionSets
    [] k = "graph"             -> Graphs
    [] k = "normalized_effort" -> Efforts
    [] k = "priorities"        -> Priorities
    [] k = "schedule"          -> Schedules
    [] k \in {"quality_report", "persisted_draft"} -> Contents
    [] OTHER                   -> Outputs

Candidates == {c \in [Keys -> AnyValue] : \A k \in Keys : c[k] = None \/ c[k] \in ValueOf(k)}

(* No value is None, and every value is one of AnyValue. *)
LEMMA ValueLemma ==
  ASSUME NEW k \in Keys
  PROVE  None \notin ValueOf(k) /\ ValueOf(k) \subseteq AnyValue
BY NoneAssumption DEF ValueOf, AnyValue, Plain

(* Every key of a node's input, and the key it updates, is a candidate. *)
LEMMA KeysLemma ==
  ASSUME NEW n \in Names
  PROVE  /\ InputKeys(n) \subseteq Keys
         /\ OutputKey(n) # None => OutputKey(n) \in Keys
BY DEF Names, PLANNING_SEQUENCE, InputKeys, OutputKey, Keys

(* Only the node that ends the run updates no candidate. *)
LEMMA OutputKeyLemma ==
  ASSUME NEW n \in Names
  PROVE  OutputKey(n) = None <=> n = "await_approval"
BY NoneAssumption DEF Names, PLANNING_SEQUENCE, OutputKey, Keys

(* The candidates stay well formed when a value is merged into them. *)
LEMMA MergeLemma ==
  ASSUME NEW c \in Candidates, NEW k \in Keys, NEW v \in ValueOf(k) \cup {None}
  PROVE  [c EXCEPT ![k] = v] \in Candidates
<1>1. v \in AnyValue
  BY ValueLemma DEF AnyValue, Plain
<1> QED BY <1>1 DEF Candidates

(* A deterministic node computes a value of the key it updates. *)
LEMMA PlainValueLemma ==
  ASSUME NEW c \in Candidates,
         NEW n \in {"validate_request", "validate_graph", "normalize_effort", "score_priority",
                    "schedule"}
  PROVE  [k \in InputKeys(n) |-> c[k]] \in ValueOf(OutputKey(n))
<1> DEFINE f == [k \in InputKeys(n) |-> c[k]]
<1>0. \A k \in Keys : c[k] = None \/ c[k] \in ValueOf(k)
  BY DEF Candidates
<1>1. c["tasks"] \in Plain /\ c["dependencies"] \in Plain
  BY <1>0 DEF Keys, ValueOf, Plain
<1>2. c["graph"] \in Plain \cup Graphs /\ c["priorities"] \in Plain \cup Priorities
  BY <1>0 DEF Keys, ValueOf, Plain
<1>3. CASE n = "validate_request"
  BY <1>3 DEF InputKeys, OutputKey, ValueOf, Intakes
<1>4. CASE n = "validate_graph"
  BY <1>1, <1>4 DEF InputKeys, OutputKey, ValueOf, Graphs
<1>5. CASE n = "normalize_effort"
  BY <1>1, <1>5 DEF InputKeys, OutputKey, ValueOf, Efforts
<1>6. CASE n = "score_priority"
  BY <1>1, <1>2, <1>6 DEF InputKeys, OutputKey, ValueOf, Priorities
<1>7. CASE n = "schedule"
  BY <1>1, <1>2, <1>7 DEF InputKeys, OutputKey, ValueOf, Schedules
<1> QED BY <1>3, <1>4, <1>5, <1>6, <1>7

(* What the gate judges is a plan's content, and it is there. *)
LEMMA ContentLemma ==
  ASSUME NEW c \in Candidates
  PROVE  Content(c) \in Contents /\ Content(c) # None
<1>0. \A k \in Keys : c[k] = None \/ c[k] \in ValueOf(k)
  BY DEF Candidates
<1>1. \A k \in InputKeys("quality_gate") : c[k] \in Plain \cup Schedules
  BY <1>0 DEF InputKeys, Keys, ValueOf, Plain
<1> QED BY <1>1, NoneAssumption DEF Content, Contents

-----------------------------------------------------------------------------
(* The type invariant *)

RunRow == [status : RunStatus, cancel : BOOLEAN, cand : Candidates]
QuestionMaps == [Questions -> QuestionRow \cup {None}]
JobRow == [status : JobStatus, attempts : 0..MaxAttempts, owner : Workers \cup {None}]

FactsOf(n) == CASE n = "wait_or_assume"  -> QuestionMaps
                [] n = "analyze_project" -> DecisionSets
                [] OTHER                 -> {None}
Inputs(n) == [cand : [InputKeys(n) -> AnyValue], facts : FactsOf(n)]
StepStatus == {"running", "completed", "failed"}
StepRow(n) == [status : StepStatus, input : Inputs(n)]

PC == {"idle", "opening", "entering", "starting", "running", "checkpointed", "waiting",
       "closing", "raised"}
InNode    == {"starting", "running", "checkpointed", "waiting"}
InSession == InNode \cup {"entering"}
AnyInput  == {None} \cup UNION {Inputs(n) : n \in Nodes}
Session   == [pc : PC, job : JobKeys \cup {None}, at : 0..Len(PlanSequence),
              copy : RunRow \cup {None}, input : AnyInput, try : Nat, last : Nat]

StepsOK == /\ steps = [n \in Nodes |-> steps[n]]
           /\ \A n \in Nodes : steps[n] \in Seq(StepRow(n))

RequestOK ==
  /\ answering = None
     \/ answering \in [status : {"waiting_for_user", "queued"}, questions : QuestionMaps]
  /\ cancelling \in RunStatus \cup {None}
  /\ spentBounds \in [crashes : 0..MaxCrashes, answers : 0..MaxAnswers, cancels : 0..MaxCancels]

(* What a session has read and claimed, by where it stands: in a session it is *)
(* at a node; in a node it has a copy of the row; in an attempt it has the     *)
(* attempt's number, whose step it owns once it is running.                    *)
SessionOK(w) ==
  /\ ws[w].pc # "idle" => ws[w].job \in JobKeys
  /\ ws[w].pc \in InSession => ws[w].at \in 1..Len(PlanSequence)
  /\ ws[w].pc \in InNode => ws[w].copy \in RunRow
  /\ ws[w].pc \in {"starting", "running"} =>
       ws[w].input \in Inputs(Node(w)) /\ ws[w].try \in Nat \ {0}
  /\ ws[w].pc = "starting" => ws[w].try <= Len(steps[Node(w)]) + 1
  /\ ws[w].pc = "running" =>
       /\ ws[w].try <= Len(steps[Node(w)])
       /\ steps[Node(w)][ws[w].try].status # "completed"
       /\ steps[Node(w)][ws[w].try].input = ws[w].input

TypeOK ==
  /\ run \in RunRow
  /\ StepsOK
  /\ questions \in QuestionMaps
  /\ decisions \in DecisionSets
  /\ draft = None \/ draft \in Contents
  /\ jobs \in [JobKeys -> JobRow]
  /\ ws \in [Workers -> Session]
  /\ RequestOK
  /\ \A w \in Workers : SessionOK(w)

(* An attempt that runs belongs to one worker. *)
AttemptOfOne ==
  \A v, w \in Workers :
    ws[v].pc = "running" /\ ws[w].pc = "running" /\ ws[v].at = ws[w].at
      /\ ws[v].try = ws[w].try => v = w

(* What a step may do to the checkpoints: no step is lost, a completed one never *)
(* changes, and a step that a worker runs keeps its input and, unless that       *)
(* worker ends it, does not complete.                                            *)
Kept(n) ==
  /\ Len(steps[n]) <= Len(steps'[n])
  /\ \A i \in 1..Len(steps[n]) :
       /\ steps'[n][i].input = steps[n][i].input
       /\ steps[n][i].status = "completed" => steps'[n][i] = steps[n][i]

(* A session at a node is at a node of the sequence. *)
LEMMA NodeLemma ==
  ASSUME NEW w \in Workers, ws[w].at \in 1..Len(PlanSequence)
  PROVE  Node(w) \in Nodes /\ Node(w) \in Names
BY NodesLemma DEF Node

(* The rows of a node's steps stay rows under the three updates of the runner. *)
LEMMA RowsLemma ==
  ASSUME NEW n, NEW s \in Seq(StepRow(n))
  PROVE  /\ Len(s) \in Nat /\ DOMAIN s = 1..Len(s)
         /\ \A i \in 1..Len(s) : s[i] \in StepRow(n)
         /\ \A i \in 1..Len(s), st \in StepStatus :
              [s EXCEPT ![i].status = st] \in Seq(StepRow(n))
         /\ [i \in DOMAIN s |-> IF s[i].status = "running"
                                  THEN [s[i] EXCEPT !.status = "failed"] ELSE s[i]]
              \in Seq(StepRow(n))
         /\ \A input \in Inputs(n) :
              Append(s, [status |-> "running", input |-> input]) \in Seq(StepRow(n))
<1>1. Len(s) \in Nat /\ DOMAIN s = 1..Len(s) /\ s \in [1..Len(s) -> StepRow(n)]
  OBVIOUS
<1>2. \A r \in StepRow(n), st \in StepStatus : [r EXCEPT !.status = st] \in StepRow(n)
  BY DEF StepRow
<1>3. ASSUME NEW i \in 1..Len(s), NEW st \in StepStatus
      PROVE  [s EXCEPT ![i].status = st] \in Seq(StepRow(n))
  <2>1. [s EXCEPT ![i] = [s[i] EXCEPT !.status = st]] \in [1..Len(s) -> StepRow(n)]
    BY <1>1, <1>2
  <2> QED BY <1>1, <2>1
<1>4. [i \in DOMAIN s |-> IF s[i].status = "running"
                            THEN [s[i] EXCEPT !.status = "failed"] ELSE s[i]]
        \in Seq(StepRow(n))
  <2>1. "failed" \in StepStatus
    BY DEF StepStatus
  <2>2. [i \in 1..Len(s) |-> IF s[i].status = "running"
                            THEN [s[i] EXCEPT !.status = "failed"] ELSE s[i]]
        \in [1..Len(s) -> StepRow(n)]
    BY <1>1, <1>2, <2>1
  <2> QED BY <1>1, <2>2
<1>5. ASSUME NEW input \in Inputs(n)
      PROVE  Append(s, [status |-> "running", input |-> input]) \in Seq(StepRow(n))
  <2>1. [status |-> "running", input |-> input] \in StepRow(n)
    BY DEF StepRow, StepStatus
  <2> QED BY <2>1
<1> QED BY <1>1, <1>3, <1>4, <1>5

(* The row is a row after the columns a session has changed are written. *)
LEMMA WriteLemma ==
  ASSUME NEW w \in Workers, run \in RunRow, NEW new \in RunRow
  PROVE  /\ Write(w, new) \in RunRow
         /\ Write(w, new).cancel = run.cancel
         /\ Write(w, new).status = IF new.status # ws[w].copy.status THEN new.status ELSE run.status
         /\ Write(w, new).cand = IF new.cand # ws[w].copy.cand THEN new.cand ELSE run.cand
BY DEF Write, RunRow

(* What input_hash covers is an input of the node. *)
LEMMA InputLemma ==
  ASSUME NEW n \in Nodes, NEW c \in Candidates,
         questions \in QuestionMaps, decisions \in DecisionSets
  PROVE  Input(n, c) \in Inputs(n)
<1>1. InputKeys(n) \subseteq Keys
  BY NodesLemma, KeysLemma
<1>2. [k \in InputKeys(n) |-> c[k]] \in [InputKeys(n) -> AnyValue]
  BY <1>1 DEF Candidates
<1>3. (CASE n = "wait_or_assume"  -> questions
         [] n = "analyze_project" -> decisions
         [] OTHER                 -> None) \in FactsOf(n)
  BY DEF FactsOf
<1> QED BY <1>2, <1>3 DEF Input, Inputs

(* The updates of a session's record. *)
LEMMA SessionLemma ==
  ASSUME NEW s \in Session
  PROVE  /\ \A p \in PC : [s EXCEPT !.pc = p] \in Session
         /\ \A p \in PC, c \in RunRow : [s EXCEPT !.pc = p, !.copy = c] \in Session
         /\ \A p \in PC, a \in 0..Len(PlanSequence) : [s EXCEPT !.pc = p, !.at = a] \in Session
         /\ \A p \in PC, t \in Nat : [s EXCEPT !.pc = p, !.try = t] \in Session
         /\ \A p \in PC, c \in RunRow, i \in AnyInput, t, l \in Nat :
              [s EXCEPT !.pc = p, !.copy = c, !.input = i, !.try = t, !.last = l] \in Session
BY DEF Session

(* An idle worker's record, and that of one that has claimed a job. *)
LEMMA IdleLemma ==
  /\ Idle \in Session
  /\ \A k \in JobKeys : [Idle EXCEPT !.pc = "opening", !.job = k] \in Session
<1>1. 0 \in 0..Len(PlanSequence) /\ "idle" \in PC /\ "opening" \in PC /\ None \in AnyInput
  BY NodesLemma DEF PC, AnyInput
<1>2. Idle \in Session
  BY <1>1 DEF Idle, Session
<1> QED BY <1>1, <1>2 DEF Session

(* What a step of worker w may do to the checkpoints and to the others: the  *)
(* rows of the steps are kept, and an attempt another worker runs does not   *)
(* complete.                                                                 *)
Keeps(w) ==
  /\ StepsOK'
  /\ \A n \in Nodes : Kept(n)
  /\ \A v \in Workers \ {w} :
       /\ ws'[v] = ws[v]
       /\ ws[v].pc = "running" => steps'[Node(v)][ws[v].try].status # "completed"

(* The sessions of the other workers stay as they are. *)
LEMMA OthersLemma ==
  ASSUME TypeOK, NEW w \in Workers, Keeps(w), NEW v \in Workers \ {w}
  PROVE  SessionOK(v)'
<1>1. SessionOK(v) /\ ws'[v] = ws[v]
  BY DEF TypeOK, Keeps
<1>2. Node(v)' = Node(v)
  BY <1>1 DEF Node
<1>3. CASE ws[v].pc \in InSession
  <2>1. Node(v) \in Nodes
    BY <1>1, <1>3, NodeLemma DEF SessionOK
  <2>2. Kept(Node(v))
    BY <2>1 DEF Keeps
  <2>3. Len(steps[Node(v)]) \in Nat /\ Len(steps'[Node(v)]) \in Nat
    BY <2>1, RowsLemma DEF TypeOK, StepsOK, Keeps
  <2>4. ws[v].pc = "starting" => ws[v].try <= Len(steps'[Node(v)]) + 1
    BY <1>1, <2>2, <2>3 DEF SessionOK, Kept
  <2>5. ws[v].pc = "running" =>
          /\ ws[v].try <= Len(steps'[Node(v)])
          /\ steps'[Node(v)][ws[v].try].status # "completed"
          /\ steps'[Node(v)][ws[v].try].input = ws[v].input
    BY <1>1, <2>2, <2>3 DEF SessionOK, Kept, Keeps
  <2> QED BY <1>1, <1>2, <2>4, <2>5 DEF SessionOK
<1>4. CASE ws[v].pc \notin InSession
  BY <1>1, <1>4 DEF SessionOK, InSession, InNode
<1> QED BY <1>3, <1>4

(* A step that leaves the checkpoints alone keeps them. *)
LEMMA SameStepsLemma ==
  ASSUME TypeOK, NEW w \in Workers, NEW s, ws' = [ws EXCEPT ![w] = s], steps' = steps
  PROVE  Keeps(w) /\ ws'[w] = s
<1>1. ws'[w] = s /\ \A v \in Workers \ {w} : ws'[v] = ws[v]
  BY DEF TypeOK
<1>2. StepsOK'
  BY DEF TypeOK, StepsOK
<1>3. ASSUME NEW n \in Nodes PROVE Kept(n)
  <2>1. Len(steps[n]) \in Nat
    BY RowsLemma DEF TypeOK, StepsOK
  <2> QED BY <2>1 DEF Kept
<1>4. \A v \in Workers \ {w} :
        ws[v].pc = "running" => steps'[Node(v)][ws[v].try].status # "completed"
  BY DEF TypeOK, SessionOK
<1> QED BY <1>1, <1>2, <1>3, <1>4 DEF Keeps

(* The end of an attempt: its own step, which was not completed, gets the *)
(* status, and every other step stays as it is.                           *)
LEMMA EndLemma ==
  ASSUME TypeOK, AttemptOfOne, NEW w \in Workers, ws[w].pc = "running",
         NEW status \in {"completed", "failed"}, NEW new, EndAttempt(w, status, new),
         \A v \in Workers \ {w} : ws'[v] = ws[v]
  PROVE  /\ Keeps(w)
         /\ run' = Write(w, new)
         /\ Node(w) \in Nodes
         /\ \A n \in Nodes \ {Node(w)} : steps'[n] = steps[n]
         /\ ws[w].try \in 1..Len(steps[Node(w)])
         /\ Len(steps'[Node(w)]) = Len(steps[Node(w)])
         /\ steps'[Node(w)][ws[w].try] = [status |-> status, input |-> ws[w].input]
         /\ \A i \in 1..Len(steps[Node(w)]) \ {ws[w].try} :
              steps'[Node(w)][i] = steps[Node(w)][i]
<1> DEFINE n == Node(w)
           t == ws[w].try
<1>1. n \in Nodes /\ SessionOK(w) /\ StepsOK
  BY NodeLemma DEF TypeOK, SessionOK, InSession, InNode
<1>2. steps[n] \in Seq(StepRow(n)) /\ Len(steps[n]) \in Nat
  BY <1>1, RowsLemma DEF StepsOK
<1>3. t \in 1..Len(steps[n]) /\ steps[n][t].status # "completed" /\ steps[n][t].input = ws[w].input
  BY <1>1, <1>2 DEF SessionOK
<1>4. steps' = [steps EXCEPT ![n] = [steps[n] EXCEPT ![t].status = status]]
  BY DEF EndAttempt
<1>5. /\ steps'[n] = [steps[n] EXCEPT ![t].status = status]
      /\ \A m \in Nodes \ {n} : steps'[m] = steps[m]
      /\ steps' = [m \in Nodes |-> steps'[m]]
  BY <1>1, <1>4 DEF StepsOK
<1>6. steps'[n] \in Seq(StepRow(n))
  <2>1. status \in StepStatus
    BY DEF StepStatus
  <2>2. \A i \in 1..Len(steps[n]), st \in StepStatus :
          [steps[n] EXCEPT ![i].status = st] \in Seq(StepRow(n))
    BY <1>2, RowsLemma
  <2>3. [steps[n] EXCEPT ![t].status = status] \in Seq(StepRow(n))
    BY <1>3, <2>1, <2>2
  <2> QED BY <1>5, <2>3
<1>7. StepsOK'
  BY <1>1, <1>5, <1>6 DEF StepsOK
<1>8. DOMAIN steps[n] = 1..Len(steps[n]) /\ \A i \in 1..Len(steps[n]) : steps[n][i] \in StepRow(n)
  BY <1>2, RowsLemma
<1>9. Len(steps'[n]) = Len(steps[n])
  BY <1>2, <1>5
<1>10. \A i \in 1..Len(steps[n]) \ {t} : steps'[n][i] = steps[n][i]
  BY <1>2, <1>5
<1>11. steps'[n][t] = [steps[n][t] EXCEPT !.status = status]
  BY <1>2, <1>3, <1>5
<1>12. steps'[n][t] = [status |-> status, input |-> ws[w].input]
  BY <1>3, <1>8, <1>11 DEF StepRow
<1>13. \A m \in Nodes : Kept(m)
  <2>1. Kept(n)
    BY <1>2, <1>3, <1>9, <1>10, <1>12 DEF Kept
  <2>2. ASSUME NEW m \in Nodes \ {n} PROVE Kept(m)
    <3>1. Len(steps[m]) \in Nat
      BY <1>1, RowsLemma DEF StepsOK
    <3> QED BY <1>5, <3>1 DEF Kept
  <2> QED BY <2>1, <2>2
<1>14. ASSUME NEW v \in Workers \ {w}, ws[v].pc = "running"
       PROVE  steps'[Node(v)][ws[v].try].status # "completed"
  <2>1. /\ ws[v].at \in 1..Len(PlanSequence) /\ Node(v) \in Nodes
        /\ ws[v].try \in 1..Len(steps[Node(v)])
        /\ steps[Node(v)][ws[v].try].status # "completed"
    <3>1. SessionOK(v) /\ ws[v].at \in 1..Len(PlanSequence)
      BY <1>14 DEF TypeOK, SessionOK, InSession, InNode
    <3>2. Node(v) \in Nodes
      BY <3>1, NodeLemma
    <3>3. Len(steps[Node(v)]) \in Nat
      BY <3>2, RowsLemma DEF TypeOK, StepsOK
    <3> QED BY <1>14, <3>1, <3>2, <3>3 DEF SessionOK
  <2>2. CASE Node(v) # n
    BY <1>5, <2>1, <2>2
  <2>3. CASE Node(v) = n
    <3>1. ws[v].at = ws[w].at
      BY <1>1, <2>1, <2>3, SameNodeLemma DEF Node, SessionOK, InSession, InNode
    <3>2. ws[v].try # t
      BY <1>14, <3>1 DEF AttemptOfOne
    <3> QED BY <1>10, <2>1, <2>3, <3>2
  <2> QED BY <2>2, <2>3
<1> QED BY <1>1, <1>3, <1>5, <1>7, <1>9, <1>10, <1>12, <1>13, <1>14 DEF Keeps, EndAttempt

(* A step of a worker that keeps the checkpoints and leaves every variable well *)
(* formed keeps the type invariant.                                            *)
LEMMA WorkerStepLemma ==
  ASSUME TypeOK, AttemptOfOne, NEW w \in Workers, Keeps(w),
         NEW s \in Session, ws' = [ws EXCEPT ![w] = s], SessionOK(w)', s.pc # "running",
         run' \in RunRow, questions' \in QuestionMaps, decisions' \in DecisionSets,
         draft' = None \/ draft' \in Contents, jobs' \in [JobKeys -> JobRow], RequestOK'
  PROVE  TypeOK' /\ AttemptOfOne'
<1>1. ws' \in [Workers -> Session] /\ ws'[w] = s /\ \A v \in Workers \ {w} : ws'[v] = ws[v]
  BY DEF TypeOK
<1>2. \A v \in Workers : SessionOK(v)'
  BY OthersLemma
<1>3. AttemptOfOne'
  BY <1>1 DEF AttemptOfOne
<1> QED BY <1>1, <1>2, <1>3 DEF TypeOK, Keeps

(* The same when no checkpoint changes: the worker's new record is enough. *)
LEMMA MoveLemma ==
  ASSUME TypeOK, AttemptOfOne, NEW w \in Workers,
         NEW s \in Session, ws' = [ws EXCEPT ![w] = s], steps' = steps,
         s.pc \notin {"starting", "running"},
         s.pc # "idle" => s.job \in JobKeys,
         s.pc \in InSession => s.at \in 1..Len(PlanSequence),
         s.pc \in InNode => s.copy \in RunRow,
         run' \in RunRow, questions' = questions, decisions' = decisions, draft' = draft,
         jobs' \in [JobKeys -> JobRow], RequestOK'
  PROVE  TypeOK' /\ AttemptOfOne' /\ Keeps(w) /\ ws'[w] = s
<1>1. Keeps(w) /\ ws'[w] = s
  BY SameStepsLemma
<1>2. SessionOK(w)'
  BY <1>1 DEF SessionOK
<1>3. questions' \in QuestionMaps /\ decisions' \in DecisionSets
        /\ (draft' = None \/ draft' \in Contents)
  BY DEF TypeOK
<1> QED BY <1>1, <1>2, <1>3, WorkerStepLemma

(* claim_next: a job that is claimed has an attempt left. *)
LEMMA ClaimTypes ==
  ASSUME TypeOK, AttemptOfOne, NEW w \in Workers, ClaimNext(w)
  PROVE  /\ TypeOK' /\ AttemptOfOne' /\ Keeps(w)
         /\ ws'[w].pc \in {"idle", "opening"}
<1>1. PICK expired \in SUBSET {k \in JobKeys : jobs[k].status = "claimed"} :
        ClaimNext(w)!2!(expired)
  BY DEF ClaimNext
<1> DEFINE exhausted == {k \in expired : jobs[k].attempts >= MaxAttempts}
           reconciled == [k \in JobKeys |->
                            IF k \in exhausted
                              THEN [jobs[k] EXCEPT !.status = "failed", !.owner = None]
                              ELSE jobs[k]]
           ready == {k \in JobKeys : Deliverable(k, expired)}
<1>2. jobs \in [JobKeys -> JobRow] /\ run \in RunRow
  BY DEF TypeOK
<1>3. reconciled \in [JobKeys -> JobRow]
  BY <1>2 DEF JobRow, JobStatus
<1>4. FailActiveRun(run) \in RunRow
  BY <1>2 DEF FailActiveRun, RunRow, RunStatus
<1>5. run' \in RunRow
  BY <1>1, <1>2, <1>4
<1>6. /\ steps' = steps /\ questions' = questions /\ decisions' = decisions
      /\ draft' = draft /\ RequestOK'
  BY DEF ClaimNext, TypeOK, RequestOK
<1>7. CASE exhausted # {} /\ jobs' = reconciled /\ UNCHANGED ws
  <2>1. ws' = [ws EXCEPT ![w] = ws[w]] /\ ws[w] \in Session /\ ws[w].pc = "idle"
    BY <1>7 DEF TypeOK, ClaimNext
  <2> HIDE DEF reconciled
  <2>2. jobs' \in [JobKeys -> JobRow]
    BY <1>3, <1>7
  <2> QED BY <1>5, <1>6, <2>1, <2>2, MoveLemma DEF InSession, InNode
<1>8. CASE \E k \in ready :
             /\ jobs' = [reconciled EXCEPT ![k] =
                          [status |-> "claimed", attempts |-> @.attempts + 1, owner |-> w]]
             /\ ws' = [ws EXCEPT ![w] = [Idle EXCEPT !.pc = "opening", !.job = k]]
  <2>1. PICK k \in ready :
             /\ jobs' = [reconciled EXCEPT ![k] =
                          [status |-> "claimed", attempts |-> @.attempts + 1, owner |-> w]]
             /\ ws' = [ws EXCEPT ![w] = [Idle EXCEPT !.pc = "opening", !.job = k]]
    BY <1>8
  <2>2. jobs[k].attempts < MaxAttempts /\ jobs[k] \in JobRow
    BY <1>2, <2>1 DEF Deliverable
  <2>3. reconciled[k].attempts + 1 \in 0..MaxAttempts
    BY <2>2, BoundAssumption DEF JobRow
  <2>4. [status |-> "claimed", attempts |-> reconciled[k].attempts + 1, owner |-> w] \in JobRow
    BY <2>3 DEF JobRow, JobStatus
  <2> DEFINE s == [Idle EXCEPT !.pc = "opening", !.job = k]
  <2>5. s \in Session /\ s.pc = "opening" /\ s.job = k /\ k \in JobKeys
    BY IdleLemma DEF Idle
  <2> HIDE DEF s, reconciled, ready
  <2>6. jobs' \in [JobKeys -> JobRow]
    BY <1>3, <2>1, <2>4
  <2>7. ws' = [ws EXCEPT ![w] = s]
    BY <2>1 DEF s
  <2> QED BY <1>5, <1>6, <2>5, <2>6, <2>7, MoveLemma DEF InSession, InNode
<1> QED BY <1>1, <1>7, <1>8

(* The finish transaction. *)
LEMMA FinishTypes ==
  ASSUME TypeOK, AttemptOfOne, NEW w \in Workers, FinishJob(w)
  PROVE  /\ TypeOK' /\ AttemptOfOne' /\ Keeps(w)
         /\ ws'[w].pc = "idle"
<1>1. jobs \in [JobKeys -> JobRow] /\ run \in RunRow /\ ws[w].job \in JobKeys
  BY DEF TypeOK, SessionOK, FinishJob
<1>2. FailActiveRun(run) \in RunRow
  BY <1>1 DEF FailActiveRun, RunRow, RunStatus
<1>3. \A status \in JobStatus : [jobs[ws[w].job] EXCEPT !.status = status, !.owner = None] \in JobRow
  BY <1>1 DEF JobRow
<1>4. /\ steps' = steps /\ questions' = questions /\ decisions' = decisions
      /\ draft' = draft /\ RequestOK' /\ ws' = [ws EXCEPT ![w] = Idle]
  BY DEF FinishJob, TypeOK, RequestOK
<1>5. jobs' \in [JobKeys -> JobRow] /\ run' \in RunRow
  <2>1. CASE jobs[ws[w].job].status # "claimed" \/ jobs[ws[w].job].owner # w
    BY <1>1, <2>1 DEF FinishJob
  <2>2. CASE ~(jobs[ws[w].job].status # "claimed" \/ jobs[ws[w].job].owner # w)
    <3> DEFINE k == ws[w].job
               status == CASE ws[w].pc = "closing" -> "completed"
                           [] ws[w].pc = "raised" /\ jobs[k].attempts < MaxAttempts -> "queued"
                           [] OTHER -> "failed"
    <3>1. status \in JobStatus
      BY DEF JobStatus
    <3>2. /\ jobs' = [jobs EXCEPT ![k] = [@ EXCEPT !.status = status, !.owner = None]]
          /\ run' = IF status = "failed" THEN FailActiveRun(run) ELSE run
      BY <2>2 DEF FinishJob
    <3> HIDE DEF status
    <3> QED BY <1>1, <1>2, <1>3, <3>1, <3>2
  <2> QED BY <2>1, <2>2
<1>6. Idle \in Session /\ Idle.pc = "idle"
  BY IdleLemma DEF Idle
<1> QED BY <1>4, <1>5, <1>6, MoveLemma DEF InSession, InNode

(* A crash. *)
LEMMA CrashTypes ==
  ASSUME TypeOK, AttemptOfOne, NEW w \in Workers, Crash(w)
  PROVE  /\ TypeOK' /\ AttemptOfOne' /\ Keeps(w)
         /\ ws'[w].pc = "idle"
<1>1. /\ steps' = steps /\ questions' = questions /\ decisions' = decisions
      /\ draft' = draft /\ ws' = [ws EXCEPT ![w] = Idle] /\ run' \in RunRow
      /\ jobs' \in [JobKeys -> JobRow]
  BY DEF Crash, TypeOK
<1>2. RequestOK'
  BY BoundAssumption DEF Crash, TypeOK, RequestOK
<1>3. Idle \in Session /\ Idle.pc = "idle"
  BY IdleLemma DEF Idle
<1> QED BY <1>1, <1>2, <1>3, MoveLemma DEF InSession, InNode

(* The steps of a session that only move it on: it opens the run, finds it    *)
(* cancelled, leaves its node, stops to wait, completes the run, or breaks on *)
(* a draft it did not see.                                                    *)
LEMMA MoveTypes ==
  ASSUME TypeOK, AttemptOfOne, NEW w \in Workers,
         \/ Open(w) \/ EnterCancelled(w) \/ DraftConflict(w) \/ FindOpenQuestion(w)
         \/ WaitForUser(w) \/ Complete(w) \/ Advance(w)
  PROVE  /\ TypeOK' /\ AttemptOfOne' /\ Keeps(w)
         /\ steps' = steps /\ draft' = draft /\ questions' = questions /\ decisions' = decisions
<1>1. /\ steps' = steps /\ questions' = questions /\ decisions' = decisions
      /\ draft' = draft /\ jobs' = jobs /\ RequestOK'
  BY DEF Open, EnterCancelled, DraftConflict, FindOpenQuestion, WaitForUser, Complete, Advance,
         TypeOK, RequestOK
<1>2. /\ jobs' \in [JobKeys -> JobRow] /\ run \in RunRow /\ ws[w] \in Session /\ SessionOK(w)
  BY <1>1 DEF TypeOK
<1>3. {"closing", "entering", "raised", "waiting"} \subseteq PC
  BY DEF PC
<1>4. \A p \in {"closing", "raised", "waiting"} : [ws[w] EXCEPT !.pc = p] \in Session
  BY <1>2, <1>3, SessionLemma
<1>6. CASE Open(w)
  <2>1. CASE run.status \in Ended
    <3>1. ws' = [ws EXCEPT ![w] = [ws[w] EXCEPT !.pc = "closing"]] /\ run' = run
      BY <1>6, <2>1 DEF Open
    <3>2. ws[w].job \in JobKeys
      BY <1>2, <1>6 DEF Open, SessionOK
    <3> QED BY <1>1, <1>2, <1>4, <3>1, <3>2, MoveLemma DEF InSession, InNode, Session
  <2>2. CASE run.status \notin Ended
    <3>1. ws' = [ws EXCEPT ![w] = [ws[w] EXCEPT !.pc = "entering", !.at = 1]] /\ run' = run
      BY <1>6, <2>2 DEF Open
    <3>2. 1 \in 1..Len(PlanSequence)
      BY SequenceAssumption, NodesLemma DEF Nodes
    <3>3. [ws[w] EXCEPT !.pc = "entering", !.at = 1] \in Session
      <4>1. 1 \in 0..Len(PlanSequence)
        BY <3>2
      <4> QED BY <1>2, <1>3, <4>1 DEF Session
    <3>4. ws[w].job \in JobKeys
      BY <1>2, <1>6 DEF Open, SessionOK
    <3> QED BY <1>1, <1>2, <3>1, <3>2, <3>3, <3>4, MoveLemma DEF InSession, InNode, Session
  <2> QED BY <2>1, <2>2
<1>7. CASE EnterCancelled(w)
  <2>1. ws' = [ws EXCEPT ![w] = [ws[w] EXCEPT !.pc = "closing"]]
    BY <1>7 DEF EnterCancelled
  <2>2. run' \in RunRow
    BY <1>2, <1>7 DEF EnterCancelled, RunRow, RunStatus
  <2>3. ws[w].job \in JobKeys
    BY <1>2, <1>7 DEF EnterCancelled, SessionOK
  <2> QED BY <1>1, <1>2, <1>4, <2>1, <2>2, <2>3, MoveLemma DEF InSession, InNode, Session
<1>8. CASE DraftConflict(w)
  <2>1. ws' = [ws EXCEPT ![w] = [ws[w] EXCEPT !.pc = "raised"]] /\ run' = run
    BY <1>8 DEF DraftConflict
  <2>2. ws[w].job \in JobKeys
    BY <1>2, <1>8 DEF DraftConflict, Running, SessionOK
  <2> QED BY <1>1, <1>2, <1>4, <2>1, <2>2, MoveLemma DEF InSession, InNode, Session
<1>9. CASE FindOpenQuestion(w)
  <2>1. ws' = [ws EXCEPT ![w] = [ws[w] EXCEPT !.pc = "waiting"]] /\ run' = run
    BY <1>9 DEF FindOpenQuestion
  <2>2. ws[w].job \in JobKeys /\ ws[w].at \in 1..Len(PlanSequence) /\ ws[w].copy \in RunRow
    BY <1>2, <1>9 DEF FindOpenQuestion, SessionOK, InSession, InNode
  <2> QED BY <1>1, <1>2, <1>4, <2>1, <2>2, MoveLemma DEF InSession, InNode, Session
<1>10. CASE WaitForUser(w) \/ Complete(w)
  <2>1. ws' = [ws EXCEPT ![w] = [ws[w] EXCEPT !.pc = "closing"]]
    BY <1>10 DEF WaitForUser, Complete
  <2>2. ws[w].job \in JobKeys /\ ws[w].copy \in RunRow
    BY <1>2, <1>10 DEF WaitForUser, Complete, SessionOK, InNode
  <2>3. \A status \in {"waiting_for_user", "completed"} :
           [ws[w].copy EXCEPT !.status = status] \in RunRow
    BY <2>2 DEF RunRow, RunStatus
  <2>4. run' \in RunRow
    BY <1>2, <1>10, <2>3, WriteLemma DEF WaitForUser, Complete
  <2> QED BY <1>1, <1>2, <1>4, <2>1, <2>2, <2>4, MoveLemma DEF InSession, InNode, Session
<1>11. CASE Advance(w)
  <2>1. ws' = [ws EXCEPT ![w] = [ws[w] EXCEPT !.pc = "entering", !.at = ws[w].at + 1]] /\ run' = run
    BY <1>2, <1>11 DEF Advance, Session
  <2>2. ws[w].job \in JobKeys /\ ws[w].at \in 1..Len(PlanSequence)
    BY <1>2, <1>11 DEF Advance, SessionOK, InSession, InNode
  <2>3. ws[w].at + 1 \in 1..Len(PlanSequence)
    BY <1>11, <2>2, LastLemma DEF Advance, Node
  <2>4. [ws[w] EXCEPT !.pc = "entering", !.at = ws[w].at + 1] \in Session
    <3>1. ws[w].at + 1 \in 0..Len(PlanSequence)
      BY <2>3
    <3> QED BY <1>2, <1>3, <3>1 DEF Session
  <2> QED BY <1>1, <1>2, <2>1, <2>2, <2>3, <2>4, MoveLemma DEF InSession, InNode, Session
<1> QED BY <1>1, <1>6, <1>7, <1>8, <1>9, <1>10, <1>11

(* Entering a node: either its step is there, completed with the same input,  *)
(* and the session is past it, or the attempts left running are closed and    *)
(* the next one is numbered.                                                  *)
LEMMA EnterTypes ==
  ASSUME TypeOK, AttemptOfOne, NEW w \in Workers, Enter(w)
  PROVE  /\ TypeOK' /\ AttemptOfOne' /\ Keeps(w)
         /\ ws'[w].at = ws[w].at /\ ws'[w].job = ws[w].job /\ ws'[w].copy = run
         /\ \/ /\ ws'[w].pc = "checkpointed" /\ Memoised(Node(w), Input(Node(w), run.cand))
            \/ /\ ws'[w].pc = "starting" /\ ws'[w].input = Input(Node(w), run.cand)
               /\ ~Memoised(Node(w), Input(Node(w), run.cand))
         /\ \A n \in Nodes : \A i \in 1..Len(steps[n]) :
              steps'[n][i].status = "completed" => steps[n][i].status = "completed"
         /\ \A n \in Nodes : Len(steps'[n]) = Len(steps[n])
<1> DEFINE n == Node(w)
           input == Input(n, run.cand)
<1>1. /\ run \in RunRow /\ run.cand \in Candidates /\ ws[w] \in Session /\ SessionOK(w)
      /\ questions \in QuestionMaps /\ decisions \in DecisionSets /\ StepsOK
  BY DEF TypeOK, RunRow
<1>2. ws[w].at \in 1..Len(PlanSequence) /\ ws[w].job \in JobKeys /\ ws[w].pc = "entering"
  BY <1>1 DEF Enter, SessionOK, InSession
<1>3. n \in Nodes
  BY <1>2, NodeLemma
<1>4. /\ run' = run /\ questions' = questions /\ decisions' = decisions
      /\ draft' = draft /\ jobs' = jobs /\ RequestOK'
  BY DEF Enter, TypeOK, RequestOK
<1>5. /\ run' \in RunRow /\ questions' \in QuestionMaps /\ decisions' \in DecisionSets
      /\ (draft' = None \/ draft' \in Contents) /\ jobs' \in [JobKeys -> JobRow]
  BY <1>4 DEF TypeOK
<1>6. \A m \in Nodes : Len(steps[m]) \in Nat /\ DOMAIN steps[m] = 1..Len(steps[m])
  BY <1>1, RowsLemma DEF StepsOK
<1>7. CASE Memoised(n, input)
  <2> DEFINE s == [ws[w] EXCEPT !.pc = "checkpointed", !.copy = run]
  <2>1. ws' = [ws EXCEPT ![w] = s] /\ steps' = steps
    BY <1>7 DEF Enter
  <2>2. /\ s \in Session /\ s.pc = "checkpointed" /\ s.at = ws[w].at /\ s.job = ws[w].job
        /\ s.copy = run
    BY <1>1 DEF Session, PC
  <2> HIDE DEF s
  <2>3. TypeOK' /\ AttemptOfOne' /\ Keeps(w) /\ ws'[w] = s
    BY <1>1, <1>2, <1>4, <1>5, <2>1, <2>2, MoveLemma DEF InSession, InNode
  <2> QED BY <1>6, <1>7, <2>1, <2>2, <2>3
<1>8. CASE ~Memoised(n, input)
  <2> DEFINE s == [ws[w] EXCEPT !.pc = "starting", !.copy = run, !.input = input,
                                !.try = Len(steps[n]) + 1, !.last = Len(steps[n]) + MaxTries(n)]
             closed == [i \in DOMAIN steps[n] |->
                          IF steps[n][i].status = "running"
                            THEN [steps[n][i] EXCEPT !.status = "failed"] ELSE steps[n][i]]
  <2>1. ws' = [ws EXCEPT ![w] = s] /\ steps' = [steps EXCEPT ![n] = closed]
    BY <1>8 DEF Enter
  <2>2. input \in Inputs(n)
    BY <1>1, <1>3, InputLemma
  <2>3. Len(steps[n]) + 1 \in Nat \ {0} /\ Len(steps[n]) + MaxTries(n) \in Nat
    <3>1. Len(steps[n]) \in Nat
      BY <1>3, <1>6
    <3>2. MaxTries(n) \in Nat
      BY BoundAssumption DEF MaxTries
    <3> HIDE DEF n
    <3> QED BY <3>1, <3>2
  <2>4. input \in AnyInput
    BY <1>3, <2>2 DEF AnyInput
  <2>5. /\ s \in Session /\ s.pc = "starting" /\ s.at = ws[w].at /\ s.job = ws[w].job
        /\ s.copy = run /\ s.input = input /\ s.try = Len(steps[n]) + 1
    <3> HIDE DEF input
    <3> QED BY <1>1, <1>2, <2>3, <2>4 DEF Session, PC
  <2>6. closed \in Seq(StepRow(n)) /\ Len(closed) = Len(steps[n])
    <3>1. steps[n] \in Seq(StepRow(n))
      BY <1>1, <1>3 DEF StepsOK
    <3>2. closed \in Seq(StepRow(n)) /\ DOMAIN closed = 1..Len(steps[n])
      BY <1>3, <1>6, <3>1, RowsLemma
    <3> HIDE DEF closed
    <3>3. DOMAIN closed = 1..Len(closed) /\ Len(closed) \in Nat
      BY <3>2, RowsLemma
    <3> QED BY <1>3, <1>6, <3>2, <3>3
  <2>7. \A i \in 1..Len(steps[n]) :
          /\ steps[n][i] \in StepRow(n)
          /\ closed[i] = IF steps[n][i].status = "running"
                           THEN [steps[n][i] EXCEPT !.status = "failed"] ELSE steps[n][i]
    BY <1>1, <1>3, <1>6, RowsLemma DEF StepsOK
  <2>8. \A i \in 1..Len(steps[n]) :
          /\ closed[i].input = steps[n][i].input
          /\ steps[n][i].status = "completed" => closed[i] = steps[n][i]
          /\ closed[i].status = "completed" => steps[n][i].status = "completed"
    <3> HIDE DEF closed
    <3> QED BY <2>7 DEF StepRow
  <2> HIDE DEF s, closed, input
  <2>9. /\ steps'[n] = closed /\ \A m \in Nodes \ {n} : steps'[m] = steps[m]
        /\ steps' = [m \in Nodes |-> steps'[m]]
    BY <1>1, <1>3, <2>1 DEF StepsOK
  <2>10. StepsOK'
    BY <1>1, <2>6, <2>9 DEF StepsOK
  <2>11. ws'[w] = s /\ \A v \in Workers \ {w} : ws'[v] = ws[v]
    BY <2>1 DEF TypeOK
  <2>12. \A m \in Nodes : Kept(m)
    BY <1>6, <2>6, <2>8, <2>9 DEF Kept
  <2>13. ASSUME NEW v \in Workers \ {w}, ws[v].pc = "running"
         PROVE  steps'[Node(v)][ws[v].try].status # "completed"
    <3>1. SessionOK(v) /\ ws[v].at \in 1..Len(PlanSequence)
      BY <2>13 DEF TypeOK, SessionOK, InSession, InNode
    <3>2. Node(v) \in Nodes /\ ws[v].try \in 1..Len(steps[Node(v)])
      BY <1>6, <2>13, <3>1, NodeLemma DEF SessionOK
    <3> QED BY <2>8, <2>9, <2>13, <3>1, <3>2 DEF SessionOK
  <2>14. Keeps(w)
    BY <2>10, <2>11, <2>12, <2>13 DEF Keeps
  <2>15. Node(w)' = n
    BY <2>5, <2>11 DEF Node
  <2>16. SessionOK(w)'
    BY <1>1, <1>2, <1>3, <1>6, <2>2, <2>3, <2>5, <2>6, <2>9, <2>11, <2>15
       DEF SessionOK, InSession, InNode
  <2>17. TypeOK' /\ AttemptOfOne'
    BY <1>4, <1>5, <2>1, <2>5, <2>14, <2>16, WorkerStepLemma
  <2> QED BY <1>6, <1>8, <2>5, <2>6, <2>8, <2>9, <2>11, <2>14, <2>17 DEF input
<1> QED BY <1>7, <1>8

(* Starting an attempt appends its step and marks the run running, unless a *)
(* step with its number is already there.                                  *)
LEMMA StartTypes ==
  ASSUME TypeOK, AttemptOfOne, NEW w \in Workers, StartAttempt(w)
  PROVE  /\ TypeOK' /\ AttemptOfOne' /\ Keeps(w)
         /\ ws'[w].at = ws[w].at /\ ws'[w].job = ws[w].job
         /\ \/ ws'[w].pc = "raised" /\ run' = run /\ steps' = steps
            \/ /\ ws'[w].pc = "running" /\ ws'[w].input = ws[w].input
               /\ ws'[w].copy = [ws[w].copy EXCEPT !.status = "running"]
               /\ run' = Write(w, [ws[w].copy EXCEPT !.status = "running"])
         /\ \A n \in Nodes : \A i \in 1..Len(steps'[n]) :
              steps'[n][i].status = "completed" => i \in 1..Len(steps[n]) /\ steps'[n][i] = steps[n][i]
<1> DEFINE n == Node(w)
           new == [ws[w].copy EXCEPT !.status = "running"]
           step == [status |-> "running", input |-> ws[w].input]
<1>1. run \in RunRow /\ ws[w] \in Session /\ SessionOK(w) /\ StepsOK /\ ws[w].pc = "starting"
  BY DEF TypeOK, StartAttempt
<1>2. /\ ws[w].at \in 1..Len(PlanSequence) /\ ws[w].job \in JobKeys /\ ws[w].copy \in RunRow
      /\ ws[w].input \in Inputs(n) /\ ws[w].try \in Nat \ {0} /\ ws[w].try <= Len(steps[n]) + 1
  BY <1>1 DEF SessionOK, InSession, InNode
<1>3. n \in Nodes
  BY <1>2, NodeLemma
<1>4. /\ questions' = questions /\ decisions' = decisions
      /\ draft' = draft /\ jobs' = jobs /\ RequestOK'
  BY DEF StartAttempt, TypeOK, RequestOK
<1>5. \A m \in Nodes : Len(steps[m]) \in Nat /\ DOMAIN steps[m] = 1..Len(steps[m])
  BY <1>1, RowsLemma DEF StepsOK
<1>6. CASE Len(steps[n]) >= ws[w].try
  <2> DEFINE s == [ws[w] EXCEPT !.pc = "raised"]
  <2>1. ws' = [ws EXCEPT ![w] = s] /\ steps' = steps /\ run' = run
    BY <1>6 DEF StartAttempt
  <2>2. s \in Session /\ s.pc = "raised" /\ s.at = ws[w].at /\ s.job = ws[w].job
    BY <1>1 DEF Session, PC
  <2> HIDE DEF s
  <2>3. jobs' \in [JobKeys -> JobRow]
    BY <1>4 DEF TypeOK
  <2>4. TypeOK' /\ AttemptOfOne' /\ Keeps(w) /\ ws'[w] = s
    BY <1>1, <1>2, <1>4, <2>1, <2>2, <2>3, MoveLemma DEF InSession, InNode
  <2> QED BY <2>1, <2>2, <2>4
<1>7. CASE ~(Len(steps[n]) >= ws[w].try)
  <2> DEFINE s == [ws[w] EXCEPT !.pc = "running", !.copy = new]
             longer == Append(steps[n], step)
  <2>1. /\ ws' = [ws EXCEPT ![w] = s] /\ steps' = [steps EXCEPT ![n] = longer]
        /\ run' = Write(w, new)
    BY <1>7 DEF StartAttempt
  <2>2. ws[w].try = Len(steps[n]) + 1
    BY <1>2, <1>3, <1>5, <1>7
  <2>3. new \in RunRow
    BY <1>2 DEF RunRow, RunStatus
  <2>4. /\ s \in Session /\ s.pc = "running" /\ s.at = ws[w].at /\ s.job = ws[w].job
        /\ s.copy = new /\ s.input = ws[w].input /\ s.try = ws[w].try
    <3> HIDE DEF new
    <3> QED BY <1>1, <2>3 DEF Session, PC
  <2>5. /\ longer \in Seq(StepRow(n)) /\ Len(longer) = Len(steps[n]) + 1
        /\ \A i \in 1..Len(steps[n]) : longer[i] = steps[n][i]
        /\ longer[Len(steps[n]) + 1] = step
    <3>1. steps[n] \in Seq(StepRow(n))
      BY <1>1, <1>3 DEF StepsOK
    <3>2. longer \in Seq(StepRow(n))
      BY <1>2, <3>1, RowsLemma
    <3> QED BY <3>1, <3>2
  <2>6. run' \in RunRow
    BY <1>1, <2>1, <2>3, WriteLemma
  <2>7. /\ questions' \in QuestionMaps /\ decisions' \in DecisionSets
        /\ (draft' = None \/ draft' \in Contents) /\ jobs' \in [JobKeys -> JobRow]
    BY <1>4 DEF TypeOK
  <2> HIDE DEF s, longer, new
  <2>8. /\ steps'[n] = longer /\ \A m \in Nodes \ {n} : steps'[m] = steps[m]
        /\ steps' = [m \in Nodes |-> steps'[m]]
    BY <1>1, <1>3, <2>1 DEF StepsOK
  <2>9. StepsOK'
    BY <1>1, <2>5, <2>8 DEF StepsOK
  <2>10. ws'[w] = s /\ \A v \in Workers \ {w} : ws'[v] = ws[v]
    BY <2>1 DEF TypeOK
  <2>11. \A m \in Nodes : Kept(m)
    <3>1. Kept(n)
      BY <1>3, <1>5, <2>5, <2>8 DEF Kept
    <3>2. ASSUME NEW m \in Nodes \ {n} PROVE Kept(m)
      BY <1>5, <2>8 DEF Kept
    <3> QED BY <3>1, <3>2
  <2>12. ASSUME NEW v \in Workers \ {w}, ws[v].pc = "running"
         PROVE  /\ steps'[Node(v)][ws[v].try].status # "completed"
                /\ ws[v].at = ws[w].at => ws[v].try # ws[w].try
    <3>1. SessionOK(v) /\ ws[v].at \in 1..Len(PlanSequence)
      BY <2>12 DEF TypeOK, SessionOK, InSession, InNode
    <3>2. Node(v) \in Nodes /\ ws[v].try \in 1..Len(steps[Node(v)])
      BY <1>5, <2>12, <3>1, NodeLemma DEF SessionOK
    <3>3. ws[v].at = ws[w].at => Node(v) = n
      BY DEF Node
    <3> QED BY <1>5, <2>2, <2>5, <2>8, <2>12, <3>1, <3>2, <3>3 DEF SessionOK
  <2>13. Keeps(w)
    BY <2>9, <2>10, <2>11, <2>12 DEF Keeps
  <2>14. Node(w)' = n
    BY <2>4, <2>10 DEF Node
  <2>15. SessionOK(w)'
    BY <1>2, <1>3, <1>5, <2>2, <2>3, <2>4, <2>5, <2>8, <2>10, <2>14
       DEF SessionOK, InSession, InNode
  <2>16. AttemptOfOne'
    BY <2>4, <2>10, <2>12 DEF AttemptOfOne
  <2>17. ws' \in [Workers -> Session]
    BY <2>1, <2>4 DEF TypeOK
  <2>18. TypeOK'
    BY <1>4, <2>6, <2>7, <2>13, <2>15, <2>17, OthersLemma DEF TypeOK, Keeps
  <2>19. \A m \in Nodes : \A i \in 1..Len(steps'[m]) :
           steps'[m][i].status = "completed" => i \in 1..Len(steps[m]) /\ steps'[m][i] = steps[m][i]
    BY <1>3, <1>5, <2>5, <2>8
  <2> QED BY <2>1, <2>4, <2>10, <2>13, <2>16, <2>18, <2>19 DEF new
<1> QED BY <1>6, <1>7

(* The candidates a successful attempt writes. *)
Merged(w, value) ==
  IF OutputKey(Node(w)) = None THEN ws[w].copy
                               ELSE [ws[w].copy EXCEPT !.cand[OutputKey(Node(w))] = value]

(* A success: the attempt's step is completed, its value is merged into the *)
(* copy, and the copy is written.                                           *)
LEMMA CheckpointTypes ==
  ASSUME TypeOK, AttemptOfOne, NEW w \in Workers, ws[w].pc = "running",
         NEW value, Checkpoint(w, value),
         OutputKey(Node(w)) # None => value \in ValueOf(OutputKey(Node(w))),
         questions' \in QuestionMaps, decisions' \in DecisionSets,
         draft' = None \/ draft' \in Contents, jobs' = jobs, RequestOK'
  PROVE  /\ TypeOK' /\ AttemptOfOne' /\ Keeps(w)
         /\ Node(w) \in Nodes
         /\ ws'[w].pc = "checkpointed" /\ ws'[w].at = ws[w].at /\ ws'[w].job = ws[w].job
         /\ ws'[w].copy = Merged(w, value) /\ Merged(w, value) \in RunRow
         /\ run' = Write(w, Merged(w, value))
         /\ \A n \in Nodes \ {Node(w)} : steps'[n] = steps[n]
         /\ ws[w].try \in 1..Len(steps[Node(w)])
         /\ Len(steps'[Node(w)]) = Len(steps[Node(w)])
         /\ steps'[Node(w)][ws[w].try] = [status |-> "completed", input |-> ws[w].input]
         /\ \A i \in 1..Len(steps[Node(w)]) \ {ws[w].try} :
              steps'[Node(w)][i] = steps[Node(w)][i]
<1> DEFINE new == Merged(w, value)
           s == [ws[w] EXCEPT !.pc = "checkpointed", !.copy = new]
<1>1. run \in RunRow /\ ws[w] \in Session /\ SessionOK(w)
  BY DEF TypeOK
<1>2. /\ ws[w].at \in 1..Len(PlanSequence) /\ ws[w].job \in JobKeys /\ ws[w].copy \in RunRow
  BY <1>1 DEF SessionOK, InSession, InNode
<1>3. Node(w) \in Nodes /\ Node(w) \in Names
  BY <1>2, NodeLemma
<1>4. new \in RunRow
  <2>1. CASE OutputKey(Node(w)) = None
    BY <1>2, <2>1 DEF Merged
  <2>2. CASE OutputKey(Node(w)) # None
    <3>1. OutputKey(Node(w)) \in Keys /\ ws[w].copy.cand \in Candidates
      BY <1>2, <1>3, <2>2, KeysLemma DEF RunRow
    <3>2. [ws[w].copy.cand EXCEPT ![OutputKey(Node(w))] = value] \in Candidates
      BY <2>2, <3>1, MergeLemma
    <3> HIDE DEF new
    <3>3. new = [ws[w].copy EXCEPT !.cand = [ws[w].copy.cand EXCEPT ![OutputKey(Node(w))] = value]]
      BY <2>2 DEF new, Merged
    <3> QED BY <1>2, <3>2, <3>3 DEF RunRow
  <2> QED BY <2>1, <2>2
<1>5. EndAttempt(w, "completed", new) /\ ws' = [ws EXCEPT ![w] = s]
  BY DEF Checkpoint, Merged
<1>6. /\ s \in Session /\ s.pc = "checkpointed" /\ s.at = ws[w].at /\ s.job = ws[w].job
      /\ s.copy = new
  <2> HIDE DEF new
  <2> QED BY <1>1, <1>4 DEF Session, PC
<1> HIDE DEF s, new
<1>7. ws'[w] = s /\ \A v \in Workers \ {w} : ws'[v] = ws[v]
  BY <1>5 DEF TypeOK
<1>8. /\ Keeps(w)
      /\ run' = Write(w, new)
      /\ \A n \in Nodes \ {Node(w)} : steps'[n] = steps[n]
      /\ ws[w].try \in 1..Len(steps[Node(w)])
      /\ Len(steps'[Node(w)]) = Len(steps[Node(w)])
      /\ steps'[Node(w)][ws[w].try] = [status |-> "completed", input |-> ws[w].input]
      /\ \A i \in 1..Len(steps[Node(w)]) \ {ws[w].try} :
           steps'[Node(w)][i] = steps[Node(w)][i]
  BY <1>5, <1>7, EndLemma
<1>9. run' \in RunRow
  BY <1>1, <1>4, <1>8, WriteLemma
<1>10. SessionOK(w)'
  BY <1>2, <1>4, <1>6, <1>7 DEF SessionOK, InSession, InNode
<1>11. jobs' \in [JobKeys -> JobRow]
  BY DEF TypeOK
<1>12. TypeOK' /\ AttemptOfOne'
  BY <1>5, <1>6, <1>8, <1>9, <1>10, <1>11, WorkerStepLemma
<1> QED BY <1>3, <1>4, <1>6, <1>7, <1>8, <1>12 DEF new

(* The value of each kind of node. *)
LEMMA SuccessValue ==
  ASSUME TypeOK, NEW w \in Workers,
         ModelNode(w) \/ PlainNode(w) \/ WaitOrAssume(w) \/ QualityGate(w) \/ PersistDraft(w)
  PROVE  \E value :
           /\ Checkpoint(w, value)
           /\ OutputKey(Node(w)) # None => value \in ValueOf(OutputKey(Node(w)))
           /\ questions' \in QuestionMaps /\ decisions' \in DecisionSets
           /\ draft' = None \/ draft' \in Contents
<1>1. /\ SessionOK(w) /\ ws[w].pc = "running" /\ questions \in QuestionMaps
      /\ decisions \in DecisionSets /\ (draft = None \/ draft \in Contents)
  BY DEF TypeOK, ModelNode, PlainNode, WaitOrAssume, QualityGate, PersistDraft, Running
<1>2. ws[w].copy.cand \in Candidates
  BY <1>1 DEF SessionOK, InNode, RunRow
<1>3. CASE ModelNode(w)
  <2>1. PICK output \in Outputs, asked \in SUBSET {q \in Questions : AskedBy[q] = Node(w)} :
          /\ Checkpoint(w, output)
          /\ questions' = [q \in Questions |->
               IF q \in asked /\ questions[q] = None
                 THEN [status |-> "open", answer |-> None] ELSE questions[q]]
    BY <1>3 DEF ModelNode
  <2>2. ValueOf(OutputKey(Node(w))) = Outputs
    BY <1>3 DEF ModelNode, Running, ModelNodes, OutputKey, ValueOf
  <2>3. [status |-> "open", answer |-> None] \in QuestionRow
    BY DEF QuestionRow
  <2>4. questions' \in QuestionMaps
    BY <1>1, <2>1, <2>3 DEF QuestionMaps
  <2>5. decisions' = decisions /\ draft' = draft
    BY <1>3 DEF ModelNode
  <2> QED BY <1>1, <2>1, <2>2, <2>4, <2>5
<1>4. CASE PlainNode(w)
  <2> DEFINE value == Input(Node(w), ws[w].copy.cand).cand
  <2>1. value = [k \in InputKeys(Node(w)) |-> ws[w].copy.cand[k]]
    BY DEF Input
  <2>2. /\ Checkpoint(w, value) /\ questions' = questions /\ decisions' = decisions
        /\ draft' = draft
        /\ Node(w) \in {"validate_request", "validate_graph", "normalize_effort",
                        "score_priority", "schedule", "await_approval"}
    BY <1>4 DEF PlainNode, Running
  <2>3. OutputKey("await_approval") = None
    BY DEF OutputKey
  <2> HIDE DEF value
  <2>4. OutputKey(Node(w)) # None => value \in ValueOf(OutputKey(Node(w)))
    BY <1>2, <2>1, <2>2, <2>3, PlainValueLemma
  <2> QED BY <1>1, <2>2, <2>4
<1>5. CASE WaitOrAssume(w)
  <2>1. /\ Checkpoint(w, decisions') /\ draft' = draft /\ Node(w) = "wait_or_assume"
    BY <1>5 DEF WaitOrAssume, Running
  <2>2. \A q \in Questions : questions[q] # None => questions[q] \in QuestionRow
    BY <1>1 DEF QuestionMaps
  <2>3. \A q \in Questions : questions[q] # None => questions[q].answer \in Answers \cup {None}
    BY <2>2 DEF QuestionRow
  <2>4. \A r \in QuestionRow : \A st \in {"assumed", "dismissed"} :
          [r EXCEPT !.status = st] \in QuestionRow
    BY DEF QuestionRow
  <2>5. decisions' \in DecisionSets
    BY <1>1, <1>5, <2>3 DEF WaitOrAssume, DecisionSets
  <2>6. questions' \in QuestionMaps
    BY <1>1, <1>5, <2>4 DEF WaitOrAssume, QuestionMaps
  <2>7. ValueOf(OutputKey("wait_or_assume")) = DecisionSets
    BY DEF OutputKey, ValueOf
  <2> QED BY <1>1, <2>1, <2>5, <2>6, <2>7
<1>6. CASE QualityGate(w)
  <2>1. /\ Checkpoint(w, Content(ws[w].copy.cand)) /\ questions' = questions
        /\ decisions' = decisions /\ draft' = draft /\ Node(w) = "quality_gate"
    BY <1>6 DEF QualityGate, Running
  <2>2. ValueOf(OutputKey("quality_gate")) = Contents
    BY DEF OutputKey, ValueOf
  <2> QED BY <1>1, <1>2, <2>1, <2>2, ContentLemma
<1>7. CASE PersistDraft(w)
  <2>1. /\ Checkpoint(w, draft') /\ questions' = questions /\ decisions' = decisions
        /\ draft' = (IF draft = None THEN Content(ws[w].copy.cand) ELSE draft)
        /\ Node(w) = "persist_draft"
    BY <1>7 DEF PersistDraft, Running
  <2>2. ValueOf(OutputKey("persist_draft")) = Contents
    BY DEF OutputKey, ValueOf
  <2>3. draft' \in Contents
    BY <1>1, <1>2, <2>1, ContentLemma
  <2> QED BY <1>1, <2>1, <2>2, <2>3
<1> QED BY <1>3, <1>4, <1>5, <1>6, <1>7

(* An attempt that fails: its step is failed, and no step completes. *)
LEMMA FailedTypes ==
  ASSUME TypeOK, AttemptOfOne, NEW w \in Workers, ws[w].pc = "running",
         NEW new \in RunRow, EndAttempt(w, "failed", new),
         NEW s \in Session, ws' = [ws EXCEPT ![w] = s], s.job = ws[w].job,
         \/ s.pc \in {"closing", "raised"}
         \/ /\ s.pc = "starting" /\ s.at = ws[w].at /\ s.copy = ws[w].copy
            /\ s.input = ws[w].input /\ s.try = ws[w].try + 1,
         questions' = questions, decisions' = decisions, draft' = draft, jobs' = jobs, RequestOK'
  PROVE  /\ TypeOK' /\ AttemptOfOne' /\ Keeps(w) /\ ws'[w] = s /\ run' = Write(w, new)
         /\ \A n \in Nodes : \A i \in 1..Len(steps'[n]) :
              steps'[n][i].status = "completed" => i \in 1..Len(steps[n]) /\ steps'[n][i] = steps[n][i]
<1>1. /\ run \in RunRow /\ SessionOK(w)
  BY DEF TypeOK
<1>2. /\ ws[w].at \in 1..Len(PlanSequence) /\ ws[w].job \in JobKeys /\ ws[w].copy \in RunRow
      /\ ws[w].input \in Inputs(Node(w)) /\ ws[w].try \in Nat \ {0}
  BY <1>1 DEF SessionOK, InSession, InNode
<1>3. ws'[w] = s /\ \A v \in Workers \ {w} : ws'[v] = ws[v]
  BY DEF TypeOK
<1>4. /\ Keeps(w)
      /\ run' = Write(w, new)
      /\ Node(w) \in Nodes
      /\ \A n \in Nodes \ {Node(w)} : steps'[n] = steps[n]
      /\ ws[w].try \in 1..Len(steps[Node(w)])
      /\ Len(steps'[Node(w)]) = Len(steps[Node(w)])
      /\ steps'[Node(w)][ws[w].try] = [status |-> "failed", input |-> ws[w].input]
      /\ \A i \in 1..Len(steps[Node(w)]) \ {ws[w].try} :
           steps'[Node(w)][i] = steps[Node(w)][i]
  BY <1>3, EndLemma
<1>5. run' \in RunRow
  BY <1>1, <1>4, WriteLemma
<1>6. Len(steps[Node(w)]) \in Nat
  BY <1>4, RowsLemma DEF TypeOK, StepsOK
<1>7. SessionOK(w)'
  <2>1. CASE s.pc \in {"closing", "raised"}
    BY <1>2, <1>3, <2>1 DEF SessionOK, InSession, InNode
  <2>2. CASE s.pc = "starting" /\ s.at = ws[w].at /\ s.copy = ws[w].copy
               /\ s.input = ws[w].input /\ s.try = ws[w].try + 1
    <3>1. Node(w)' = Node(w)
      BY <1>3, <2>2 DEF Node
    <3>2. s.try \in Nat \ {0} /\ s.try <= Len(steps'[Node(w)]) + 1
      BY <1>2, <1>4, <1>6, <2>2
    <3> QED BY <1>2, <1>3, <2>2, <3>1, <3>2 DEF SessionOK, InSession, InNode
  <2> QED BY <2>1, <2>2
<1>8. /\ questions' \in QuestionMaps /\ decisions' \in DecisionSets
      /\ (draft' = None \/ draft' \in Contents) /\ jobs' \in [JobKeys -> JobRow]
  BY DEF TypeOK
<1>9. TypeOK' /\ AttemptOfOne'
  BY <1>4, <1>5, <1>7, <1>8, WorkerStepLemma
<1> QED BY <1>3, <1>4, <1>9

(* The same for the three ways an attempt fails. *)
LEMMA FailureTypes ==
  ASSUME TypeOK, AttemptOfOne, NEW w \in Workers,
         RetryNode(w) \/ FailNode(w) \/ NodeRaises(w)
  PROVE  /\ TypeOK' /\ AttemptOfOne' /\ Keeps(w)
         /\ ws[w].pc = "running" /\ ws'[w].job = ws[w].job
         /\ questions' = questions /\ decisions' = decisions /\ draft' = draft /\ jobs' = jobs
         /\ \A n \in Nodes : \A i \in 1..Len(steps'[n]) :
              steps'[n][i].status = "completed" => i \in 1..Len(steps[n]) /\ steps'[n][i] = steps[n][i]
         /\ \/ /\ ws'[w].pc = "starting" /\ ws'[w].at = ws[w].at
               /\ ws'[w].copy = ws[w].copy /\ ws'[w].input = ws[w].input
               /\ run' = Write(w, ws[w].copy)
            \/ /\ ws'[w].pc = "closing"
               /\ \E new \in RunRow :
                    /\ run' = Write(w, new) /\ new.status \in {"failed", "partial"}
                    /\ \A k \in Keys \ {"quality_report"} : new.cand[k] = ws[w].copy.cand[k]
                    /\ \/ new.cand["quality_report"] = ws[w].copy.cand["quality_report"]
                       \/ new.cand["quality_report"] \in Contents
            \/ /\ ws'[w].pc = "raised"
               /\ run' = Write(w, [ws[w].copy EXCEPT !.status = "failed"])
<1>1. /\ run \in RunRow /\ ws[w] \in Session /\ SessionOK(w) /\ ws[w].pc = "running"
  BY DEF TypeOK, RetryNode, FailNode, NodeRaises, Running
<1>2. ws[w].copy \in RunRow /\ ws[w].try \in Nat
  BY <1>1 DEF SessionOK, InNode
<1>3. /\ questions' = questions /\ decisions' = decisions
      /\ draft' = draft /\ jobs' = jobs /\ RequestOK'
  BY DEF RetryNode, FailNode, NodeRaises, TypeOK, RequestOK
<1>4. {"closing", "raised", "starting"} \subseteq PC
  BY DEF PC
<1>5. CASE RetryNode(w)
  <2> DEFINE s == [ws[w] EXCEPT !.pc = "starting", !.try = ws[w].try + 1]
  <2>1. ws' = [ws EXCEPT ![w] = s] /\ EndAttempt(w, "failed", ws[w].copy)
    BY <1>5 DEF RetryNode
  <2>2. /\ s \in Session /\ s.pc = "starting" /\ s.at = ws[w].at /\ s.copy = ws[w].copy
        /\ s.input = ws[w].input /\ s.try = ws[w].try + 1 /\ s.job = ws[w].job
    <3>1. ws[w].try + 1 \in Nat
      BY <1>2
    <3> QED BY <1>1, <1>4, <3>1 DEF Session
  <2> HIDE DEF s
  <2> QED BY <1>1, <1>2, <1>3, <2>1, <2>2, FailedTypes
<1>6. CASE FailNode(w)
  <2>1. PICK status \in {"failed", "partial"} :
          EndAttempt(w, "failed",
            [ws[w].copy EXCEPT
               !.status = status,
               !.cand["quality_report"] =
                  IF Node(w) = "quality_gate" THEN Content(ws[w].copy.cand) ELSE @])
    BY <1>6 DEF FailNode
  <2> DEFINE c == ws[w].copy.cand
             v == IF Node(w) = "quality_gate" THEN Content(c) ELSE c["quality_report"]
             new == [ws[w].copy EXCEPT !.status = status,
                                       !.cand = [c EXCEPT !["quality_report"] = v]]
             s == [ws[w] EXCEPT !.pc = "closing"]
  <2>2. c \in Candidates /\ "quality_report" \in Keys
    BY <1>2 DEF RunRow, Keys
  <2>3. v = c["quality_report"] \/ v \in Contents
    BY <2>2, ContentLemma
  <2>4. v \in ValueOf("quality_report") \cup {None}
    <3>1. ValueOf("quality_report") = Contents
      BY DEF ValueOf
    <3>2. c["quality_report"] = None \/ c["quality_report"] \in ValueOf("quality_report")
      BY <2>2 DEF Candidates
    <3> HIDE DEF v
    <3> QED BY <2>3, <3>1, <3>2
  <2>5. EndAttempt(w, "failed", new)
    BY <1>2, <2>1 DEF RunRow
  <2>6. ws' = [ws EXCEPT ![w] = s]
    BY <1>6 DEF FailNode
  <2>7. s \in Session /\ s.pc = "closing" /\ s.job = ws[w].job
    BY <1>1, <1>4 DEF Session
  <2>8. [c EXCEPT !["quality_report"] = v] \in Candidates
    <3> HIDE DEF v, c
    <3> QED BY <2>2, <2>4, MergeLemma
  <2>9. new \in RunRow /\ new.status = status /\ new.cand = [c EXCEPT !["quality_report"] = v]
    <3> HIDE DEF v, c
    <3> QED BY <1>2, <2>8 DEF RunRow, RunStatus
  <2>10. /\ \A k \in Keys \ {"quality_report"} : new.cand[k] = c[k]
         /\ new.cand["quality_report"] = v
    <3> HIDE DEF v, c, new
    <3> QED BY <2>2, <2>9 DEF Candidates
  <2> HIDE DEF s, new, v
  <2>11. /\ TypeOK' /\ AttemptOfOne' /\ Keeps(w) /\ ws'[w] = s /\ run' = Write(w, new)
         /\ \A n \in Nodes : \A i \in 1..Len(steps'[n]) :
              steps'[n][i].status = "completed" => i \in 1..Len(steps[n]) /\ steps'[n][i] = steps[n][i]
    BY <1>1, <1>3, <2>5, <2>6, <2>7, <2>9, FailedTypes
  <2> QED BY <1>1, <1>3, <2>1, <2>3, <2>7, <2>9, <2>10, <2>11
<1>7. CASE NodeRaises(w)
  <2> DEFINE s == [ws[w] EXCEPT !.pc = "raised"]
             new == [ws[w].copy EXCEPT !.status = "failed"]
  <2>1. ws' = [ws EXCEPT ![w] = s] /\ EndAttempt(w, "failed", new)
    BY <1>7 DEF NodeRaises
  <2>2. s \in Session /\ s.pc = "raised" /\ s.job = ws[w].job
    BY <1>1, <1>4 DEF Session
  <2>3. new \in RunRow
    BY <1>2 DEF RunRow, RunStatus
  <2> HIDE DEF s, new
  <2>4. /\ TypeOK' /\ AttemptOfOne' /\ Keeps(w) /\ ws'[w] = s /\ run' = Write(w, new)
        /\ \A n \in Nodes : \A i \in 1..Len(steps'[n]) :
             steps'[n][i].status = "completed" => i \in 1..Len(steps[n]) /\ steps'[n][i] = steps[n][i]
    BY <1>1, <1>3, <2>1, <2>2, <2>3, FailedTypes
  <2> QED BY <1>1, <1>3, <2>2, <2>4 DEF new
<1> QED BY <1>5, <1>6, <1>7

(* The owner's requests leave the sessions and the checkpoints alone. *)
LEMMA RequestTypes ==
  ASSUME TypeOK, AttemptOfOne,
         \/ AnswerBegin \/ AnswerCommit \/ AnswerRefused \/ CancelBegin \/ CancelCommit
  PROVE  /\ TypeOK' /\ AttemptOfOne'
         /\ steps' = steps /\ ws' = ws /\ draft' = draft /\ decisions' = decisions
         /\ run'.cand = run.cand
         /\ run'.status \in {run.status, "queued", "cancelled"}
         /\ run.cancel => run'.cancel
<1>1. /\ run \in RunRow /\ questions \in QuestionMaps /\ jobs \in [JobKeys -> JobRow] /\ RequestOK
      /\ decisions \in DecisionSets /\ (draft = None \/ draft \in Contents)
  BY DEF TypeOK
<1>2. steps' = steps /\ ws' = ws /\ draft' = draft /\ decisions' = decisions
  BY DEF AnswerBegin, AnswerCommit, AnswerRefused, CancelBegin, CancelCommit
<1>3. /\ [run EXCEPT !.status = "queued"] \in RunRow /\ [run EXCEPT !.cancel = TRUE] \in RunRow
      /\ [run EXCEPT !.cancel = TRUE, !.status = "cancelled"] \in RunRow
  BY <1>1 DEF RunRow, RunStatus
<1>4. /\ run' \in RunRow /\ questions' \in QuestionMaps /\ jobs' \in [JobKeys -> JobRow]
      /\ RequestOK'
      /\ run' \in {run, [run EXCEPT !.status = "queued"], [run EXCEPT !.cancel = TRUE],
                   [run EXCEPT !.cancel = TRUE, !.status = "cancelled"]}
  <2>1. CASE AnswerBegin
    <3>1. [status |-> run.status, questions |-> questions]
             \in [status : {"waiting_for_user", "queued"}, questions : QuestionMaps]
      BY <1>1, <2>1 DEF AnswerBegin
    <3>2. spentBounds' \in [crashes : 0..MaxCrashes, answers : 0..MaxAnswers, cancels : 0..MaxCancels]
      BY <1>1, <2>1, BoundAssumption DEF AnswerBegin, RequestOK
    <3> QED BY <1>1, <2>1, <3>1, <3>2 DEF AnswerBegin, RequestOK
  <2>2. CASE AnswerCommit
    <3>1. PICK given \in [Questions -> Answers \cup {None}] : AnswerCommit!3!(given)
      BY <2>2 DEF AnswerCommit
    <3> DEFINE read == answering.questions
               answered == {q \in Questions : given[q] # None}
               key == [q \in Questions |->
                         IF q \in answered THEN given[q]
                         ELSE IF read[q] # None /\ read[q].status = "answered" THEN read[q].answer
                         ELSE None]
    <3>2. \A q \in answered : [status |-> "answered", answer |-> given[q]] \in QuestionRow
      BY DEF QuestionRow
    <3>3. questions' \in QuestionMaps
      BY <1>1, <3>1, <3>2 DEF QuestionMaps
    <3>4. read \in QuestionMaps
      BY <1>1, <2>2 DEF AnswerCommit, RequestOK
    <3>5. key \in JobKeys
      <4>1. \A q \in Questions : read[q] # None => read[q].answer \in Answers \cup {None}
        BY <3>4 DEF QuestionMaps, QuestionRow
      <4> QED BY <4>1 DEF JobKeys
    <3>6. [jobs EXCEPT ![key].status = IF @ = "absent" THEN "queued" ELSE @] \in [JobKeys -> JobRow]
      <4>1. jobs[key] \in JobRow
        BY <1>1, <3>5
      <4> HIDE DEF key
      <4>2. [jobs[key] EXCEPT !.status = IF jobs[key].status = "absent" THEN "queued" ELSE jobs[key].status]
              \in JobRow
        BY <4>1 DEF JobRow, JobStatus
      <4> QED BY <1>1, <3>5, <4>2
    <3>7. jobs' \in [JobKeys -> JobRow] /\ run' \in {run, [run EXCEPT !.status = "queued"]}
      <4> HIDE DEF key
      <4>1. \/ run' = run /\ jobs' = jobs
            \/ /\ run' \in {run, [run EXCEPT !.status = "queued"]}
               /\ jobs' = [jobs EXCEPT ![key].status = IF @ = "absent" THEN "queued" ELSE @]
        BY <3>1 DEF key
      <4> QED BY <1>1, <3>6, <4>1
    <3>8. RequestOK'
      BY <1>1, <2>2 DEF AnswerCommit, RequestOK
    <3> QED BY <1>1, <1>3, <3>3, <3>7, <3>8
  <2>3. CASE AnswerRefused
    BY <1>1, <2>3 DEF AnswerRefused, RequestOK
  <2>4. CASE CancelBegin
    <3>1. spentBounds' \in [crashes : 0..MaxCrashes, answers : 0..MaxAnswers, cancels : 0..MaxCancels]
      BY <1>1, <2>4, BoundAssumption DEF CancelBegin, RequestOK
    <3>2. run.status \in RunStatus
      BY <1>1 DEF RunRow
    <3> QED BY <1>1, <2>4, <3>1, <3>2 DEF CancelBegin, RequestOK
  <2>5. CASE CancelCommit
    <3>1. jobs' \in [JobKeys -> JobRow]
      <4>1. \A k \in JobKeys : [jobs[k] EXCEPT !.status = "cancelled", !.owner = None] \in JobRow
        BY <1>1 DEF JobRow, JobStatus
      <4> QED BY <1>1, <2>5, <4>1 DEF CancelCommit
    <3> QED BY <1>1, <1>3, <2>5, <3>1 DEF CancelCommit, RequestOK
  <2> QED BY <2>1, <2>2, <2>3, <2>4, <2>5
<1>5. /\ run'.cand = run.cand
      /\ run'.status \in {run.status, "queued", "cancelled"}
      /\ run.cancel => run'.cancel
  BY <1>1, <1>4 DEF RunRow
<1>6. \A w \in Workers : SessionOK(w)'
  BY <1>2 DEF TypeOK, SessionOK, Node
<1>7. AttemptOfOne'
  BY <1>2 DEF AttemptOfOne
<1>8. StepsOK' /\ ws' \in [Workers -> Session]
  BY <1>2 DEF TypeOK, StepsOK
<1>9. decisions' \in DecisionSets /\ (draft' = None \/ draft' \in Contents)
  BY <1>1, <1>2
<1> QED BY <1>2, <1>4, <1>5, <1>6, <1>7, <1>8, <1>9 DEF TypeOK

-----------------------------------------------------------------------------
(* The type invariant is an invariant *)

TypeInv == TypeOK /\ AttemptOfOne

Success(w) == ModelNode(w) \/ PlainNode(w) \/ WaitOrAssume(w) \/ QualityGate(w) \/ PersistDraft(w)
Moves(w) == \/ Open(w) \/ EnterCancelled(w) \/ DraftConflict(w) \/ FindOpenQuestion(w)
            \/ WaitForUser(w) \/ Complete(w) \/ Advance(w)
Fails(w) == RetryNode(w) \/ FailNode(w) \/ NodeRaises(w)
Request == AnswerBegin \/ AnswerCommit \/ AnswerRefused \/ CancelBegin \/ CancelCommit

(* The steps, by what they do to the checkpoints. *)
LEMMA StepsLemma ==
  ASSUME Next
  PROVE  \/ \E w \in Workers : \/ ClaimNext(w) \/ FinishJob(w) \/ Crash(w) \/ Moves(w)
                               \/ Enter(w) \/ StartAttempt(w) \/ Success(w) \/ Fails(w)
         \/ Request
BY DEF Next, SessionStep, Moves, Success, Fails, Request

(* A success completes the session's step, and no other. *)
LEMMA SuccessTypes ==
  ASSUME TypeInv, NEW w \in Workers, Success(w)
  PROVE  /\ TypeInv' /\ Keeps(w) /\ Node(w) \in Nodes /\ jobs' = jobs
         /\ ws[w].pc = "running" /\ ws'[w].pc = "checkpointed"
         /\ ws'[w].at = ws[w].at /\ ws'[w].job = ws[w].job
         /\ \E value :
              /\ OutputKey(Node(w)) # None => value \in ValueOf(OutputKey(Node(w)))
              /\ Checkpoint(w, value)
              /\ ws'[w].copy = Merged(w, value) /\ Merged(w, value) \in RunRow
              /\ run' = Write(w, Merged(w, value))
         /\ \A n \in Nodes \ {Node(w)} : steps'[n] = steps[n]
         /\ ws[w].try \in 1..Len(steps'[Node(w)])
         /\ steps'[Node(w)][ws[w].try] = [status |-> "completed", input |-> ws[w].input]
<1>1. PICK value :
        /\ Checkpoint(w, value)
        /\ OutputKey(Node(w)) # None => value \in ValueOf(OutputKey(Node(w)))
        /\ questions' \in QuestionMaps /\ decisions' \in DecisionSets
        /\ draft' = None \/ draft' \in Contents
  BY SuccessValue DEF TypeInv, Success
<1>2. jobs' = jobs /\ RequestOK' /\ ws[w].pc = "running"
  BY DEF Success, ModelNode, PlainNode, WaitOrAssume, QualityGate, PersistDraft, Running,
         TypeInv, TypeOK, RequestOK
<1>3. /\ TypeOK' /\ AttemptOfOne' /\ Keeps(w)
      /\ Node(w) \in Nodes
      /\ ws'[w].pc = "checkpointed" /\ ws'[w].at = ws[w].at /\ ws'[w].job = ws[w].job
      /\ ws'[w].copy = Merged(w, value) /\ Merged(w, value) \in RunRow
      /\ run' = Write(w, Merged(w, value))
      /\ \A n \in Nodes \ {Node(w)} : steps'[n] = steps[n]
      /\ ws[w].try \in 1..Len(steps[Node(w)])
      /\ Len(steps'[Node(w)]) = Len(steps[Node(w)])
      /\ steps'[Node(w)][ws[w].try] = [status |-> "completed", input |-> ws[w].input]
  BY <1>1, <1>2, CheckpointTypes DEF TypeInv
<1> QED BY <1>1, <1>2, <1>3 DEF TypeInv

(* Nothing has been claimed, run or asked at first. *)
LEMMA TypeInit == Init => TypeInv
<1> SUFFICES ASSUME Init PROVE TypeInv
  OBVIOUS
<1>1. NoCandidates \in Candidates
  BY DEF NoCandidates, Candidates, AnyValue, Plain
<1>2. run \in RunRow
  BY <1>1 DEF Init, RunRow, RunStatus
<1>3. StepsOK
  BY DEF Init, StepsOK
<1>4. jobs \in [JobKeys -> JobRow]
  BY BoundAssumption DEF Init, JobRow, JobStatus
<1>5. ws \in [Workers -> Session]
  BY IdleLemma DEF Init
<1>6. RequestOK
  BY BoundAssumption DEF Init, RequestOK
<1>7. \A w \in Workers : ws[w].pc = "idle"
  BY DEF Init, Idle
<1>8. (\A w \in Workers : SessionOK(w)) /\ AttemptOfOne
  BY <1>7 DEF SessionOK, InSession, InNode, AttemptOfOne
<1>9. questions \in QuestionMaps /\ decisions \in DecisionSets /\ draft = None
  BY DEF Init, QuestionMaps, DecisionSets
<1> QED BY <1>2, <1>3, <1>4, <1>5, <1>6, <1>8, <1>9 DEF TypeInv, TypeOK

(* Every step keeps the state well formed and the checkpoints it finds. *)
LEMMA TypeStep ==
  ASSUME TypeInv, [Next]_vars
  PROVE  TypeInv' /\ \A n \in Nodes : Kept(n)
<1>1. CASE UNCHANGED vars
  <2>1. \A n \in Nodes : Len(steps[n]) \in Nat
    BY RowsLemma DEF TypeInv, TypeOK, StepsOK
  <2>2. \A n \in Nodes : Kept(n)
    BY <1>1, <2>1 DEF Kept, vars
  <2>3. AttemptOfOne' /\ StepsOK' /\ RequestOK' /\ \A w \in Workers : SessionOK(w)'
    BY <1>1 DEF TypeInv, TypeOK, AttemptOfOne, StepsOK, RequestOK, SessionOK, Node, vars
  <2> QED BY <1>1, <2>2, <2>3 DEF TypeInv, TypeOK, vars
<1>2. CASE Next
  <2>1. ASSUME NEW w \in Workers, ClaimNext(w)
        PROVE  TypeInv' /\ Keeps(w)
    BY <2>1, ClaimTypes DEF TypeInv
  <2>2. ASSUME NEW w \in Workers, FinishJob(w)
        PROVE  TypeInv' /\ Keeps(w)
    BY <2>2, FinishTypes DEF TypeInv
  <2>3. ASSUME NEW w \in Workers, Crash(w)
        PROVE  TypeInv' /\ Keeps(w)
    BY <2>3, CrashTypes DEF TypeInv
  <2>4. ASSUME NEW w \in Workers, Moves(w)
        PROVE  TypeInv' /\ Keeps(w)
    BY <2>4, MoveTypes DEF TypeInv, Moves
  <2>5. ASSUME NEW w \in Workers, Enter(w)
        PROVE  TypeInv' /\ Keeps(w)
    BY <2>5, EnterTypes DEF TypeInv
  <2>6. ASSUME NEW w \in Workers, StartAttempt(w)
        PROVE  TypeInv' /\ Keeps(w)
    BY <2>6, StartTypes DEF TypeInv
  <2>7. ASSUME NEW w \in Workers, Success(w)
        PROVE  TypeInv' /\ Keeps(w)
    BY <2>7, SuccessTypes
  <2>8. ASSUME NEW w \in Workers, Fails(w)
        PROVE  TypeInv' /\ Keeps(w)
    BY <2>8, FailureTypes DEF TypeInv, Fails
  <2>9. CASE Request
    <3>1. TypeInv' /\ steps' = steps
      BY <2>9, RequestTypes DEF TypeInv, Request
    <3>2. \A n \in Nodes : Len(steps[n]) \in Nat
      BY RowsLemma DEF TypeInv, TypeOK, StepsOK
    <3> QED BY <3>1, <3>2 DEF Kept
  <2> QED BY <1>2, <2>1, <2>2, <2>3, <2>4, <2>5, <2>6, <2>7, <2>8, <2>9, StepsLemma DEF Keeps
<1> QED BY <1>1, <1>2

(* The run, its checkpoints, questions, draft and jobs are well formed, every   *)
(* session holds what its place in the workflow needs, a running attempt owns a *)
(* step that is not completed, and no two workers run the same attempt: for any *)
(* number of workers, crashes, answers and cancels.                             *)
THEOREM TypeCorrect == Spec => []TypeInv
<1>1. TypeInv /\ [Next]_vars => TypeInv'
  BY TypeStep
<1> QED BY TypeInit, <1>1, PTL DEF Spec

(* A step that has completed stays as it is: no retry, takeover, crash or stale *)
(* write undoes a checkpoint.                                                   *)
CheckpointsKept ==
  [][\A n \in Nodes : \A i \in 1..Len(steps[n]) :
       steps[n][i].status = "completed" => steps'[n][i] = steps[n][i]]_vars

(* Checkpoints outlive every crash, retry and takeover, for any number of *)
(* workers.                                                               *)
THEOREM CheckpointsStay == Spec => CheckpointsKept
<1>1. TypeInv /\ [Next]_vars =>
        [\A n \in Nodes : \A i \in 1..Len(steps[n]) :
           steps[n][i].status = "completed" => steps'[n][i] = steps[n][i]]_vars
  BY TypeStep DEF Kept
<1> QED BY TypeCorrect, <1>1, PTL DEF Spec, CheckpointsKept

-----------------------------------------------------------------------------
(* Progress: the nodes a session has passed are done *)

(* The nodes behind a session. *)
Passed(w) ==
  {PlanSequence[i] : i \in 1..(ws[w].at - 1)}
    \cup (IF ws[w].pc \in {"checkpointed", "waiting"} THEN {Node(w)} ELSE {})

Progress == \A w \in Workers : ws[w].pc \in InSession => \A n \in Passed(w) : Done(n)

(* A completed persist_draft step has stored the draft. *)
DraftStored == Done("persist_draft") => draft # None

WholeInv == TypeInv /\ Progress /\ DraftStored /\ DraftIsSound /\ CompletedIsWhole

(* The nodes the run must have, in their order. *)
LEMMA RequiredNodes ==
  /\ "quality_gate" \in Nodes /\ "persist_draft" \in Nodes /\ "await_approval" \in Nodes
  /\ Position("quality_gate") = 15 /\ Position("persist_draft") = 16
  /\ Position("await_approval") = 17
<1>1. PLANNING_SEQUENCE[15] = "quality_gate" /\ PLANNING_SEQUENCE[16] = "persist_draft"
        /\ PLANNING_SEQUENCE[17] = "await_approval"
  BY DEF PLANNING_SEQUENCE
<1>2. 15 \in 1..17 /\ 16 \in 1..17 /\ 17 \in 1..17
  OBVIOUS
<1> QED BY <1>1, <1>2, PositionLemma, SequenceAssumption

(* A session has passed the nodes that come before its own. *)
LEMMA BeforeLemma ==
  ASSUME NEW w \in Workers, ws[w].at \in 1..Len(PlanSequence), NEW n \in Nodes,
         Position(n) < Position(Node(w))
  PROVE  n \in Passed(w)
<1>1. PICK k \in 1..Len(PlanSequence) : n = PlanSequence[k]
  BY DEF Nodes
<1>2. k \in 1..(ws[w].at - 1)
  BY <1>1, OrderLemma DEF Node
<1> QED BY <1>1, <1>2 DEF Passed

(* When the node that ends the run is checkpointed, every node is passed. *)
LEMMA AllPassed ==
  ASSUME NEW w \in Workers, ws[w].at \in 1..Len(PlanSequence), Node(w) = "await_approval",
         ws[w].pc = "checkpointed", NEW n \in Nodes
  PROVE  n \in Passed(w)
<1>1. CASE n = "await_approval"
  BY <1>1 DEF Passed
<1>2. CASE n # "await_approval"
  <2>1. PICK p \in 1..17 : n = PLANNING_SEQUENCE[p] /\ Position(n) = p
    BY NodesLemma, NameLemma
  <2>2. p # 17
    BY <1>2, <2>1 DEF PLANNING_SEQUENCE
  <2>3. Position(n) < Position(Node(w))
    BY <2>1, <2>2, RequiredNodes
  <2> QED BY <2>3, BeforeLemma
<1> QED BY <1>1, <1>2

(* What is done stays done. *)
LEMMA DoneLemma ==
  ASSUME TypeInv, NEW n \in Nodes, Kept(n), Done(n), StepsOK'
  PROVE  Done(n)'
<1>1. Len(steps[n]) \in Nat /\ DOMAIN steps[n] = 1..Len(steps[n])
  BY RowsLemma DEF TypeInv, TypeOK, StepsOK
<1>2. Len(steps'[n]) \in Nat /\ DOMAIN steps'[n] = 1..Len(steps'[n])
  BY RowsLemma DEF StepsOK
<1>3. PICK i \in 1..Len(steps[n]) : steps[n][i].status = "completed"
  BY <1>1 DEF Done
<1>4. i \in 1..Len(steps'[n]) /\ steps'[n][i].status = "completed"
  BY <1>1, <1>2, <1>3 DEF Kept
<1> QED BY <1>2, <1>4 DEF Done

(* Only a success completes a step. *)
LEMMA NewlyDone ==
  ASSUME TypeInv, [Next]_vars, NEW n \in Nodes, Done(n)'
  PROVE  Done(n) \/ \E w \in Workers : Success(w) /\ Node(w) = n
<1>1. TypeInv'
  BY TypeStep
<1>2. Len(steps[n]) \in Nat /\ DOMAIN steps[n] = 1..Len(steps[n])
  BY RowsLemma DEF TypeInv, TypeOK, StepsOK
<1>3. Len(steps'[n]) \in Nat /\ DOMAIN steps'[n] = 1..Len(steps'[n])
  BY <1>1, RowsLemma DEF TypeInv, TypeOK, StepsOK
<1>4. PICK i \in 1..Len(steps'[n]) : steps'[n][i].status = "completed"
  BY <1>3 DEF Done
<1>5. ASSUME steps' = steps PROVE Done(n)
  BY <1>5, <1>3, <1>4 DEF Done
<1>6. CASE UNCHANGED vars
  BY <1>5, <1>6 DEF vars
<1>7. CASE Next
  <2>1. ASSUME NEW w \in Workers, ClaimNext(w) \/ FinishJob(w) \/ Crash(w) \/ Moves(w)
        PROVE  Done(n)
    BY <1>5, <2>1 DEF ClaimNext, FinishJob, Crash, Moves, Open, EnterCancelled, DraftConflict,
                      FindOpenQuestion, WaitForUser, Complete, Advance
  <2>2. ASSUME NEW w \in Workers, Enter(w)
        PROVE  Done(n)
    <3>1. Len(steps'[n]) = Len(steps[n]) /\ \A j \in 1..Len(steps[n]) :
            steps'[n][j].status = "completed" => steps[n][j].status = "completed"
      BY <2>2, EnterTypes DEF TypeInv
    <3> QED BY <1>2, <1>4, <3>1 DEF Done
  <2>3. ASSUME NEW w \in Workers, StartAttempt(w) \/ Fails(w)
        PROVE  Done(n)
    <3>1. \A j \in 1..Len(steps'[n]) :
            steps'[n][j].status = "completed" => j \in 1..Len(steps[n]) /\ steps'[n][j] = steps[n][j]
      BY <2>3, StartTypes, FailureTypes DEF TypeInv, Fails
    <3> QED BY <1>2, <1>4, <3>1 DEF Done
  <2>4. ASSUME NEW w \in Workers, Success(w)
        PROVE  Done(n) \/ Node(w) = n
    <3>1. ASSUME Node(w) # n PROVE Done(n)
      <4>1. steps'[n] = steps[n]
        BY <2>4, <3>1, SuccessTypes
      <4> QED BY <1>2, <1>4, <4>1 DEF Done
    <3> QED BY <3>1
  <2>5. CASE Request
    BY <1>5, <2>5, RequestTypes DEF TypeInv, Request
  <2> QED BY <1>7, <2>1, <2>2, <2>3, <2>4, <2>5, StepsLemma
<1> QED BY <1>6, <1>7

(* Only persist_draft writes the draft, once, with content the gate accepts. *)
LEMMA DraftStep ==
  ASSUME TypeInv, [Next]_vars
  PROVE  \/ draft' = draft /\ \A w \in Workers : PersistDraft(w) => draft # None
         \/ /\ draft = None /\ draft' # None
            /\ \E w \in Workers :
                 /\ PersistDraft(w) /\ Node(w) = "persist_draft" /\ ws[w].pc = "running"
                 /\ draft' = Content(ws[w].copy.cand) /\ Passes(draft')
<1>1. ASSUME NEW w \in Workers, PersistDraft(w)
      PROVE  \/ draft' = draft /\ draft # None
             \/ /\ draft = None /\ draft' # None
                /\ Node(w) = "persist_draft" /\ ws[w].pc = "running"
                /\ draft' = Content(ws[w].copy.cand) /\ Passes(draft')
  <2>1. ws[w].copy.cand \in Candidates
    BY <1>1 DEF TypeInv, TypeOK, SessionOK, PersistDraft, Running, InNode, RunRow
  <2> QED BY <1>1, <2>1, ContentLemma DEF PersistDraft, Running
<1>2. ASSUME ~ \E w \in Workers : PersistDraft(w) PROVE draft' = draft
  <2>1. CASE UNCHANGED vars
    BY <2>1 DEF vars
  <2>2. CASE Next
    <3>1. ASSUME NEW w \in Workers,
                 ClaimNext(w) \/ FinishJob(w) \/ Crash(w) \/ Moves(w) \/ Enter(w)
                   \/ StartAttempt(w) \/ Fails(w)
          PROVE  draft' = draft
      BY <3>1 DEF ClaimNext, FinishJob, Crash, Moves, Open, EnterCancelled, DraftConflict,
                  FindOpenQuestion, WaitForUser, Complete, Advance, Enter, StartAttempt,
                  Fails, RetryNode, FailNode, NodeRaises
    <3>2. ASSUME NEW w \in Workers, Success(w)
          PROVE  draft' = draft
      BY <1>2, <3>2 DEF Success, ModelNode, PlainNode, WaitOrAssume, QualityGate
    <3>3. CASE Request
      BY <3>3, RequestTypes DEF TypeInv, Request
    <3> QED BY <2>2, <3>1, <3>2, <3>3, StepsLemma
  <2> QED BY <2>1, <2>2
<1> QED BY <1>1, <1>2

(* Only Complete makes a run completed. *)
LEMMA CompletedStep ==
  ASSUME TypeInv, [Next]_vars, run'.status = "completed"
  PROVE  run.status = "completed" \/ \E w \in Workers : Complete(w)
<1>0. run \in RunRow
  BY DEF TypeInv, TypeOK
<1>1. CASE UNCHANGED vars
  BY <1>1 DEF vars
<1>2. CASE Next
  <2>1. FailActiveRun(run).status \in {run.status, "failed"}
    BY <1>0 DEF FailActiveRun, RunRow
  <2>2. ASSUME NEW w \in Workers, ClaimNext(w) \/ FinishJob(w)
        PROVE  run.status = "completed"
    <3>1. run' = run \/ run' = FailActiveRun(run)
      BY <2>2 DEF ClaimNext, FinishJob
    <3> QED BY <2>1, <3>1
  <2>3. ASSUME NEW w \in Workers, Crash(w) \/ Enter(w)
        PROVE  run.status = "completed"
    BY <2>3 DEF Crash, Enter
  <2>4. ASSUME NEW w \in Workers, Moves(w)
        PROVE  run.status = "completed" \/ Complete(w)
    <3>1. CASE Open(w) \/ DraftConflict(w) \/ FindOpenQuestion(w) \/ Advance(w)
      BY <3>1 DEF Open, DraftConflict, FindOpenQuestion, Advance
    <3>2. CASE EnterCancelled(w)
      BY <1>0, <3>2 DEF EnterCancelled, RunRow
    <3>3. CASE WaitForUser(w)
      <4>1. ws[w].copy \in RunRow
        BY <3>3 DEF TypeInv, TypeOK, SessionOK, WaitForUser, InNode
      <4>2. [ws[w].copy EXCEPT !.status = "waiting_for_user"] \in RunRow
        BY <4>1 DEF RunRow, RunStatus
      <4>3. [ws[w].copy EXCEPT !.status = "waiting_for_user"].status = "waiting_for_user"
        BY <4>1 DEF RunRow
      <4> QED BY <1>0, <3>3, <4>2, <4>3, WriteLemma DEF WaitForUser
    <3> QED BY <2>4, <3>1, <3>2, <3>3 DEF Moves
  <2>5. ASSUME NEW w \in Workers, StartAttempt(w)
        PROVE  run.status = "completed"
    <3>1. ws[w].copy \in RunRow
      BY <2>5 DEF TypeInv, TypeOK, SessionOK, StartAttempt, InNode
    <3> DEFINE new == [ws[w].copy EXCEPT !.status = "running"]
    <3>2. new \in RunRow /\ new.status = "running"
      BY <3>1 DEF RunRow, RunStatus
    <3>3. run' = run \/ run' = Write(w, new)
      BY <2>5, StartTypes DEF TypeInv
    <3> HIDE DEF new
    <3> QED BY <1>0, <3>2, <3>3, WriteLemma
  <2>6. ASSUME NEW w \in Workers, Success(w)
        PROVE  run.status = "completed"
    <3>1. PICK value : Merged(w, value) \in RunRow /\ run' = Write(w, Merged(w, value))
      BY <2>6, SuccessTypes
    <3>2. ws[w].copy \in RunRow
      BY <2>6, SuccessTypes DEF TypeInv, TypeOK, SessionOK, InNode
    <3>3. Merged(w, value).status = ws[w].copy.status
      BY <3>2 DEF Merged, RunRow
    <3> QED BY <1>0, <3>1, <3>3, WriteLemma
  <2>7. ASSUME NEW w \in Workers, Fails(w)
        PROVE  run.status = "completed"
    <3>1. ws[w].copy \in RunRow
      BY <2>7, FailureTypes DEF TypeInv, TypeOK, SessionOK, InNode, Fails
    <3>2. /\ [ws[w].copy EXCEPT !.status = "failed"] \in RunRow
          /\ [ws[w].copy EXCEPT !.status = "failed"].status = "failed"
      BY <3>1 DEF RunRow, RunStatus
    <3>3. \/ run' = Write(w, ws[w].copy)
          \/ \E new \in RunRow : run' = Write(w, new) /\ new.status \in {"failed", "partial"}
      BY <2>7, <3>2, FailureTypes DEF TypeInv, Fails
    <3> QED BY <1>0, <3>1, <3>3, WriteLemma
  <2>8. CASE Request
    BY <2>8, RequestTypes DEF TypeInv, Request
  <2> QED BY <1>2, <2>2, <2>3, <2>4, <2>5, <2>6, <2>7, <2>8, StepsLemma
<1> QED BY <1>1, <1>2

(* Every step keeps the nodes behind a session done. *)
LEMMA ProgressStep ==
  ASSUME TypeInv, Progress, [Next]_vars
  PROVE  Progress'
<1>0. TypeInv' /\ \A n \in Nodes : Done(n) => Done(n)'
  BY TypeStep, DoneLemma DEF TypeInv, TypeOK
<1>1. ASSUME NEW v \in Workers, ws'[v] = ws[v], ws'[v].pc \in InSession, NEW n \in Passed(v)'
      PROVE  Done(n)'
  <2>1. n \in Passed(v)
    BY <1>1 DEF Passed, Node
  <2>2. n \in Nodes
    <3>1. ws[v].at \in 1..Len(PlanSequence)
      BY <1>1 DEF TypeInv, TypeOK, SessionOK
    <3>2. \A i \in 1..(ws[v].at - 1) : i \in 1..Len(PlanSequence)
      BY <3>1, NodesLemma
    <3> QED BY <2>1, <3>1, <3>2, NodesLemma, NodeLemma DEF Passed
  <2> QED BY <1>0, <1>1, <2>1, <2>2 DEF Progress
<1>2. ASSUME NEW w \in Workers, ws[w].pc \in InSession, NEW m \in Nodes,
             Passed(w)' \subseteq Passed(w) \cup {m},
             m \in Passed(w) \/ m \notin Passed(w)' \/ Done(m)',
             NEW n \in Passed(w)'
      PROVE  Done(n)'
  <2>1. ws[w].at \in 1..Len(PlanSequence)
    BY <1>2 DEF TypeInv, TypeOK, SessionOK
  <2>2. \A i \in 1..(ws[w].at - 1) : i \in 1..Len(PlanSequence)
    BY <2>1, NodesLemma
  <2>3. \A k \in Passed(w) : k \in Nodes /\ Done(k)
    BY <1>2, <2>1, <2>2, NodesLemma, NodeLemma DEF Passed, Progress
  <2> QED BY <1>0, <1>2, <2>3
<1>3. ASSUME NEW w \in Workers, ws[w].pc \in InSession, Passed(w)' \subseteq Passed(w)
      PROVE  \A n \in Passed(w)' : Done(n)'
  BY <1>2, <1>3, RequiredNodes
<1>4. CASE UNCHANGED vars
  BY <1>1, <1>4 DEF Progress, vars
<1>5. CASE Next
  <2>1. CASE Request
    <3>1. ws' = ws
      BY <2>1, RequestTypes DEF TypeInv, Request
    <3> QED BY <1>1, <3>1 DEF Progress
  <2>2. ASSUME NEW w \in Workers,
               ClaimNext(w) \/ FinishJob(w) \/ Crash(w) \/ Moves(w) \/ Enter(w)
                 \/ StartAttempt(w) \/ Success(w) \/ Fails(w)
        PROVE  Progress'
    <3>1. Keeps(w)
      BY <2>2, ClaimTypes, FinishTypes, CrashTypes, MoveTypes, EnterTypes, StartTypes,
         SuccessTypes, FailureTypes DEF TypeInv, Moves, Fails
    <3>2. \A v \in Workers \ {w} : ws'[v].pc \in InSession => \A n \in Passed(v)' : Done(n)'
      BY <1>1, <3>1 DEF Keeps
    <3>3. SUFFICES ASSUME ws'[w].pc \in InSession PROVE \A n \in Passed(w)' : Done(n)'
      BY <3>2 DEF Progress
    <3>4. CASE ClaimNext(w) \/ FinishJob(w) \/ Crash(w)
      BY <3>3, <3>4, ClaimTypes, FinishTypes, CrashTypes DEF TypeInv, InSession, InNode
    <3>5. CASE Enter(w)
      <4>1. /\ ws[w].pc = "entering" /\ ws'[w].at = ws[w].at
            /\ \/ ws'[w].pc = "checkpointed" /\ Memoised(Node(w), Input(Node(w), run.cand))
               \/ ws'[w].pc = "starting"
        BY <3>5, EnterTypes DEF TypeInv, Enter
      <4>2. ws[w].pc \in InSession /\ Node(w) \in Nodes
        BY <4>1, NodeLemma DEF InSession, TypeInv, TypeOK, SessionOK
      <4>3. ws'[w].pc = "starting" => Passed(w)' \subseteq Passed(w)
        BY <4>1 DEF Passed
      <4>4. ws'[w].pc = "checkpointed" => Done(Node(w))
        BY <4>1 DEF Memoised, Done
      <4>5. Passed(w)' \subseteq Passed(w) \cup {Node(w)}
        BY <4>1 DEF Passed, Node
      <4>6. PICK m \in Nodes : m = Node(w)
        BY <4>2
      <4>7. m \in Passed(w) \/ m \notin Passed(w)' \/ Done(m)'
        BY <1>0, <4>1, <4>3, <4>4, <4>6
      <4> QED BY <1>2, <4>2, <4>5, <4>6, <4>7
    <3>6. CASE StartAttempt(w)
      <4>1. /\ ws[w].pc = "starting" /\ ws'[w].at = ws[w].at
            /\ ws'[w].pc \in {"raised", "running"}
        BY <3>6, StartTypes DEF TypeInv, StartAttempt
      <4>2. Passed(w)' \subseteq Passed(w) /\ ws[w].pc \in InSession
        BY <4>1 DEF Passed, InSession, InNode
      <4> QED BY <1>3, <4>2
    <3>7. CASE Success(w)
      <4>1. /\ ws[w].pc = "running" /\ ws'[w].pc = "checkpointed" /\ ws'[w].at = ws[w].at
            /\ Node(w) \in Nodes /\ ws[w].try \in 1..Len(steps'[Node(w)])
            /\ steps'[Node(w)][ws[w].try] = [status |-> "completed", input |-> ws[w].input]
        BY <3>7, SuccessTypes
      <4>2. PICK m \in Nodes : m = Node(w)
        BY <4>1
      <4>3. Done(m)'
        <5>1. DOMAIN steps'[m] = 1..Len(steps'[m])
          BY <1>0, RowsLemma DEF TypeInv, TypeOK, StepsOK
        <5>2. \E i \in DOMAIN steps'[m] : steps'[m][i].status = "completed"
          BY <4>1, <4>2, <5>1
        <5> QED BY <5>2 DEF Done
      <4>4. Passed(w)' \subseteq Passed(w) \cup {m} /\ ws[w].pc \in InSession
        BY <4>1, <4>2 DEF Passed, Node, InSession, InNode
      <4> QED BY <1>2, <4>3, <4>4
    <3>8. CASE Fails(w)
      <4>1. ws[w].pc = "running" /\ ws'[w].pc = "starting" /\ ws'[w].at = ws[w].at
        BY <3>3, <3>8, FailureTypes DEF TypeInv, Fails, InSession, InNode
      <4>2. Passed(w)' \subseteq Passed(w) /\ ws[w].pc \in InSession
        BY <4>1 DEF Passed, InSession, InNode
      <4> QED BY <1>3, <4>2
    <3>9. CASE Moves(w)
      <4>0. ws[w] \in Session /\ ws \in [Workers -> Session]
        BY DEF TypeInv, TypeOK
      <4>1. CASE Open(w)
        <5>1. ws'[w].at = 1 /\ ws'[w].pc = "entering"
          BY <3>3, <4>0, <4>1 DEF Open, Session, InSession, InNode
        <5> QED BY <5>1 DEF Passed
      <4>2. CASE EnterCancelled(w) \/ DraftConflict(w) \/ WaitForUser(w) \/ Complete(w)
        <5>1. ws'[w].pc \in {"closing", "raised"}
          BY <4>0, <4>2 DEF EnterCancelled, DraftConflict, WaitForUser, Complete, Session
        <5> QED BY <3>3, <5>1 DEF InSession, InNode
      <4>3. CASE FindOpenQuestion(w)
        <5>1. ws[w].pc = "checkpointed" /\ ws'[w].pc = "waiting" /\ ws'[w].at = ws[w].at
          BY <4>0, <4>3 DEF FindOpenQuestion, Session
        <5>2. Passed(w)' \subseteq Passed(w) /\ ws[w].pc \in InSession /\ Node(w) \in Passed(w)
          BY <5>1 DEF Passed, Node, InSession, InNode
        <5> QED BY <1>3, <5>2
      <4>4. CASE Advance(w)
        <5>1. ws[w].pc = "checkpointed" /\ ws'[w].pc = "entering" /\ ws'[w].at = ws[w].at + 1
          BY <4>0, <4>4 DEF Advance, Session
        <5>2. ws[w].at \in 1..Len(PlanSequence)
          BY <5>1 DEF TypeInv, TypeOK, SessionOK, InSession, InNode
        <5>3. Passed(w)' = {PlanSequence[i] : i \in 1..ws[w].at}
          BY <5>1, <5>2, NodesLemma DEF Passed
        <5>4. Passed(w)' \subseteq Passed(w) /\ ws[w].pc \in InSession /\ Node(w) \in Passed(w)
          <6>1. \A i \in 1..ws[w].at : i \in 1..(ws[w].at - 1) \/ i = ws[w].at
            BY <5>2, NodesLemma
          <6> QED BY <5>1, <5>3, <6>1 DEF Passed, Node, InSession, InNode
        <5> QED BY <1>3, <5>4
      <4> QED BY <3>9, <4>1, <4>2, <4>3, <4>4 DEF Moves
    <3> QED BY <2>2, <3>4, <3>5, <3>6, <3>7, <3>8, <3>9
  <2> QED BY <1>5, <2>1, <2>2, StepsLemma
<1> QED BY <1>4, <1>5

(* A new run has no checkpoint and no draft. *)
LEMMA WholeInit == Init => WholeInv
<1> SUFFICES ASSUME Init PROVE WholeInv
  OBVIOUS
<1>1. \A w \in Workers : ws[w].pc = "idle"
  BY DEF Init, Idle
<1>2. Progress
  BY <1>1 DEF Progress, InSession, InNode
<1>3. \A n \in Nodes : ~Done(n)
  BY DEF Init, Done
<1>4. DraftStored /\ DraftIsSound /\ CompletedIsWhole
  BY <1>3, RequiredNodes DEF Init, DraftStored, DraftIsSound, CompletedIsWhole
<1> QED BY <1>2, <1>4, TypeInit DEF WholeInv

(* Every step, of any worker, keeps the invariant. *)
LEMMA WholeStep ==
  ASSUME WholeInv, [Next]_vars
  PROVE  WholeInv'
<1>1. TypeInv /\ TypeInv' /\ \A n \in Nodes : Done(n) => Done(n)'
  BY TypeStep, DoneLemma DEF WholeInv, TypeInv, TypeOK
<1>2. Progress'
  BY ProgressStep DEF WholeInv
<1>3. draft # None => draft' = draft
  BY <1>1, DraftStep
<1>4. DraftStored'
  <2>1. SUFFICES ASSUME Done("persist_draft")' PROVE draft' # None
    BY DEF DraftStored
  <2>2. CASE Done("persist_draft")
    BY <1>3, <2>2 DEF WholeInv, DraftStored
  <2>3. CASE \E w \in Workers : Success(w) /\ Node(w) = "persist_draft"
    <3>1. PICK w \in Workers : PersistDraft(w)
      BY <2>3 DEF Success, ModelNode, PlainNode, WaitOrAssume, QualityGate, Running, ModelNodes
    <3> QED BY <1>1, <3>1, DraftStep
  <2> QED BY <1>1, <2>1, <2>2, <2>3, NewlyDone, RequiredNodes
<1>5. DraftIsSound'
  <2>1. SUFFICES ASSUME draft' # None PROVE Passes(draft') /\ Done("quality_gate")'
    BY DEF DraftIsSound, Passes
  <2>2. CASE draft' = draft
    BY <1>1, <2>1, <2>2, RequiredNodes DEF WholeInv, DraftIsSound
  <2>3. ASSUME NEW w \in Workers, Node(w) = "persist_draft", ws[w].pc = "running", Passes(draft')
        PROVE  Passes(draft') /\ Done("quality_gate")'
    <3>1. ws[w].at \in 1..Len(PlanSequence) /\ ws[w].pc \in InSession
      BY <1>1, <2>3 DEF TypeInv, TypeOK, SessionOK, InSession, InNode
    <3>2. "quality_gate" \in Passed(w)
      BY <2>3, <3>1, RequiredNodes, BeforeLemma
    <3> QED BY <1>1, <2>3, <3>1, <3>2, RequiredNodes DEF WholeInv, Progress
  <2> QED BY <1>1, <2>2, <2>3, DraftStep
<1>6. CompletedIsWhole'
  <2>1. SUFFICES ASSUME run'.status = "completed"
                 PROVE  draft' # None /\ \A n \in Nodes : Done(n)'
    BY DEF CompletedIsWhole
  <2>2. ASSUME draft # None, \A n \in Nodes : Done(n)
        PROVE  draft' # None /\ \A n \in Nodes : Done(n)'
    BY <1>1, <1>3, <2>2
  <2>3. CASE run.status = "completed"
    BY <2>2, <2>3 DEF WholeInv, CompletedIsWhole
  <2>4. ASSUME NEW w \in Workers, Complete(w)
        PROVE  draft' # None /\ \A n \in Nodes : Done(n)'
    <3>1. ws[w].pc = "checkpointed" /\ Node(w) = "await_approval" /\ ws[w].pc \in InSession
      BY <2>4 DEF Complete, InSession, InNode
    <3>2. ws[w].at \in 1..Len(PlanSequence)
      BY <1>1, <3>1 DEF TypeInv, TypeOK, SessionOK
    <3>3. \A n \in Nodes : Done(n)
      BY <3>1, <3>2, AllPassed DEF WholeInv, Progress
    <3> QED BY <2>2, <3>3, RequiredNodes DEF WholeInv, DraftStored
  <2> QED BY <1>1, <2>1, <2>3, <2>4, CompletedStep
<1> QED BY <1>1, <1>2, <1>4, <1>5, <1>6 DEF WholeInv

(* What a session has passed is done, the draft is there once persist_draft is, *)
(* it has been judged, and a completed run is whole: together they are          *)
(* inductive.                                                                   *)
THEOREM WholeInvariant == Spec => []WholeInv
<1>1. WholeInv /\ [Next]_vars => WholeInv'
  BY WholeStep
<1> QED BY WholeInit, <1>1, PTL DEF Spec

(* "never set completed unless every required node succeeded": whatever the      *)
(* number of workers that run the run at once, crash, or are cancelled, a run    *)
(* that is completed has a completed checkpoint of every node and its draft.     *)
THEOREM CompletedRunIsWhole == Spec => []CompletedIsWhole
<1>1. WholeInv => CompletedIsWhole
  BY DEF WholeInv
<1> QED BY WholeInvariant, <1>1, PTL

(* A run's draft follows a completed quality_gate step and is itself content the *)
(* gate accepts, even when another worker has replaced the candidates in between.*)
THEOREM DraftPassedTheGate == Spec => []DraftIsSound
<1>1. WholeInv => DraftIsSound
  BY DEF WholeInv
<1> QED BY WholeInvariant, <1>1, PTL

(* A run persists one draft and never rewrites it. *)
THEOREM OneDraft == Spec => DraftWrittenOnce
<1>1. TypeInv /\ [Next]_vars => [draft # None => draft' = draft]_vars
  BY DraftStep
<1> QED BY TypeCorrect, <1>1, PTL DEF Spec, DraftWrittenOnce

-----------------------------------------------------------------------------
(***************************************************************************)
(* One worker, as compose.yaml and compose.production.yaml start it; one   *)
(* worker runs one job at a time.  Crashes, redeliveries, answers and      *)
(* cancels stay.  OneWorker is needed: when a lease runs out under a live  *)
(* worker of several, the one that wakes late writes its own copy of the   *)
(* candidates and of the status over the other's.                          *)
(***************************************************************************)

(* The run is not executed by two workers. *)
OneWorker == \A v, w \in Workers : v = w

(* A handler's copy of the candidates is the row's. *)
Synced == \A w \in Workers : ws[w].pc \in InNode => ws[w].copy.cand = run.cand

(* An attempt's input is of the candidates as they are. *)
InputFresh ==
  \A w \in Workers :
    ws[w].pc \in {"starting", "running"} =>
      ws[w].input.cand = [k \in InputKeys(Node(w)) |-> run.cand[k]]

(* A node that is done has left its candidate. *)
Filled ==
  \A n \in Nodes : Done(n) /\ OutputKey(n) # None => run.cand[OutputKey(n)] # None

(* A completed quality_gate step judged this content. *)
Judged(content) ==
  \E i \in DOMAIN steps["quality_gate"] :
    steps["quality_gate"][i] =
      [status |-> "completed", input |-> [cand |-> content, facts |-> None]]

(* Behind the gate the candidates are the ones it judged. *)
GatePassed ==
  \A w \in Workers :
    ws[w].pc \in InSession /\ "quality_gate" \in Passed(w) => Judged(Content(run.cand))

GateInv == WholeInv /\ Synced /\ InputFresh /\ Filled /\ GatePassed /\ DraftIsTheGatedOne

(* Every node's place. *)
LEMMA PlacesLemma ==
  /\ Position("validate_request") = 1 /\ Position("detect_gaps") = 2
  /\ Position("wait_or_assume") = 3 /\ Position("analyze_project") = 4
  /\ Position("draft_modules") = 5 /\ Position("draft_milestones") = 6
  /\ Position("draft_tasks") = 7 /\ Position("strengthen_acceptance") = 8
  /\ Position("suggest_dependencies") = 9 /\ Position("validate_graph") = 10
  /\ Position("normalize_effort") = 11 /\ Position("score_priority") = 12
  /\ Position("schedule") = 13 /\ Position("identify_risks") = 14
  /\ Position("quality_gate") = 15 /\ Position("persist_draft") = 16
  /\ Position("await_approval") = 17
<1>1. \A j \in 1..17 : Position(PLANNING_SEQUENCE[j]) = j
  BY PositionLemma
<1> QED BY <1>1 DEF PLANNING_SEQUENCE

(* What a handler reads is made by a node before it. *)
LEMMA NeedsLemma ==
  ASSUME NEW n \in Nodes, NEW k \in Needs(n)
  PROVE  \E m \in Nodes : /\ Position(m) < Position(n)
                          /\ OutputKey(m) = k /\ OutputKey(m) # None
<1>1. n \in Names /\ Nodes \subseteq Names
  BY NodesLemma
<1>2. PICK m \in Nodes : OutputKey(m) = k
  BY DEF Needs
<1>3. m \in Names
  BY <1>1, <1>2
<1>4. k \in Keys
  <2>1. k \in {"analysis", "modules", "milestones", "tasks", "dependencies", "schedule", "risks"}
               \cup InputKeys(n)
    BY DEF Needs
  <2> QED BY <1>1, <2>1, KeysLemma DEF Keys
<1>5. CASE n \in {"score_priority", "schedule"}
  <2>1. k \in {"analysis", "modules", "milestones", "tasks", "dependencies"}
    BY <1>5 DEF Needs
  <2>2. m \in {"analyze_project", "draft_modules", "draft_milestones", "draft_tasks",
               "strengthen_acceptance", "suggest_dependencies"}
    BY <1>2, <1>3, <2>1, NoneAssumption DEF Names, PLANNING_SEQUENCE, OutputKey, Keys
  <2> QED BY <1>2, <1>4, <1>5, <2>2, PlacesLemma, NoneAssumption
<1>6. CASE n = "identify_risks"
  <2>1. k \in {"analysis", "modules", "milestones", "tasks", "dependencies", "schedule"}
    BY <1>6 DEF Needs
  <2>2. m \in {"analyze_project", "draft_modules", "draft_milestones", "draft_tasks",
               "strengthen_acceptance", "suggest_dependencies", "schedule"}
    BY <1>2, <1>3, <2>1, NoneAssumption DEF Names, PLANNING_SEQUENCE, OutputKey, Keys
  <2> QED BY <1>2, <1>4, <1>6, <2>2, PlacesLemma, NoneAssumption
<1>7. CASE n \in {"quality_gate", "persist_draft"}
  <2>1. k \in {"analysis", "modules", "milestones", "tasks", "dependencies", "risks"}
    BY <1>7 DEF Needs
  <2>2. m \in {"analyze_project", "draft_modules", "draft_milestones", "draft_tasks",
               "strengthen_acceptance", "suggest_dependencies", "identify_risks"}
    BY <1>2, <1>3, <2>1, NoneAssumption DEF Names, PLANNING_SEQUENCE, OutputKey, Keys
  <2> QED BY <1>2, <1>4, <1>7, <2>2, PlacesLemma, NoneAssumption
<1>8. CASE n = "draft_tasks"
  <2>1. k \in {"modules", "milestones"}
    BY <1>8 DEF Needs
  <2>2. m \in {"draft_modules", "draft_milestones"}
    BY <1>2, <1>3, <2>1, NoneAssumption DEF Names, PLANNING_SEQUENCE, OutputKey, Keys
  <2> QED BY <1>2, <1>4, <1>8, <2>2, PlacesLemma, NoneAssumption
<1>9. CASE n = "await_approval"
  BY <1>9 DEF Needs
<1>10. CASE n = "strengthen_acceptance"
  <2>1. k = "tasks"
    BY <1>10 DEF Needs, InputKeys
  <2>2. "draft_tasks" \in Nodes /\ OutputKey("draft_tasks") = "tasks"
    BY <1>10, SequenceAssumption DEF OutputKey
  <2> QED BY <1>4, <1>10, <2>1, <2>2, PlacesLemma, NoneAssumption
<1>11. CASE n \in {"draft_modules", "draft_milestones"}
  <2>1. k = IF n = "draft_modules" THEN "analysis" ELSE "modules"
    BY <1>11 DEF Needs, InputKeys
  <2>2. m = IF n = "draft_modules" THEN "analyze_project" ELSE "draft_modules"
    BY <1>2, <1>3, <1>11, <2>1, NoneAssumption DEF Names, PLANNING_SEQUENCE, OutputKey, Keys
  <2> QED BY <1>2, <1>4, <1>11, <2>2, PlacesLemma, NoneAssumption
<1>12. CASE n \in {"suggest_dependencies", "validate_graph", "normalize_effort"}
  <2>1. k = "tasks" \/ (n = "validate_graph" /\ k = "dependencies")
    BY <1>12 DEF Needs, InputKeys
  <2>2. \/ m \in {"draft_tasks", "strengthen_acceptance"}
        \/ n = "validate_graph" /\ m = "suggest_dependencies"
    BY <1>2, <1>3, <2>1, NoneAssumption DEF Names, PLANNING_SEQUENCE, OutputKey, Keys
  <2> QED BY <1>2, <1>4, <1>12, <2>2, PlacesLemma, NoneAssumption
<1>13. CASE n \in {"validate_request", "detect_gaps", "wait_or_assume", "analyze_project"}
  BY <1>13 DEF Needs, InputKeys
<1> QED BY <1>1, <1>5, <1>6, <1>7, <1>8, <1>9, <1>10, <1>11, <1>12, <1>13
        DEF Names, PLANNING_SEQUENCE

(* Behind the gate only persist_draft and await_approval are left. *)
LEMMA AfterGate ==
  ASSUME NEW w \in Workers, ws[w].at \in 1..Len(PlanSequence),
         ws[w].pc \notin {"checkpointed", "waiting"}, "quality_gate" \in Passed(w)
  PROVE  Node(w) \in {"persist_draft", "await_approval"}
<1>1. PICK i \in 1..(ws[w].at - 1) : PlanSequence[i] = "quality_gate"
  BY DEF Passed
<1>2. i \in 1..Len(PlanSequence) /\ i < ws[w].at
  BY <1>1, NodesLemma
<1>3. Position("quality_gate") < Position(Node(w))
  BY <1>1, <1>2, SequenceAssumption DEF Node
<1>4. Node(w) \in Names
  BY NodeLemma
<1>5. PICK p \in 1..17 : Node(w) = PLANNING_SEQUENCE[p] /\ Position(Node(w)) = p
  BY <1>4, NameLemma
<1>6. p = 16 \/ p = 17
  BY <1>3, <1>5, PlacesLemma
<1> QED BY <1>5, <1>6 DEF PLANNING_SEQUENCE

(* What the gate judges does not depend on what it and later nodes write. *)
LEMMA ContentKept ==
  ASSUME NEW c, NEW d, \A k \in Keys \ {"quality_report", "persisted_draft"} : c[k] = d[k]
  PROVE  Content(c) = Content(d)
BY DEF Content, InputKeys, Keys

(* A judgement stays. *)
LEMMA JudgedStays ==
  ASSUME TypeInv, [Next]_vars, NEW content, Judged(content)
  PROVE  Judged(content)'
<1>1. TypeInv' /\ Kept("quality_gate")
  BY TypeStep, RequiredNodes
<1>2. /\ Len(steps["quality_gate"]) \in Nat /\ DOMAIN steps["quality_gate"] = 1..Len(steps["quality_gate"])
      /\ Len(steps'["quality_gate"]) \in Nat /\ DOMAIN steps'["quality_gate"] = 1..Len(steps'["quality_gate"])
  BY <1>1, RequiredNodes, RowsLemma DEF TypeInv, TypeOK, StepsOK
<1>3. PICK i \in 1..Len(steps["quality_gate"]) :
        steps["quality_gate"][i] =
          [status |-> "completed", input |-> [cand |-> content, facts |-> None]]
  BY <1>2 DEF Judged
<1>4. i \in 1..Len(steps'["quality_gate"]) /\ steps'["quality_gate"][i] = steps["quality_gate"][i]
  BY <1>1, <1>2, <1>3 DEF Kept
<1> QED BY <1>2, <1>3, <1>4 DEF Judged

(* The candidates after each kind of step, when there is one worker: only a *)
(* success and a rejected gate change them.                                 *)
LEMMA CandidatesLemma ==
  ASSUME OneWorker, TypeInv, Synced, [Next]_vars
  PROVE  \/ run'.cand = run.cand /\ ~ \E w \in Workers : Success(w)
         \/ \E w \in Workers : \E value :
              /\ Success(w) /\ Checkpoint(w, value)
              /\ OutputKey(Node(w)) # None => value \in ValueOf(OutputKey(Node(w)))
              /\ ws'[w].copy.cand = run'.cand
              /\ run'.cand = IF OutputKey(Node(w)) = None THEN run.cand
                               ELSE [run.cand EXCEPT ![OutputKey(Node(w))] = value]
         \/ /\ \A w \in Workers : ws'[w].pc = "closing"
            /\ \A k \in Keys \ {"quality_report"} : run'.cand[k] = run.cand[k]
            /\ \/ run'.cand["quality_report"] = run.cand["quality_report"]
               \/ run'.cand["quality_report"] \in Contents
<1>0. run \in RunRow
  BY DEF TypeInv, TypeOK
<1>1. CASE \E w \in Workers : Success(w)
  <2>1. PICK w \in Workers : Success(w)
    BY <1>1
  <2>2. PICK value :
          /\ OutputKey(Node(w)) # None => value \in ValueOf(OutputKey(Node(w)))
          /\ Checkpoint(w, value)
          /\ ws'[w].copy = Merged(w, value) /\ Merged(w, value) \in RunRow
          /\ run' = Write(w, Merged(w, value))
    BY <2>1, SuccessTypes
  <2>3. ws[w].copy \in RunRow /\ ws[w].copy.cand = run.cand
    BY <2>1, SuccessTypes DEF TypeInv, TypeOK, SessionOK, InNode, Synced
  <2>4. Merged(w, value).cand = IF OutputKey(Node(w)) = None THEN run.cand
                                  ELSE [run.cand EXCEPT ![OutputKey(Node(w))] = value]
    BY <2>3 DEF Merged, RunRow
  <2>5. run'.cand = Merged(w, value).cand
    BY <1>0, <2>2, <2>3, WriteLemma
  <2> QED BY <2>1, <2>2, <2>4, <2>5
<1>2. CASE ~ \E w \in Workers : Success(w)
  <2>1. CASE UNCHANGED vars
    BY <1>2, <2>1 DEF vars
  <2>2. CASE Request
    BY <1>2, <2>2, RequestTypes DEF TypeInv, Request
  <2>3. ASSUME NEW w \in Workers,
               ClaimNext(w) \/ FinishJob(w) \/ Crash(w) \/ Enter(w)
        PROVE  run'.cand = run.cand
    <3>1. run' = run \/ run' = FailActiveRun(run)
      BY <2>3 DEF ClaimNext, FinishJob, Crash, Enter
    <3> QED BY <1>0, <3>1 DEF FailActiveRun, RunRow
  <2>4. ASSUME NEW w \in Workers, NEW status \in RunStatus, ws[w].pc \in InNode,
               run' = Write(w, [ws[w].copy EXCEPT !.status = status])
        PROVE  run'.cand = run.cand
    <3>1. ws[w].copy \in RunRow /\ ws[w].copy.cand = run.cand
      BY <2>4 DEF TypeInv, TypeOK, SessionOK, Synced
    <3> DEFINE new == [ws[w].copy EXCEPT !.status = status]
    <3>2. new \in RunRow /\ new.cand = run.cand
      BY <2>4, <3>1 DEF RunRow
    <3> HIDE DEF new
    <3>3. run' = Write(w, new)
      BY <2>4 DEF new
    <3> QED BY <1>0, <3>2, <3>3, WriteLemma
  <2>5. {"running", "waiting_for_user", "completed", "failed"} \subseteq RunStatus
    BY DEF RunStatus
  <2>6. ASSUME NEW w \in Workers, Moves(w)
        PROVE  run'.cand = run.cand
    <3>1. CASE Open(w) \/ DraftConflict(w) \/ FindOpenQuestion(w) \/ Advance(w)
      BY <3>1 DEF Open, DraftConflict, FindOpenQuestion, Advance
    <3>2. CASE EnterCancelled(w)
      BY <1>0, <3>2 DEF EnterCancelled, RunRow
    <3>3. CASE WaitForUser(w)
      BY <2>4, <2>5, <3>3 DEF WaitForUser, InNode
    <3>4. CASE Complete(w)
      BY <2>4, <2>5, <3>4 DEF Complete, InNode
    <3> QED BY <2>6, <3>1, <3>2, <3>3, <3>4 DEF Moves
  <2>7. ASSUME NEW w \in Workers, StartAttempt(w)
        PROVE  run'.cand = run.cand
    <3>1. run' = run \/ run' = Write(w, [ws[w].copy EXCEPT !.status = "running"])
      BY <2>7, StartTypes DEF TypeInv
    <3> QED BY <2>4, <2>5, <2>7, <3>1 DEF StartAttempt, InNode
  <2>8. ASSUME NEW w \in Workers, Fails(w)
        PROVE  \/ run'.cand = run.cand
               \/ /\ \A v \in Workers : ws'[v].pc = "closing"
                  /\ \A k \in Keys \ {"quality_report"} : run'.cand[k] = run.cand[k]
                  /\ \/ run'.cand["quality_report"] = run.cand["quality_report"]
                     \/ run'.cand["quality_report"] \in Contents
    <3>1. ws[w].copy \in RunRow /\ ws[w].copy.cand = run.cand /\ ws[w].pc \in InNode
      BY <2>8, FailureTypes DEF TypeInv, TypeOK, SessionOK, InNode, Synced, Fails
    <3>2. \/ run' = Write(w, ws[w].copy)
          \/ /\ ws'[w].pc = "closing"
             /\ \E new \in RunRow :
                  /\ run' = Write(w, new)
                  /\ \A k \in Keys \ {"quality_report"} : new.cand[k] = ws[w].copy.cand[k]
                  /\ \/ new.cand["quality_report"] = ws[w].copy.cand["quality_report"]
                     \/ new.cand["quality_report"] \in Contents
          \/ run' = Write(w, [ws[w].copy EXCEPT !.status = "failed"])
      BY <2>8, FailureTypes DEF TypeInv, Fails
    <3>3. CASE run' = Write(w, ws[w].copy)
      BY <1>0, <3>1, <3>3, WriteLemma
    <3>4. CASE run' = Write(w, [ws[w].copy EXCEPT !.status = "failed"])
      BY <2>4, <2>5, <3>1, <3>4
    <3>5. CASE /\ ws'[w].pc = "closing"
               /\ \E new \in RunRow :
                  /\ run' = Write(w, new)
                  /\ \A k \in Keys \ {"quality_report"} : new.cand[k] = ws[w].copy.cand[k]
                  /\ \/ new.cand["quality_report"] = ws[w].copy.cand["quality_report"]
                     \/ new.cand["quality_report"] \in Contents
      <4>1. PICK new \in RunRow :
                  /\ run' = Write(w, new)
                  /\ \A k \in Keys \ {"quality_report"} : new.cand[k] = ws[w].copy.cand[k]
                  /\ \/ new.cand["quality_report"] = ws[w].copy.cand["quality_report"]
                     \/ new.cand["quality_report"] \in Contents
        BY <3>5
      <4>2. run'.cand = new.cand
        BY <1>0, <3>1, <4>1, WriteLemma
      <4>3. \A v \in Workers : ws'[v].pc = "closing"
        BY <3>5 DEF OneWorker
      <4> QED BY <3>1, <4>1, <4>2, <4>3
    <3> QED BY <3>2, <3>3, <3>4, <3>5
  <2> QED BY <1>2, <2>1, <2>2, <2>3, <2>6, <2>7, <2>8, StepsLemma
<1> QED BY <1>1, <1>2

(* Where a session is in a node after a step, and how it came there. *)
LEMMA InNodeStep ==
  ASSUME TypeInv, [Next]_vars, NEW w \in Workers, OneWorker, ws'[w].pc \in InNode
  PROVE  \/ /\ ws'[w] = ws[w] /\ ~Success(w) /\ run'.cand = run.cand
         \/ Success(w)
         \/ /\ Enter(w) /\ ws'[w].at = ws[w].at /\ ws'[w].copy = run /\ run' = run
            /\ \/ ws'[w].pc = "checkpointed" /\ Memoised(Node(w), Input(Node(w), run.cand))
               \/ ws'[w].pc = "starting" /\ ws'[w].input = Input(Node(w), run.cand)
         \/ /\ ws[w].pc \in {"starting", "running"} /\ ws'[w].pc \in {"starting", "running"}
            /\ ws'[w].at = ws[w].at /\ ws'[w].input = ws[w].input
            /\ ws[w].copy \in RunRow /\ ws'[w].copy.cand = ws[w].copy.cand
            /\ StartAttempt(w) \/ Fails(w)
         \/ /\ ws[w].pc = "checkpointed" /\ ws'[w].pc = "waiting" /\ run' = run
            /\ ws'[w].at = ws[w].at /\ ws'[w].copy = ws[w].copy
<1>0. ws[w] \in Session /\ ws \in [Workers -> Session] /\ run \in RunRow
  BY DEF TypeInv, TypeOK
<1>1. CASE UNCHANGED vars
  <2>1. CASE Success(w)
    BY <2>1
  <2>2. CASE ~Success(w)
    BY <1>1, <2>2 DEF vars
  <2> QED BY <2>1, <2>2
<1>2. CASE Request
  <2>1. CASE Success(w)
    BY <2>1
  <2>2. CASE ~Success(w)
    BY <1>2, <2>2, RequestTypes DEF TypeInv, Request
  <2> QED BY <2>1, <2>2
<1>3. CASE Success(w)
  BY <1>3
<1>4. CASE ClaimNext(w) \/ FinishJob(w) \/ Crash(w)
  BY <1>4, ClaimTypes, FinishTypes, CrashTypes DEF TypeInv, InNode
<1>5. CASE Enter(w)
  <2>1. run' = run
    BY <1>5 DEF Enter
  <2> QED BY <1>5, <2>1, EnterTypes DEF TypeInv
<1>6. CASE StartAttempt(w)
  <2>1. ws[w].copy \in RunRow /\ ws[w].pc = "starting"
    BY <1>6 DEF TypeInv, TypeOK, SessionOK, StartAttempt, InNode
  <2>2. [ws[w].copy EXCEPT !.status = "running"].cand = ws[w].copy.cand
    BY <2>1 DEF RunRow
  <2> QED BY <1>6, <2>1, <2>2, StartTypes DEF TypeInv, InNode
<1>7. CASE Fails(w)
  <2>1. ws[w].pc = "running"
    BY <1>7, FailureTypes DEF TypeInv, Fails
  <2>2. ws[w].copy \in RunRow
    BY <2>1 DEF TypeInv, TypeOK, SessionOK, InNode
  <2> QED BY <1>7, <2>1, <2>2, FailureTypes DEF TypeInv, InNode, Fails
<1>8. CASE Moves(w)
  <2>1. CASE FindOpenQuestion(w)
    BY <1>0, <2>1 DEF FindOpenQuestion, Session
  <2>2. CASE Open(w)
    BY <1>0, <2>2 DEF Open, Session, InNode
  <2>3. CASE EnterCancelled(w) \/ DraftConflict(w) \/ WaitForUser(w) \/ Complete(w) \/ Advance(w)
    <3>1. ws'[w].pc \in {"closing", "raised", "entering"}
      BY <1>0, <2>3 DEF EnterCancelled, DraftConflict, WaitForUser, Complete, Advance, Session
    <3> QED BY <3>1 DEF InNode
  <2> QED BY <1>8, <2>1, <2>2, <2>3 DEF Moves
<1> QED BY <1>1, <1>2, <1>3, <1>4, <1>5, <1>6, <1>7, <1>8, StepsLemma DEF OneWorker

(* How a session comes to enter a node. *)
LEMMA EnteringStep ==
  ASSUME TypeInv, [Next]_vars, NEW w \in Workers, OneWorker, ws'[w].pc = "entering"
  PROVE  \/ ws'[w] = ws[w]
         \/ ws'[w].at = 1
         \/ /\ ws[w].pc = "checkpointed" /\ ws'[w].at = ws[w].at + 1
            /\ ws[w].at \in 1..Len(PlanSequence)
<1>0. ws[w] \in Session /\ ws \in [Workers -> Session]
  BY DEF TypeInv, TypeOK
<1>1. CASE UNCHANGED vars
  BY <1>1 DEF vars
<1>2. CASE Request
  BY <1>2, RequestTypes DEF TypeInv, Request
<1>3. CASE ClaimNext(w) \/ FinishJob(w) \/ Crash(w)
  BY <1>3, ClaimTypes, FinishTypes, CrashTypes DEF TypeInv
<1>4. CASE Enter(w) \/ StartAttempt(w) \/ Success(w) \/ Fails(w)
  BY <1>4, EnterTypes, StartTypes, SuccessTypes, FailureTypes DEF TypeInv, Fails
<1>5. CASE Moves(w)
  <2>1. CASE Open(w)
    BY <1>0, <2>1 DEF Open, Session
  <2>2. CASE EnterCancelled(w) \/ DraftConflict(w) \/ WaitForUser(w) \/ Complete(w) \/ FindOpenQuestion(w)
    BY <1>0, <2>2 DEF EnterCancelled, DraftConflict, WaitForUser, Complete, FindOpenQuestion, Session
  <2>3. CASE Advance(w)
    <3>1. ws[w].pc = "checkpointed" /\ ws'[w].at = ws[w].at + 1
      BY <1>0, <2>3 DEF Advance, Session
    <3>2. ws[w].at \in 1..Len(PlanSequence)
      BY <3>1 DEF TypeInv, TypeOK, SessionOK, InSession, InNode
    <3> QED BY <3>1, <3>2
  <2> QED BY <1>5, <2>1, <2>2, <2>3 DEF Moves
<1> QED BY <1>1, <1>2, <1>3, <1>4, <1>5, StepsLemma DEF OneWorker

(* Every step keeps the invariant. *)
LEMMA GateStep ==
  ASSUME GateInv, OneWorker, [Next]_vars
  PROVE  GateInv'
<1>1. TypeInv /\ TypeInv' /\ WholeInv /\ WholeInv' /\ Synced
  BY WholeStep DEF GateInv, WholeInv
<1>2. Synced'
  <2>1. SUFFICES ASSUME NEW w \in Workers, ws'[w].pc \in InNode
                 PROVE  ws'[w].copy.cand = run'.cand
    BY DEF Synced
  <2>2. CASE Success(w)
    <3>1. ws'[w].copy.cand = run'.cand
      BY <1>1, <2>1, <2>2, CandidatesLemma DEF OneWorker, InNode
    <3> QED BY <3>1
  <2>3. CASE ~Success(w)
    <3>1. \/ run'.cand = run.cand
          \/ ws'[w].pc = "closing"
      BY <1>1, <2>3, CandidatesLemma DEF OneWorker
    <3>2. run'.cand = run.cand
      BY <2>1, <3>1 DEF InNode
    <3> QED BY <1>1, <2>1, <2>3, <3>2, InNodeStep DEF Synced, InNode
  <2> QED BY <2>2, <2>3
<1>3. InputFresh'
  <2>1. SUFFICES ASSUME NEW w \in Workers, ws'[w].pc \in {"starting", "running"}
                 PROVE  ws'[w].input.cand = [k \in InputKeys(Node(w)') |-> run'.cand[k]]
    BY DEF InputFresh
  <2>2. ws'[w].pc \in InNode /\ ~Success(w)
    BY <1>1, <2>1, SuccessTypes DEF InNode
  <2>3. run'.cand = run.cand
    BY <1>1, <2>1, <2>2, CandidatesLemma DEF OneWorker
  <2>4. \/ ws'[w] = ws[w]
        \/ /\ ws'[w].at = ws[w].at /\ ws'[w].input = Input(Node(w), run.cand)
        \/ /\ ws[w].pc \in {"starting", "running"}
           /\ ws'[w].at = ws[w].at /\ ws'[w].input = ws[w].input
    BY <1>1, <2>1, <2>2, InNodeStep
  <2>5. Node(w)' = Node(w)
    BY <2>4 DEF Node
  <2>6. Input(Node(w), run.cand).cand = [k \in InputKeys(Node(w)) |-> run.cand[k]]
    BY DEF Input
  <2>7. CASE ws'[w].input = Input(Node(w), run.cand)
    BY <2>3, <2>5, <2>6, <2>7
  <2>8. CASE ws[w].pc \in {"starting", "running"} /\ ws'[w].input = ws[w].input
    BY <2>3, <2>5, <2>8 DEF GateInv, InputFresh
  <2> QED BY <2>1, <2>4, <2>7, <2>8
<1>4. Filled'
  <2>1. SUFFICES ASSUME NEW n \in Nodes, Done(n)', OutputKey(n) # None
                 PROVE  run'.cand[OutputKey(n)] # None
    BY DEF Filled
  <2>2. OutputKey(n) \in Keys /\ run.cand \in Candidates
    BY <1>1, <2>1, NodesLemma, KeysLemma DEF TypeInv, TypeOK, RunRow
  <2>3. Done(n) => run.cand[OutputKey(n)] # None
    BY <2>1 DEF GateInv, Filled
  <2>4. CASE run'.cand = run.cand /\ ~ \E w \in Workers : Success(w)
    BY <1>1, <2>1, <2>3, <2>4, NewlyDone
  <2>5. ASSUME NEW w \in Workers, NEW value, Success(w),
               OutputKey(Node(w)) # None => value \in ValueOf(OutputKey(Node(w))),
               run'.cand = IF OutputKey(Node(w)) = None THEN run.cand
                             ELSE [run.cand EXCEPT ![OutputKey(Node(w))] = value]
        PROVE  run'.cand[OutputKey(n)] # None
    <3>1. Done(n) \/ Node(w) = n
      BY <1>1, <2>1, <2>5, NewlyDone DEF OneWorker
    <3>2. CASE OutputKey(Node(w)) = OutputKey(n)
      <4>1. value # None
        BY <2>1, <2>2, <2>5, <3>2, ValueLemma
      <4> QED BY <2>1, <2>2, <2>5, <3>2, <4>1 DEF Candidates
    <3>3. CASE OutputKey(Node(w)) # OutputKey(n)
      <4>1. run'.cand[OutputKey(n)] = run.cand[OutputKey(n)]
        BY <2>2, <2>5, <3>3 DEF Candidates
      <4> QED BY <2>3, <3>1, <3>3, <4>1
    <3> QED BY <3>2, <3>3
  <2>6. CASE /\ \A w \in Workers : ws'[w].pc = "closing"
             /\ \A k \in Keys \ {"quality_report"} : run'.cand[k] = run.cand[k]
             /\ \/ run'.cand["quality_report"] = run.cand["quality_report"]
                \/ run'.cand["quality_report"] \in Contents
    <3>1. Done(n)
      BY <1>1, <2>1, <2>6, NewlyDone, SuccessTypes
    <3> QED BY <2>2, <2>3, <2>6, <3>1, NoneAssumption
  <2> QED BY <1>1, <2>4, <2>5, <2>6, CandidatesLemma
<1>5. GatePassed'
  <2>0. PICK c : c = Content(run.cand)
    OBVIOUS
  <2>1. SUFFICES ASSUME NEW w \in Workers, ws'[w].pc \in InSession, "quality_gate" \in Passed(w)'
                 PROVE  Judged(Content(run.cand))'
    BY DEF GatePassed
  <2>2. ASSUME Judged(c), Content(run'.cand) = c
        PROVE  Judged(Content(run.cand))'
    <3>1. Judged(c)'
      BY <1>1, <2>2, JudgedStays
    <3> QED BY <2>2, <3>1 DEF Judged, Content
  <2>3. ASSUME ws[w].pc \in InSession, "quality_gate" \in Passed(w), run'.cand = run.cand
        PROVE  Judged(Content(run.cand))'
    BY <2>0, <2>2, <2>3 DEF GateInv, GatePassed
  <2>4. ws[w] \in Session /\ ws \in [Workers -> Session]
    BY <1>1 DEF TypeInv, TypeOK
  <2>5. CASE Success(w)
    <3>1. PICK value :
            /\ ws[w].pc = "running" /\ ws'[w].pc = "checkpointed" /\ ws'[w].at = ws[w].at
            /\ run'.cand = IF OutputKey(Node(w)) = None THEN run.cand
                             ELSE [run.cand EXCEPT ![OutputKey(Node(w))] = value]
      <4>1. /\ ws[w].pc = "running" /\ ws'[w].pc = "checkpointed" /\ ws'[w].at = ws[w].at
        BY <1>1, <2>5, SuccessTypes
      <4>2. \E v \in Workers : \E value :
              /\ Success(v)
              /\ run'.cand = IF OutputKey(Node(v)) = None THEN run.cand
                               ELSE [run.cand EXCEPT ![OutputKey(Node(v))] = value]
        <5>1. ~ \A v \in Workers : ws'[v].pc = "closing"
          BY <4>1
        <5>2. \E v \in Workers : Success(v)
          BY <2>5
        <5> QED BY <1>1, <5>1, <5>2, CandidatesLemma
      <4>3. \E value :
              run'.cand = IF OutputKey(Node(w)) = None THEN run.cand
                               ELSE [run.cand EXCEPT ![OutputKey(Node(w))] = value]
        BY <4>2 DEF OneWorker
      <4> QED BY <4>1, <4>3
    <3>2. /\ Node(w) \in Nodes /\ ws[w].try \in 1..Len(steps'[Node(w)])
          /\ steps'[Node(w)][ws[w].try] = [status |-> "completed", input |-> ws[w].input]
      BY <2>5, SuccessTypes DEF GateInv, WholeInv
    <3>3. run.cand \in Candidates
      BY <1>1 DEF TypeInv, TypeOK, RunRow
    <3>4. OutputKey(Node(w)) \in {None, "quality_report", "persisted_draft"} =>
            Content(run'.cand) = c
      <4>1. SUFFICES ASSUME OutputKey(Node(w)) \in {None, "quality_report", "persisted_draft"}
                     PROVE  Content(run'.cand) = c
        OBVIOUS
      <4>2. \A k \in Keys \ {"quality_report", "persisted_draft"} : run'.cand[k] = run.cand[k]
        BY <3>1, <3>3, <4>1, NoneAssumption DEF Candidates
      <4> QED BY <2>0, <4>2, ContentKept
    <3>5. CASE Node(w) = "quality_gate"
      <4>1. OutputKey("quality_gate") = "quality_report"
        BY DEF OutputKey
      <4>2. ws[w].input \in Inputs("quality_gate") /\ ws[w].input.cand = Content(run.cand)
        BY <1>1, <3>1, <3>5 DEF TypeInv, TypeOK, SessionOK, GateInv, InputFresh, Content
      <4>3. FactsOf("quality_gate") = {None}
        BY DEF FactsOf
      <4>4. ws[w].input = [cand |-> c, facts |-> None]
        BY <2>0, <4>2, <4>3 DEF Inputs
      <4>5. DOMAIN steps'["quality_gate"] = 1..Len(steps'["quality_gate"])
        BY <1>1, RequiredNodes, RowsLemma DEF TypeInv, TypeOK, StepsOK
      <4>6. Judged(c)'
        BY <3>2, <3>5, <4>4, <4>5 DEF Judged
      <4>7. Content(run'.cand) = c
        BY <3>4, <3>5, <4>1
      <4> QED BY <4>6, <4>7 DEF Judged, Content
    <3>6. CASE Node(w) # "quality_gate"
      <4>1. ws[w].at \in 1..Len(PlanSequence) /\ ws[w].pc \in InSession
        BY <1>1, <3>1 DEF TypeInv, TypeOK, SessionOK, InSession, InNode
      <4>2. "quality_gate" \in Passed(w)
        BY <2>1, <3>1, <3>6 DEF Passed, Node
      <4>3. Node(w) \in {"persist_draft", "await_approval"}
        BY <3>1, <4>1, <4>2, AfterGate
      <4>4. OutputKey(Node(w)) \in {None, "quality_report", "persisted_draft"}
        BY <4>3 DEF OutputKey
      <4>5. Judged(c)
        BY <2>0, <4>1, <4>2 DEF GateInv, GatePassed
      <4> QED BY <2>2, <3>4, <4>4, <4>5
    <3> QED BY <3>5, <3>6
  <2>6. CASE ~Success(w)
    <3>1. run'.cand = run.cand
      BY <1>1, <2>1, <2>6, CandidatesLemma DEF OneWorker, InSession, InNode
    <3>2. CASE ws'[w].pc = "entering"
      <4>1. \/ ws'[w] = ws[w]
            \/ ws'[w].at = 1
            \/ /\ ws[w].pc = "checkpointed" /\ ws'[w].at = ws[w].at + 1
               /\ ws[w].at \in 1..Len(PlanSequence)
        BY <1>1, <3>2, EnteringStep
      <4>2. CASE ws'[w] = ws[w]
        <5>1. "quality_gate" \in Passed(w)
          BY <2>1, <4>2 DEF Passed, Node
        <5> QED BY <2>1, <2>3, <3>1, <4>2, <5>1
      <4>3. CASE ws'[w].at = 1
        <5>1. Passed(w)' = {}
          BY <3>2, <4>3 DEF Passed
        <5> QED BY <2>1, <5>1
      <4>4. CASE /\ ws[w].pc = "checkpointed" /\ ws'[w].at = ws[w].at + 1
                 /\ ws[w].at \in 1..Len(PlanSequence)
        <5>1. PICK i \in 1..(ws'[w].at - 1) : PlanSequence[i] = "quality_gate"
          BY <2>1, <3>2 DEF Passed
        <5>2. i \in 1..(ws[w].at - 1) \/ i = ws[w].at
          BY <4>4, <5>1, NodesLemma
        <5>3. "quality_gate" \in Passed(w) /\ ws[w].pc \in InSession
          BY <4>4, <5>1, <5>2 DEF Passed, Node, InSession, InNode
        <5> QED BY <2>3, <3>1, <5>3
      <4> QED BY <4>1, <4>2, <4>3, <4>4
    <3>3. CASE ws'[w].pc \in InNode
      <4>1. CASE ws'[w] = ws[w]
        <5>1. "quality_gate" \in Passed(w)
          BY <2>1, <4>1 DEF Passed, Node
        <5> QED BY <2>1, <2>3, <3>1, <4>1, <5>1
      <4>2. CASE Enter(w) /\ ws'[w].at = ws[w].at /\ ws'[w].pc = "checkpointed"
                   /\ Memoised(Node(w), Input(Node(w), run.cand))
        <5>1. ws[w].pc = "entering" /\ ws[w].pc \in InSession
          BY <4>2 DEF Enter, InSession
        <5>2. "quality_gate" \in Passed(w) \/ Node(w) = "quality_gate"
          BY <2>1, <4>2 DEF Passed, Node
        <5>3. CASE Node(w) = "quality_gate"
          <6>1. Input("quality_gate", run.cand) = [cand |-> c, facts |-> None]
            BY <2>0 DEF Input, Content
          <6>2. Judged(c)
            BY <4>2, <5>3, <6>1 DEF Memoised, Judged
          <6> QED BY <2>0, <2>2, <3>1, <6>2
        <5> QED BY <2>3, <3>1, <5>1, <5>2, <5>3
      <4>3. CASE Enter(w) /\ ws'[w].at = ws[w].at /\ ws'[w].pc = "starting"
        <5>1. ws[w].pc = "entering" /\ ws[w].pc \in InSession
          BY <4>3 DEF Enter, InSession
        <5>2. "quality_gate" \in Passed(w)
          BY <2>1, <4>3 DEF Passed, Node
        <5> QED BY <2>3, <3>1, <5>1, <5>2
      <4>4. CASE /\ ws[w].pc \in {"starting", "running"} /\ ws'[w].pc \in {"starting", "running"}
                 /\ ws'[w].at = ws[w].at
        <5>1. "quality_gate" \in Passed(w) /\ ws[w].pc \in InSession
          BY <2>1, <4>4 DEF Passed, Node, InSession, InNode
        <5> QED BY <2>3, <3>1, <5>1
      <4>5. CASE ws[w].pc = "checkpointed" /\ ws'[w].pc = "waiting" /\ ws'[w].at = ws[w].at
        <5>1. "quality_gate" \in Passed(w) /\ ws[w].pc \in InSession
          BY <2>1, <4>5 DEF Passed, Node, InSession, InNode
        <5> QED BY <2>3, <3>1, <5>1
      <4> QED BY <1>1, <2>6, <3>3, <4>1, <4>2, <4>3, <4>4, <4>5, InNodeStep
    <3> QED BY <2>1, <3>2, <3>3 DEF InSession
  <2> QED BY <2>5, <2>6
<1>6. DraftIsTheGatedOne'
  <2>1. SUFFICES ASSUME draft' # None PROVE Judged(draft)'
    BY DEF DraftIsTheGatedOne, Judged
  <2>2. ASSUME NEW c, c = draft', Judged(c) PROVE Judged(draft)'
    <3>1. Judged(c)'
      BY <1>1, <2>2, JudgedStays
    <3> QED BY <2>2, <3>1 DEF Judged
  <2>3. CASE draft' = draft
    BY <2>1, <2>2, <2>3 DEF GateInv, DraftIsTheGatedOne, Judged
  <2>4. CASE \E w \in Workers : /\ Node(w) = "persist_draft" /\ ws[w].pc = "running"
                                /\ draft' = Content(ws[w].copy.cand)
    <3>1. PICK w \in Workers : /\ Node(w) = "persist_draft" /\ ws[w].pc = "running"
                               /\ draft' = Content(ws[w].copy.cand)
      BY <2>4
    <3>2. ws[w].copy.cand = run.cand /\ ws[w].pc \in InSession /\ ws[w].at \in 1..Len(PlanSequence)
      BY <1>1, <3>1 DEF Synced, InNode, InSession, TypeInv, TypeOK, SessionOK
    <3>3. "quality_gate" \in Passed(w)
      BY <3>1, <3>2, RequiredNodes, BeforeLemma
    <3>4. Judged(Content(run.cand))
      BY <3>2, <3>3 DEF GateInv, GatePassed
    <3> QED BY <2>2, <3>1, <3>2, <3>4
  <2> QED BY <1>1, <2>3, <2>4, DraftStep
<1> QED BY <1>1, <1>2, <1>3, <1>4, <1>5, <1>6 DEF GateInv

(* A new run has no candidates and no draft. *)
LEMMA GateInit == Init => GateInv
<1> SUFFICES ASSUME Init PROVE GateInv
  OBVIOUS
<1>1. \A w \in Workers : ws[w].pc = "idle"
  BY DEF Init, Idle
<1>2. Synced /\ InputFresh /\ GatePassed
  BY <1>1 DEF Synced, InputFresh, GatePassed, InSession, InNode
<1>3. Filled /\ DraftIsTheGatedOne
  BY DEF Init, Done, Filled, DraftIsTheGatedOne
<1> QED BY <1>2, <1>3, WholeInit DEF GateInv

(* A handler finds what it reads: what its predecessors are done with. *)
LEMMA InputsFound ==
  ASSUME GateInv
  PROVE  InputsPresent
<1>1. SUFFICES ASSUME NEW w \in Workers, ws[w].pc = "running", NEW k \in Needs(Node(w))
               PROVE  ws[w].copy.cand[k] # None
  BY DEF InputsPresent
<1>2. ws[w].pc \in InNode /\ ws[w].pc \in InSession /\ ws[w].at \in 1..Len(PlanSequence)
  BY <1>1 DEF InNode, InSession, GateInv, WholeInv, TypeInv, TypeOK, SessionOK
<1>3. Node(w) \in Nodes
  BY <1>2, NodeLemma
<1>4. PICK n : n = Node(w)
  OBVIOUS
<1>5. PICK m \in Nodes : Position(m) < Position(n) /\ OutputKey(m) = k /\ OutputKey(m) # None
  BY <1>1, <1>3, <1>4, NeedsLemma
<1>6. Done(m)
  <2>1. m \in Passed(w)
    BY <1>2, <1>4, <1>5, BeforeLemma
  <2> QED BY <1>2, <2>1 DEF GateInv, WholeInv, Progress
<1>7. run.cand[k] # None
  BY <1>5, <1>6 DEF GateInv, Filled
<1> QED BY <1>2, <1>7 DEF GateInv, Synced

(* With one worker a session's copy of the candidates never differs from the   *)
(* row's, so that what was judged, what was memoised and what is persisted are *)
(* the same.                                                                   *)
THEOREM GateInvariant == ASSUME OneWorker PROVE Spec => []GateInv
<1>1. GateInv /\ [Next]_vars => GateInv'
  BY GateStep
<1> QED BY <1>1, GateInit, PTL DEF Spec

(* With one worker at a time, whatever crashes and is redelivered, the draft is *)
(* the very content that a completed quality_gate step judged.                  *)
THEOREM DraftIsTheJudgedContent == ASSUME OneWorker PROVE Spec => []DraftIsTheGatedOne
<1>1. GateInv => DraftIsTheGatedOne
  BY DEF GateInv
<1> QED BY <1>1, GateInvariant, PTL

(* With one worker at a time a handler that starts finds every candidate it  *)
(* reads: a step skipped as completed has left its result in candidate_data. *)
THEOREM HandlersFindTheirInputs == ASSUME OneWorker PROVE Spec => []InputsPresent
<1>1. GateInv => InputsPresent
  BY InputsFound
<1> QED BY <1>1, GateInvariant, PTL

-----------------------------------------------------------------------------
(* Questions and jobs: the run waits for its user while a required question is *)
(* open, and has a job to go on with once none is.                             *)

StillOpen(q) == questions[q] # None /\ questions[q].status = "open"
Answered(row) == row # None /\ row.status = "answered"
Live(k) == jobs[k].status \in {"queued", "claimed"}

(* Questions come of the first nodes, which are done by then. *)
AskedAfter ==
  \A q \in Questions, n \in Nodes \cap {"validate_request", "detect_gaps"} :
    questions[q] # None => Done(n)

(* While a required question is open no session gets past the nodes that ask: it   *)
(* finds the first ones memoised and stops to wait.  Its copy has the status of    *)
(* the row, unless the row was cancelled or the answer it waits for came meanwhile. *)
SessionOrder(w) ==
  /\ RequiredOpen /\ ws[w].pc \in InSession =>
       \/ ws[w].pc \in {"entering", "checkpointed"} /\ Node(w) \in {"validate_request", "detect_gaps"}
       \/ ws[w].pc = "checkpointed" /\ Node(w) = "analyze_project"
       \/ ws[w].pc = "waiting"
  /\ ws[w].pc \in InNode =>
       \/ ws[w].copy.status = run.status
       \/ run.status = "cancelled"
       \/ /\ run.status = "queued" /\ ws[w].copy.status = "waiting_for_user"
          /\ ws[w].pc \in {"checkpointed", "waiting"}
  /\ ws[w].pc = "running" => ws[w].copy.status = "running"
  /\ ws[w].pc \in InSession => run.status \notin {"failed", "completed"}
  /\ ws[w].pc = "waiting" => RequiredOpen \/ ws[w].copy.status = "waiting_for_user"

(* A queued run has no open required question, one that waits has; and only a *)
(* run flagged so is cancelled.                                               *)
RowOrder ==
  /\ run.status = "queued" => ~RequiredOpen
  /\ run.status = "waiting_for_user" => RequiredOpen
  /\ run.status = "cancelled" => run.cancel

(* What an answer request has read is no newer than the questions: the required *)
(* ones opened since a queued run was read it has not seen, and while a run that *)
(* waited is answered the questions stay as they were read.                     *)
RequestOrder ==
  answering # None =>
    /\ \A q \in Questions :
         /\ answering.questions[q] # None => questions[q] # None
         /\ Answered(answering.questions[q]) => Answered(questions[q])
    /\ answering.status = "queued" =>
         \A q \in Required : StillOpen(q) => answering.questions[q] = None
    /\ answering.status = "waiting_for_user" =>
         /\ RequiredOpen /\ answering.questions = questions
         /\ run.status \in {"waiting_for_user", "cancelled", "failed"}
         /\ \A w \in Workers : ws[w].pc \in InNode => ws[w].copy.status = "waiting_for_user"

(* The session is done with a run that goes on. *)
Behind(w) ==
  \/ ws[w].pc = "closing" /\ run.status \in {"queued", "running"}
  \/ /\ ws[w].pc \in {"checkpointed", "waiting"} /\ run.status = "queued"
     /\ ws[w].copy.status = "waiting_for_user"

(* Until the run is cancelled a session holds the claim of its job, a run that *)
(* is queued or running has a job, and one that the session is done with has   *)
(* another.                                                                    *)
JobsGoOn ==
  /\ run.status \in {"queued", "running"} => LiveJob
  /\ \A w \in Workers :
       /\ ws[w].pc # "idle" => jobs[ws[w].job].status = "claimed"
       /\ ws[w].pc # "idle" => jobs[ws[w].job].owner = w
       /\ Behind(w) => \E k \in JobKeys : k # ws[w].job /\ Live(k)
JobOrder == ~run.cancel => JobsGoOn

(* A job's key says what has been answered. *)
KeysAnswered ==
  \A k \in JobKeys : jobs[k].status # "absent" =>
    \A q \in Questions : k[q] # None => Answered(questions[q])

QueueInv ==
  /\ WholeInv /\ AskedAfter
  /\ \A w \in Workers : SessionOrder(w)
  /\ RowOrder /\ RequestOrder /\ JobOrder /\ KeysAnswered

-----------------------------------------------------------------------------
(* The first nodes of a run. *)
LEMMA FirstNodes ==
  ASSUME NEW i \in 1..Len(PlanSequence), "detect_gaps" \in Nodes,
         i = 1 \/ PlanSequence[i - 1] = "validate_request"
  PROVE  PlanSequence[i] \in {"validate_request", "detect_gaps"}
<1>1. PICK k \in 1..Len(PlanSequence) : PlanSequence[k] = "detect_gaps"
  BY DEF Nodes
<1>2. CASE k = i
  BY <1>1, <1>2
<1>3. CASE k < i
  <2>1. i # 1 /\ i - 1 \in 1..Len(PlanSequence)
    <3>1. Len(PlanSequence) \in Nat /\ k \in 1..Len(PlanSequence) /\ i \in 1..Len(PlanSequence)
      BY <1>1, NodesLemma
    <3> QED BY <1>3, <3>1
  <2>2. PlanSequence[i - 1] = "validate_request" /\ k # i - 1
    BY <1>1, <2>1
  <2>3. Position(PlanSequence[i - 1]) = 1 /\ Position(PlanSequence[k]) = 2
    BY <1>1, <2>2, PlacesLemma
  <2>4. PICK j \in 1..Len(PlanSequence) : j = i - 1
    BY <2>1
  <2>5. ~(k < j)
    BY <2>3, <2>4, SequenceAssumption
  <2> QED BY <1>1, <1>3, <2>1, <2>2, <2>4, <2>5, NodesLemma
<1>4. CASE i < k
  <2>1. Position(PlanSequence[i]) < 2
    BY <1>1, <1>4, SequenceAssumption, PlacesLemma
  <2>2. PICK p \in 1..17 : PlanSequence[i] = PLANNING_SEQUENCE[p] /\ Position(PlanSequence[i]) = p
    BY NodesLemma, NameLemma
  <2>3. p = 1
    BY <2>1, <2>2
  <2> QED BY <2>2, <2>3 DEF PLANNING_SEQUENCE
<1> QED BY <1>1, <1>2, <1>3, <1>4, NodesLemma

(* An open question has been asked, by a node the run has. *)
LEMMA OpenLemma ==
  ASSUME AskedAfter, RequiredOpen
  PROVE  /\ "detect_gaps" \in Nodes /\ Done("detect_gaps")
         /\ "validate_request" \in Nodes => Done("validate_request")
<1>1. PICK q \in Required : questions[q] # None
  BY DEF RequiredOpen
<1>2. q \in Questions /\ AskedBy[q] \in Nodes \cap {"detect_gaps", "analyze_project"}
  BY QuestionAssumption
<1>3. "detect_gaps" \in Nodes
  BY <1>2, SequenceAssumption
<1> QED BY <1>1, <1>2, <1>3 DEF AskedAfter

(* The first two nodes have one input, so that a second session finds them done. *)
LEMMA FirstMemo ==
  ASSUME TypeInv, NEW n \in Nodes, n \in {"validate_request", "detect_gaps"}, Done(n)
  PROVE  Memoised(n, Input(n, run.cand))
<1>1. DOMAIN steps[n] = 1..Len(steps[n]) /\ \A i \in 1..Len(steps[n]) : steps[n][i] \in StepRow(n)
  BY RowsLemma DEF TypeInv, TypeOK, StepsOK
<1>2. PICK i \in 1..Len(steps[n]) : steps[n][i].status = "completed"
  BY <1>1 DEF Done
<1>3. InputKeys(n) = {} /\ FactsOf(n) = {None}
  BY DEF InputKeys, FactsOf
<1>4. Inputs(n) = [cand : [{} -> AnyValue], facts : {None}]
  BY <1>3 DEF Inputs
<1>5. Input(n, run.cand) = [cand |-> [k \in {} |-> run.cand[k]], facts |-> None]
  BY <1>3 DEF Input
<1>6. ASSUME NEW f \in [{} -> AnyValue] PROVE f = [k \in {} |-> run.cand[k]]
  <2>1. f = [k \in {} |-> f[k]]
    OBVIOUS
  <2>2. [k \in {} |-> f[k]] = [k \in {} |-> run.cand[k]]
    OBVIOUS
  <2> QED BY <2>1, <2>2
<1>7. steps[n][i].input = Input(n, run.cand)
  <2>1. steps[n][i].input \in Inputs(n)
    BY <1>1 DEF StepRow
  <2>2. PICK f \in [{} -> AnyValue] : steps[n][i].input = [cand |-> f, facts |-> None]
    BY <1>4, <2>1
  <2>3. f = [k \in {} |-> run.cand[k]]
    BY <1>6
  <2> QED BY <1>5, <2>2, <2>3
<1>8. steps[n][i] = [status |-> "completed", input |-> Input(n, run.cand)]
  BY <1>1, <1>2, <1>7 DEF StepRow
<1> QED BY <1>1, <1>8 DEF Memoised

-----------------------------------------------------------------------------
(* The steps of a session that leave the questions, the jobs and the requests *)
LEMMA QuietStep ==
  ASSUME QueueInv, OneWorker, [Next]_vars, NEW w \in Workers,
         questions' = questions, jobs' = jobs, answering' = answering, run'.cancel = run.cancel,
         ws[w].pc # "idle", ws'[w].job = ws[w].job,
         SessionOrder(w)', RowOrder',
         answering # None /\ answering.status = "waiting_for_user" =>
           /\ run'.status \in {"waiting_for_user", "cancelled", "failed"}
           /\ ws'[w].pc \in InNode => ws'[w].copy.status = "waiting_for_user",
         ~run.cancel /\ Behind(w)' => Behind(w)
  PROVE  QueueInv'
<1>1. WholeInv' /\ \A n \in Nodes : Done(n) => Done(n)'
  BY WholeStep, TypeStep, DoneLemma DEF QueueInv, WholeInv, TypeInv, TypeOK
<1>2. AskedAfter'
  BY <1>1 DEF QueueInv, AskedAfter
<1>3. \A v \in Workers : SessionOrder(v)'
  BY DEF OneWorker
<1>4. RequestOrder'
  <2>1. RequiredOpen' = RequiredOpen /\ \A q : StillOpen(q)' = StillOpen(q)
    BY DEF RequiredOpen, StillOpen
  <2>2. \A v \in Workers : v = w
    BY DEF OneWorker
  <2> QED BY <2>1, <2>2 DEF QueueInv, RequestOrder, Answered
<1>5. JobOrder'
  <2>1. SUFFICES ASSUME ~run.cancel PROVE JobsGoOn'
    BY DEF JobOrder
  <2>2. /\ jobs[ws[w].job].status = "claimed" /\ jobs[ws[w].job].owner = w
        /\ Behind(w) => \E k \in JobKeys : k # ws[w].job /\ Live(k)
    BY <2>1 DEF QueueInv, JobOrder, JobsGoOn
  <2>3. ws[w].job \in JobKeys
    BY DEF QueueInv, WholeInv, TypeInv, TypeOK, SessionOK
  <2>4. LiveJob'
    BY <2>2, <2>3 DEF LiveJob
  <2>5. \A v \in Workers : v = w
    BY DEF OneWorker
  <2>6. Behind(w)' => \E k \in JobKeys : k # ws'[w].job /\ Live(k)'
    BY <2>1, <2>2 DEF Live
  <2> QED BY <2>1, <2>2, <2>4, <2>5, <2>6 DEF JobsGoOn
<1>6. KeysAnswered'
  BY DEF QueueInv, KeysAnswered, Answered
<1> QED BY <1>1, <1>2, <1>3, <1>4, <1>5, <1>6 DEF QueueInv

(* The job, the copy and the row's status after the updates of a session. *)
LEMMA RowFacts ==
  ASSUME QueueInv, NEW w \in Workers
  PROVE  /\ TypeInv /\ run \in RunRow /\ ws[w] \in Session /\ ws \in [Workers -> Session]
         /\ SessionOrder(w) /\ RowOrder
         /\ ws[w].pc \in InNode => ws[w].copy \in RunRow
         /\ ws[w].pc \in InSession => ws[w].at \in 1..Len(PlanSequence)
         /\ RequiredOpen => /\ "detect_gaps" \in Nodes
                            /\ \A n \in Nodes \cap {"validate_request", "detect_gaps"} : Done(n)
BY OpenLemma DEF QueueInv, WholeInv, TypeInv, TypeOK, SessionOK

(* A session opens a run: it starts at a node that asks, or before one. *)
LEMMA OpenQueue ==
  ASSUME QueueInv, OneWorker, [Next]_vars, NEW w \in Workers, Open(w)
  PROVE  QueueInv'
<1>1. ws[w] \in Session /\ ws \in [Workers -> Session] /\ run' = run /\ questions' = questions
        /\ jobs' = jobs /\ answering' = answering /\ ws[w].pc = "opening"
  BY RowFacts DEF Open
<1>2. ws'[w].job = ws[w].job
        /\ \/ ws'[w].pc = "closing" /\ run.status \in Ended
           \/ ws'[w].pc = "entering" /\ ws'[w].at = 1 /\ run.status \notin Ended
  BY <1>1 DEF Open, Session
<1>3. RequiredOpen' = RequiredOpen
  BY <1>1 DEF RequiredOpen
<1>4. ws'[w].pc = "entering" /\ RequiredOpen => Node(w)' \in {"validate_request", "detect_gaps"}
  <2>1. SUFFICES ASSUME ws'[w].pc = "entering", RequiredOpen
                 PROVE  PlanSequence[1] \in {"validate_request", "detect_gaps"}
    BY <1>2 DEF Node
  <2>2. "detect_gaps" \in Nodes
    BY <2>1, RowFacts
  <2>3. 1 \in 1..Len(PlanSequence)
    <3>1. PICK k \in 1..Len(PlanSequence) : PlanSequence[k] = "detect_gaps"
      BY <2>2 DEF Nodes
    <3> QED BY <3>1, NodesLemma
  <2> QED BY <2>2, <2>3, FirstNodes
<1>5. SessionOrder(w)'
  BY <1>1, <1>2, <1>3, <1>4 DEF SessionOrder, InSession, InNode, Ended
<1>6. RowOrder'
  BY <1>1, <1>3, RowFacts DEF RowOrder
<1>7. answering # None /\ answering.status = "waiting_for_user" =>
        run'.status \in {"waiting_for_user", "cancelled", "failed"}
  BY <1>1 DEF QueueInv, RequestOrder
<1>8. ~Behind(w)' /\ ws'[w].pc \notin InNode
  BY <1>1, <1>2 DEF Behind, Ended, InNode
<1> QED BY <1>1, <1>2, <1>5, <1>6, <1>7, <1>8, QuietStep

(* A session that finds the run cancelled, or its draft taken, leaves it. *)
LEMMA LeaveQueue ==
  ASSUME QueueInv, OneWorker, [Next]_vars, NEW w \in Workers,
         EnterCancelled(w) \/ DraftConflict(w)
  PROVE  QueueInv'
<1>1. /\ ws[w] \in Session /\ ws \in [Workers -> Session] /\ run \in RunRow
      /\ questions' = questions /\ jobs' = jobs /\ answering' = answering
      /\ ws[w].pc \in {"entering", "running"}
      /\ \/ run' = run
         \/ run.cancel /\ run' = [run EXCEPT !.status = "cancelled"]
  BY RowFacts DEF EnterCancelled, DraftConflict, Running
<1>2. ws'[w].job = ws[w].job /\ ws'[w].pc \in {"closing", "raised"}
        /\ (ws'[w].pc = "closing" => run.cancel)
  BY <1>1 DEF EnterCancelled, DraftConflict, Session
<1>3. RequiredOpen' = RequiredOpen
  BY <1>1 DEF RequiredOpen
<1>4. run'.cancel = run.cancel /\ (run'.status = run.status \/ (run.cancel /\ run'.status = "cancelled"))
  BY <1>1 DEF RunRow
<1>5. SessionOrder(w)'
  BY <1>2 DEF SessionOrder, InSession, InNode
<1>6. RowOrder'
  BY <1>3, <1>4, RowFacts DEF RowOrder
<1>7. answering # None /\ answering.status = "waiting_for_user" =>
        run'.status \in {"waiting_for_user", "cancelled", "failed"}
  BY <1>4 DEF QueueInv, RequestOrder
<1>8. (~run.cancel => ~Behind(w)') /\ ws'[w].pc \notin InNode
  BY <1>2 DEF Behind, InNode
<1> QED BY <1>1, <1>2, <1>4, <1>5, <1>6, <1>7, <1>8, QuietStep

(* A session that finds a required question open is going to wait for it. *)
LEMMA FindQueue ==
  ASSUME QueueInv, OneWorker, [Next]_vars, NEW w \in Workers, FindOpenQuestion(w)
  PROVE  QueueInv'
<1>1. /\ ws[w] \in Session /\ ws \in [Workers -> Session] /\ RequiredOpen
      /\ questions' = questions /\ jobs' = jobs /\ answering' = answering /\ run' = run
      /\ ws[w].pc = "checkpointed"
  BY RowFacts DEF FindOpenQuestion
<1>2. ws'[w].job = ws[w].job /\ ws'[w].pc = "waiting" /\ ws'[w].copy = ws[w].copy
  BY <1>1 DEF FindOpenQuestion, Session
<1>3. RequiredOpen'
  BY <1>1 DEF RequiredOpen
<1>5. SessionOrder(w)'
  BY <1>1, <1>2, <1>3, RowFacts DEF SessionOrder, InSession, InNode
<1>6. RowOrder'
  BY <1>1, <1>3, RowFacts DEF RowOrder
<1>7. answering # None /\ answering.status = "waiting_for_user" =>
        /\ run'.status \in {"waiting_for_user", "cancelled", "failed"}
        /\ ws'[w].copy.status = "waiting_for_user"
  BY <1>1, <1>2 DEF QueueInv, RequestOrder, InNode
<1>8. Behind(w)' => Behind(w)
  BY <1>1, <1>2 DEF Behind
<1> QED BY <1>1, <1>2, <1>5, <1>6, <1>7, <1>8, QuietStep

(* A session writes waiting_for_user: the question it found is still open, or *)
(* its copy already says so and nothing is written.                           *)
LEMMA WaitQueue ==
  ASSUME QueueInv, OneWorker, [Next]_vars, NEW w \in Workers, WaitForUser(w)
  PROVE  QueueInv'
<1> DEFINE new == [ws[w].copy EXCEPT !.status = "waiting_for_user"]
<1>1. /\ ws[w] \in Session /\ ws \in [Workers -> Session] /\ run \in RunRow
      /\ questions' = questions /\ jobs' = jobs /\ answering' = answering
      /\ ws[w].pc = "waiting" /\ ws[w].copy \in RunRow /\ run' = Write(w, new)
  BY RowFacts DEF WaitForUser, InNode
<1>2. ws'[w].job = ws[w].job /\ ws'[w].pc = "closing" /\ ws'[w].copy = ws[w].copy
  BY <1>1 DEF WaitForUser, Session
<1>3. new \in RunRow /\ new.status = "waiting_for_user"
  BY <1>1 DEF RunRow, RunStatus
<1> HIDE DEF new
<1>4. /\ run'.cancel = run.cancel
      /\ run'.status = IF ws[w].copy.status # "waiting_for_user" THEN "waiting_for_user" ELSE run.status
  BY <1>1, <1>3, WriteLemma
<1>5. RequiredOpen' = RequiredOpen
  BY <1>1 DEF RequiredOpen
<1>6. SessionOrder(w) /\ RowOrder
  BY RowFacts
<1>7. SessionOrder(w)'
  BY <1>2 DEF SessionOrder, InSession, InNode
<1>8. RowOrder'
  BY <1>1, <1>4, <1>5, <1>6 DEF SessionOrder, RowOrder
<1>9. answering # None /\ answering.status = "waiting_for_user" =>
        run'.status \in {"waiting_for_user", "cancelled", "failed"}
  BY <1>1, <1>4 DEF QueueInv, RequestOrder, InNode
<1>10. (~run.cancel /\ Behind(w)' => Behind(w)) /\ ws'[w].pc \notin InNode
  BY <1>1, <1>2, <1>4, <1>6 DEF Behind, InNode, SessionOrder, RowOrder
<1> QED BY <1>1, <1>2, <1>4, <1>7, <1>8, <1>9, <1>10, QuietStep

(* A session completes the run: no required question is open at its last node. *)
LEMMA CompleteQueue ==
  ASSUME QueueInv, OneWorker, [Next]_vars, NEW w \in Workers, Complete(w)
  PROVE  QueueInv'
<1> DEFINE new == [ws[w].copy EXCEPT !.status = "completed"]
<1>1. /\ ws[w] \in Session /\ ws \in [Workers -> Session] /\ run \in RunRow
      /\ questions' = questions /\ jobs' = jobs /\ answering' = answering
      /\ ws[w].pc = "checkpointed" /\ Node(w) = "await_approval"
      /\ ws[w].copy \in RunRow /\ run' = Write(w, new)
  BY RowFacts DEF Complete, InNode
<1>2. ws'[w].job = ws[w].job /\ ws'[w].pc = "closing"
  BY <1>1 DEF Complete, Session
<1>3. new \in RunRow /\ new.status = "completed"
  BY <1>1 DEF RunRow, RunStatus
<1> HIDE DEF new
<1>4. /\ run'.cancel = run.cancel
      /\ run'.status = IF ws[w].copy.status # "completed" THEN "completed" ELSE run.status
  BY <1>1, <1>3, WriteLemma
<1>5. RequiredOpen' = RequiredOpen /\ ~RequiredOpen
  BY <1>1, RowFacts DEF RequiredOpen, SessionOrder, InSession, InNode
<1>6. SessionOrder(w) /\ RowOrder
  BY RowFacts
<1>7. SessionOrder(w)'
  BY <1>2 DEF SessionOrder, InSession, InNode
<1>8. RowOrder'
  BY <1>4, <1>5, <1>6 DEF RowOrder
<1>9. ~(answering # None /\ answering.status = "waiting_for_user")
  BY <1>5 DEF QueueInv, RequestOrder
<1>10. ~run.cancel => ~Behind(w)'
  BY <1>1, <1>2, <1>4, <1>6 DEF Behind, InNode, InSession, SessionOrder, RowOrder
<1> QED BY <1>1, <1>2, <1>4, <1>7, <1>8, <1>9, <1>10, QuietStep

(* A session goes on to the next node: a required question is open only before *)
(* detect_gaps.                                                                *)
LEMMA AdvanceQueue ==
  ASSUME QueueInv, OneWorker, [Next]_vars, NEW w \in Workers, Advance(w)
  PROVE  QueueInv'
<1>1. /\ ws[w] \in Session /\ ws \in [Workers -> Session]
      /\ questions' = questions /\ jobs' = jobs /\ answering' = answering /\ run' = run
      /\ ws[w].pc = "checkpointed" /\ ws[w].at \in 1..Len(PlanSequence)
      /\ PlanSequence[ws[w].at] # "await_approval"
      /\ RequiredOpen => Node(w) \notin {"detect_gaps", "analyze_project"}
  BY RowFacts DEF Advance, Node, InSession, InNode
<1>2. ws'[w].job = ws[w].job /\ ws'[w].pc = "entering" /\ ws'[w].at = ws[w].at + 1
  BY <1>1 DEF Advance, Session
<1>3. RequiredOpen' = RequiredOpen
  BY <1>1 DEF RequiredOpen
<1>4. RequiredOpen => Node(w)' \in {"validate_request", "detect_gaps"}
  <2>1. SUFFICES ASSUME RequiredOpen
                 PROVE  PlanSequence[ws[w].at + 1] \in {"validate_request", "detect_gaps"}
    BY <1>2 DEF Node
  <2>2. "detect_gaps" \in Nodes /\ Node(w) = "validate_request"
    BY <1>1, <2>1, RowFacts DEF SessionOrder, InSession, InNode
  <2>3. PICK i \in 1..Len(PlanSequence) : i = ws[w].at + 1
    BY <1>1, LastLemma
  <2>4. PlanSequence[i - 1] = "validate_request"
    BY <1>1, <2>2, <2>3, NodesLemma DEF Node
  <2> QED BY <2>2, <2>3, <2>4, FirstNodes
<1>5. SessionOrder(w)'
  BY <1>1, <1>2, <1>3, <1>4, RowFacts DEF SessionOrder, InSession, InNode
<1>6. RowOrder'
  BY <1>1, <1>3, RowFacts DEF RowOrder
<1>7. answering # None /\ answering.status = "waiting_for_user" =>
        run'.status \in {"waiting_for_user", "cancelled", "failed"}
  BY <1>1 DEF QueueInv, RequestOrder
<1>8. ~Behind(w)' /\ ws'[w].pc \notin InNode
  BY <1>2 DEF Behind, InNode
<1> QED BY <1>1, <1>2, <1>5, <1>6, <1>7, <1>8, QuietStep

(* A session enters a node: while a required question is open it finds it done. *)
LEMMA EnterQueue ==
  ASSUME QueueInv, OneWorker, [Next]_vars, NEW w \in Workers, Enter(w)
  PROVE  QueueInv'
<1>1. /\ run \in RunRow /\ ~run.cancel
      /\ questions' = questions /\ jobs' = jobs /\ answering' = answering /\ run' = run
      /\ ws[w].pc = "entering" /\ ws[w].at \in 1..Len(PlanSequence)
  BY RowFacts DEF Enter, InSession
<1>2. /\ ws'[w].job = ws[w].job /\ ws'[w].at = ws[w].at /\ ws'[w].copy = run
      /\ \/ ws'[w].pc = "checkpointed"
         \/ ws'[w].pc = "starting" /\ ~Memoised(Node(w), Input(Node(w), run.cand))
  BY EnterTypes DEF QueueInv, WholeInv, TypeInv
<1>3. RequiredOpen' = RequiredOpen /\ Node(w)' = Node(w)
  BY <1>1, <1>2 DEF RequiredOpen, Node
<1>4. RequiredOpen => ws'[w].pc = "checkpointed" /\ Node(w) \in {"validate_request", "detect_gaps"}
  <2>1. SUFFICES ASSUME RequiredOpen
                 PROVE  ws'[w].pc = "checkpointed" /\ Node(w) \in {"validate_request", "detect_gaps"}
    OBVIOUS
  <2>2. Node(w) \in {"validate_request", "detect_gaps"} /\ Node(w) \in Nodes
    BY <1>1, <2>1, RowFacts, NodeLemma DEF SessionOrder, InSession
  <2>3. PICK n \in Nodes : n = Node(w)
    BY <2>2
  <2>4. Done(n)
    BY <2>1, <2>2, <2>3, RowFacts
  <2>5. Memoised(n, Input(n, run.cand))
    BY <2>2, <2>3, <2>4, RowFacts, FirstMemo
  <2> QED BY <1>2, <2>2, <2>3, <2>5
<1>5. SessionOrder(w)'
  BY <1>1, <1>2, <1>3, <1>4, RowFacts DEF SessionOrder, InSession, InNode
<1>6. RowOrder'
  BY <1>1, <1>3, RowFacts DEF RowOrder
<1>7. answering # None /\ answering.status = "waiting_for_user" =>
        run'.status = "waiting_for_user"
  BY <1>1, RowFacts DEF QueueInv, RequestOrder, SessionOrder, RowOrder, InSession
<1>8. ~Behind(w)'
  BY <1>1, <1>2 DEF Behind
<1> QED BY <1>1, <1>2, <1>5, <1>6, <1>7, <1>8, QuietStep

(* An attempt starts, and the row says running, only when no required question *)
(* is open.                                                                    *)
LEMMA StartQueue ==
  ASSUME QueueInv, OneWorker, [Next]_vars, NEW w \in Workers, StartAttempt(w)
  PROVE  QueueInv'
<1> DEFINE new == [ws[w].copy EXCEPT !.status = "running"]
<1>1. /\ run \in RunRow
      /\ questions' = questions /\ jobs' = jobs /\ answering' = answering
      /\ ws[w].pc = "starting" /\ ws[w].copy \in RunRow /\ ws'[w].job = ws[w].job
      /\ \/ ws'[w].pc = "raised" /\ run' = run
         \/ ws'[w].pc = "running" /\ ws'[w].copy = new /\ run' = Write(w, new)
  BY RowFacts, StartTypes DEF StartAttempt, InNode, TypeInv
<1>2. new \in RunRow /\ new.status = "running"
  BY <1>1 DEF RunRow, RunStatus
<1> HIDE DEF new
<1>3. /\ run'.cancel = run.cancel
      /\ \/ ws'[w].pc = "raised" /\ run'.status = run.status
         \/ /\ ws'[w].pc = "running" /\ ws'[w].copy.status = "running"
            /\ run'.status = IF ws[w].copy.status # "running" THEN "running" ELSE run.status
  BY <1>1, <1>2, WriteLemma
<1>4. RequiredOpen' = RequiredOpen /\ ~RequiredOpen
  BY <1>1, RowFacts DEF RequiredOpen, SessionOrder, InSession, InNode
<1>5. SessionOrder(w) /\ RowOrder
  BY RowFacts
<1>6. SessionOrder(w)'
  BY <1>1, <1>3, <1>4, <1>5 DEF SessionOrder, InSession, InNode
<1>7. RowOrder'
  BY <1>1, <1>3, <1>4, <1>5 DEF RowOrder, SessionOrder, InNode
<1>8. ~(answering # None /\ answering.status = "waiting_for_user")
  BY <1>4 DEF QueueInv, RequestOrder
<1>9. ~Behind(w)'
  BY <1>3 DEF Behind
<1> QED BY <1>1, <1>3, <1>6, <1>7, <1>8, <1>9, QuietStep

(* A failing attempt leaves the run failed or partial, or tries again. *)
LEMMA FailQueue ==
  ASSUME QueueInv, OneWorker, [Next]_vars, NEW w \in Workers, Fails(w)
  PROVE  QueueInv'
<1>1. /\ run \in RunRow /\ questions' = questions /\ jobs' = jobs
      /\ ws[w].pc = "running" /\ ws[w].copy \in RunRow /\ ws'[w].job = ws[w].job
  BY RowFacts, FailureTypes DEF Fails, InNode, TypeInv
<1>2. answering' = answering
  BY DEF Fails, RetryNode, FailNode, NodeRaises
<1>3. \E new \in RunRow :
        /\ run' = Write(w, new)
        /\ \/ ws'[w].pc = "starting" /\ ws'[w].copy = ws[w].copy /\ new = ws[w].copy
           \/ ws'[w].pc \in {"closing", "raised"} /\ new.status \in {"failed", "partial"}
  <2>1. /\ [ws[w].copy EXCEPT !.status = "failed"] \in RunRow
        /\ [ws[w].copy EXCEPT !.status = "failed"].status = "failed"
    BY <1>1 DEF RunRow, RunStatus
  <2> QED BY <1>1, <2>1, RowFacts, FailureTypes DEF Fails, TypeInv
<1>4. PICK new \in RunRow :
        /\ run' = Write(w, new)
        /\ \/ ws'[w].pc = "starting" /\ ws'[w].copy = ws[w].copy /\ new = ws[w].copy
           \/ ws'[w].pc \in {"closing", "raised"} /\ new.status \in {"failed", "partial"}
  BY <1>3
<1>5. SessionOrder(w) /\ RowOrder /\ ws[w].copy.status = "running"
  BY <1>1, RowFacts DEF SessionOrder
<1>6. /\ run'.cancel = run.cancel
      /\ \/ ws'[w].pc = "starting" /\ ws'[w].copy = ws[w].copy /\ run'.status = run.status
         \/ ws'[w].pc \in {"closing", "raised"} /\ run'.status \in {"failed", "partial"}
  BY <1>1, <1>4, <1>5, WriteLemma
<1>7. RequiredOpen' = RequiredOpen /\ ~RequiredOpen
  BY <1>1, <1>5 DEF RequiredOpen, SessionOrder, InSession, InNode
<1>8. SessionOrder(w)'
  BY <1>1, <1>5, <1>6, <1>7 DEF SessionOrder, InSession, InNode
<1>9. RowOrder'
  BY <1>5, <1>6, <1>7 DEF RowOrder
<1>10. ~(answering # None /\ answering.status = "waiting_for_user")
  BY <1>7 DEF QueueInv, RequestOrder
<1>11. ~Behind(w)'
  BY <1>6 DEF Behind
<1> QED BY <1>1, <1>2, <1>6, <1>8, <1>9, <1>10, <1>11, QuietStep

-----------------------------------------------------------------------------
(* A success may ask questions, or settle the open ones *)

(* A success opens questions not asked before, or settles open ones; what is *)
(* answered stays.                                                           *)
LEMMA SuccessQuestions ==
  ASSUME TypeInv, NEW w \in Workers, Success(w), NEW q \in Questions
  PROVE  \/ questions'[q] = questions[q]
         \/ /\ questions[q] = None /\ AskedBy[q] = Node(w)
            /\ questions'[q] # None /\ questions'[q].status = "open"
         \/ /\ questions[q] # None /\ questions[q].status = "open"
            /\ questions'[q] # None /\ questions'[q].status # "open"
<1>1. questions \in QuestionMaps
  BY DEF TypeInv, TypeOK
<1>2. CASE ModelNode(w)
  <2>1. PICK asked \in SUBSET {p \in Questions : AskedBy[p] = Node(w)} :
          questions' = [p \in Questions |->
            IF p \in asked /\ questions[p] = None
              THEN [status |-> "open", answer |-> None] ELSE questions[p]]
    BY <1>2 DEF ModelNode
  <2>2. CASE q \in asked /\ questions[q] = None
    <3>1. questions'[q] = [status |-> "open", answer |-> None]
      BY <2>1, <2>2
    <3>2. [status |-> "open", answer |-> None] \in QuestionRow
      BY DEF QuestionRow
    <3>3. questions'[q] # None
      BY <3>1, <3>2, NoneAssumption
    <3> QED BY <2>2, <3>1, <3>3
  <2>3. CASE ~(q \in asked /\ questions[q] = None)
    BY <2>1, <2>3
  <2> QED BY <2>2, <2>3
<1>3. CASE WaitOrAssume(w)
  <2> DEFINE open == {p \in Questions : /\ questions[p] # None /\ questions[p].status = "open"
                                        /\ decisions[p] = None}
  <2>1. questions' = [p \in Questions |->
             IF p \notin open THEN questions[p]
             ELSE [questions[p] EXCEPT !.status =
                     IF p \in Defaulted THEN "assumed" ELSE "dismissed"]]
    BY <1>3 DEF WaitOrAssume
  <2>2. CASE q \in open
    <3>1. questions[q] \in QuestionRow /\ questions[q].status = "open" /\ questions[q] # None
      BY <1>1, <2>2 DEF QuestionMaps
    <3>2. PICK st \in {"assumed", "dismissed"} : questions'[q] = [questions[q] EXCEPT !.status = st]
      BY <2>1, <2>2
    <3>3. questions'[q] \in QuestionRow /\ questions'[q].status = st
      BY <3>1, <3>2 DEF QuestionRow
    <3> QED BY <3>1, <3>2, <3>3, NoneAssumption
  <2>3. CASE q \notin open
    BY <2>1, <2>3
  <2> QED BY <2>2, <2>3
<1>4. CASE PlainNode(w) \/ QualityGate(w) \/ PersistDraft(w)
  BY <1>4 DEF PlainNode, QualityGate, PersistDraft
<1> QED BY <1>2, <1>3, <1>4 DEF Success

(* A success keeps the run running; the questions it opens no request has read. *)
LEMMA SuccessQueue ==
  ASSUME QueueInv, OneWorker, [Next]_vars, NEW w \in Workers, Success(w)
  PROVE  QueueInv'
<1>1. WholeInv' /\ TypeInv' /\ \A n \in Nodes : Done(n) => Done(n)'
  BY WholeStep, TypeStep, DoneLemma DEF QueueInv, WholeInv, TypeInv, TypeOK
<1>2. /\ TypeInv /\ run \in RunRow /\ SessionOrder(w) /\ RowOrder
      /\ ws[w].pc = "running" /\ ws'[w].pc = "checkpointed" /\ jobs' = jobs
      /\ ws'[w].at = ws[w].at /\ ws'[w].job = ws[w].job /\ ws[w].copy \in RunRow
      /\ ws[w].copy.status = "running" /\ ws[w].at \in 1..Len(PlanSequence)
      /\ Node(w) \in Nodes
  BY RowFacts, SuccessTypes DEF InNode, InSession, SessionOrder
<1>3. PICK value : /\ ws'[w].copy = Merged(w, value) /\ Merged(w, value) \in RunRow
                   /\ run' = Write(w, Merged(w, value))
  BY <1>2, SuccessTypes
<1>4. Merged(w, value).status = "running"
  BY <1>2 DEF Merged, RunRow
<1>5. run'.status = run.status /\ run'.cancel = run.cancel /\ ws'[w].copy.status = "running"
  BY <1>2, <1>3, <1>4, WriteLemma
<1>6. ~RequiredOpen /\ run.status \in {"running", "cancelled"}
  BY <1>2 DEF SessionOrder, InSession, InNode
<1>7. answering' = answering
  BY DEF Success, ModelNode, PlainNode, WaitOrAssume, QualityGate, PersistDraft
<1>8. Node(w)' = Node(w)
  BY <1>2 DEF Node
<1>9. \A q \in Questions :
        \/ questions'[q] = questions[q]
        \/ /\ questions[q] = None /\ AskedBy[q] = Node(w)
           /\ questions'[q] # None /\ questions'[q].status = "open"
        \/ /\ questions[q] # None /\ questions[q].status = "open"
           /\ questions'[q] # None /\ questions'[q].status # "open"
  BY <1>2, SuccessQuestions
<1>10. RequiredOpen' => Node(w) \in {"detect_gaps", "analyze_project"}
  <2>1. SUFFICES ASSUME RequiredOpen' PROVE Node(w) \in {"detect_gaps", "analyze_project"}
    OBVIOUS
  <2>2. PICK q \in Required : questions'[q] # None /\ questions'[q].status = "open"
    BY <2>1 DEF RequiredOpen
  <2>3. q \in Questions /\ AskedBy[q] \in {"detect_gaps", "analyze_project"}
    BY QuestionAssumption
  <2>4. questions'[q] # questions[q]
    BY <1>6, <2>2 DEF RequiredOpen
  <2> QED BY <1>9, <2>2, <2>3, <2>4
<1>11. AskedAfter'
  <2>1. SUFFICES ASSUME NEW q \in Questions,
                        NEW n \in Nodes \cap {"validate_request", "detect_gaps"},
                        questions'[q] # None
                 PROVE  Done(n)'
    BY DEF AskedAfter
  <2>2. CASE questions[q] # None
    BY <1>1, <2>1, <2>2 DEF QueueInv, AskedAfter
  <2>3. CASE questions[q] = None
    <3>1. AskedBy[q] = Node(w) /\ Node(w) \in {"detect_gaps", "analyze_project"}
      BY <1>9, <2>1, <2>3, QuestionAssumption
    <3>2. Position("detect_gaps") = 2 /\ Position("analyze_project") = 4 /\ Position("validate_request") = 1
      BY PlacesLemma
    <3>3. PICK m : m = Node(w)
      OBVIOUS
    <3>4. n = m \/ Position(n) < Position(m)
      BY <2>1, <3>1, <3>2, <3>3
    <3>5. n \in Passed(w)'
      <4>1. CASE n = m
        BY <1>2, <1>8, <3>3, <4>1 DEF Passed
      <4>2. CASE Position(n) < Position(m)
        <5>1. n \in Passed(w)
          BY <1>2, <3>3, <4>2, BeforeLemma
        <5> QED BY <1>2, <5>1 DEF Passed
      <4> QED BY <3>4, <4>1, <4>2
    <3> QED BY <1>1, <1>2, <3>5 DEF WholeInv, Progress, InSession, InNode
  <2> QED BY <2>2, <2>3
<1>12. \A v \in Workers : v = w
  BY DEF OneWorker
<1>13. SessionOrder(w)'
  BY <1>2, <1>5, <1>6, <1>8, <1>10 DEF SessionOrder, InSession, InNode
<1>14. RowOrder'
  BY <1>2, <1>5, <1>6 DEF RowOrder
<1>15. RequestOrder'
  <2>1. SUFFICES ASSUME answering # None PROVE RequestOrder'
    BY <1>7 DEF RequestOrder
  <2>2. answering.status # "waiting_for_user"
    BY <1>6, <2>1 DEF QueueInv, RequestOrder
  <2>3. ASSUME NEW q \in Questions
        PROVE  /\ answering.questions[q] # None => questions'[q] # None
               /\ Answered(answering.questions[q]) => Answered(questions'[q])
    <3>1. /\ answering.questions[q] # None => questions[q] # None
          /\ Answered(answering.questions[q]) => Answered(questions[q])
      BY <2>1, <2>3 DEF QueueInv, RequestOrder
    <3> QED BY <1>9, <2>3, <3>1 DEF Answered
  <2>4. ASSUME answering.status = "queued", NEW q \in Required, StillOpen(q)'
        PROVE  answering.questions[q] = None
    <3>1. q \in Questions
      BY QuestionAssumption
    <3>2. questions'[q] # None /\ questions'[q].status = "open"
      BY <2>4 DEF StillOpen
    <3>3. questions'[q] # questions[q]
      BY <1>6, <3>2 DEF RequiredOpen
    <3> QED BY <1>9, <2>1, <3>1, <3>2, <3>3 DEF QueueInv, RequestOrder
  <2> QED BY <1>7, <2>2, <2>3, <2>4 DEF RequestOrder
<1>16. JobOrder'
  <2>1. SUFFICES ASSUME ~run.cancel PROVE JobsGoOn'
    BY <1>5 DEF JobOrder
  <2>2. ~Behind(w)'
    BY <1>2, <1>5 DEF Behind
  <2>3. JobsGoOn
    BY <2>1 DEF QueueInv, JobOrder
  <2>4. LiveJob' = LiveJob
    BY <1>2 DEF LiveJob
  <2> QED BY <1>2, <1>5, <1>12, <2>2, <2>3, <2>4 DEF JobsGoOn
<1>17. KeysAnswered'
  <2>1. \A q \in Questions : Answered(questions[q]) => Answered(questions'[q])
    BY <1>9 DEF Answered
  <2> QED BY <1>2, <2>1 DEF QueueInv, KeysAnswered, Answered
<1> QED BY <1>1, <1>11, <1>12, <1>13, <1>14, <1>15, <1>16, <1>17 DEF QueueInv

-----------------------------------------------------------------------------
(* A worker outside of a session: it claims, finishes, or dies *)

(* What is common to these steps: they move no question and end no session but *)
(* the worker's own.                                                           *)
LEMMA OutsideStep ==
  ASSUME QueueInv, OneWorker, [Next]_vars, NEW w \in Workers,
         questions' = questions, answering' = answering,
         run' \in {run, FailActiveRun(run)}, ws'[w].pc \in {"idle", "opening"},
         JobOrder', KeysAnswered'
  PROVE  QueueInv'
<1>1. WholeInv' /\ \A n \in Nodes : Done(n) => Done(n)'
  BY WholeStep, TypeStep, DoneLemma DEF QueueInv, WholeInv, TypeInv, TypeOK
<1>2. AskedAfter'
  BY <1>1 DEF QueueInv, AskedAfter
<1>3. \A v \in Workers : v = w
  BY DEF OneWorker
<1>4. SessionOrder(w)' /\ ws'[w].pc \notin InNode
  BY DEF SessionOrder, InSession, InNode
<1>5. RequiredOpen' = RequiredOpen /\ \A q : StillOpen(q)' = StillOpen(q)
  BY DEF RequiredOpen, StillOpen
<1>6. run'.status \in {run.status, "failed"} /\ run'.cancel = run.cancel
  BY RowFacts DEF FailActiveRun, RunRow
<1>7. RowOrder'
  BY <1>5, <1>6, RowFacts DEF RowOrder
<1>8. RequestOrder'
  BY <1>3, <1>4, <1>5, <1>6 DEF QueueInv, RequestOrder, Answered
<1> QED BY <1>1, <1>2, <1>3, <1>4, <1>7, <1>8 DEF QueueInv

(* A worker that dies leaves its claim to be delivered again. *)
LEMMA CrashQueue ==
  ASSUME QueueInv, OneWorker, [Next]_vars, NEW w \in Workers, Crash(w)
  PROVE  QueueInv'
<1>1. /\ questions' = questions /\ answering' = answering /\ run' = run /\ jobs' = jobs
      /\ ws'[w].pc = "idle"
  BY CrashTypes DEF Crash, QueueInv, WholeInv, TypeInv
<1>2. \A v \in Workers : v = w
  BY DEF OneWorker
<1>3. JobOrder'
  BY <1>1, <1>2 DEF QueueInv, JobOrder, JobsGoOn, LiveJob, Behind
<1>4. KeysAnswered'
  BY <1>1 DEF QueueInv, KeysAnswered, Answered
<1> QED BY <1>1, <1>3, <1>4, OutsideStep

(* A worker finishes its job: a run that goes on has another, or the job is *)
(* queued again.                                                            *)
LEMMA FinishQueue ==
  ASSUME QueueInv, OneWorker, [Next]_vars, NEW w \in Workers, FinishJob(w)
  PROVE  QueueInv'
<1> DEFINE k == ws[w].job
           status == CASE ws[w].pc = "closing" -> "completed"
                       [] ws[w].pc = "raised" /\ jobs[k].attempts < MaxAttempts -> "queued"
                       [] OTHER -> "failed"
<1>1. /\ questions' = questions /\ answering' = answering /\ ws'[w].pc = "idle"
      /\ ws[w].pc \in {"closing", "raised"} /\ k \in JobKeys
      /\ jobs \in [JobKeys -> JobRow] /\ run \in RunRow
  BY FinishTypes DEF FinishJob, QueueInv, WholeInv, TypeInv, TypeOK, SessionOK
<1>2. \/ jobs' = jobs /\ run' = run /\ (jobs[k].status # "claimed" \/ jobs[k].owner # w)
      \/ /\ jobs[k].status = "claimed"
         /\ jobs' = [jobs EXCEPT ![k] = [@ EXCEPT !.status = status, !.owner = None]]
         /\ run' = IF status = "failed" THEN FailActiveRun(run) ELSE run
  BY DEF FinishJob
<1>3. \A v \in Workers : v = w
  BY DEF OneWorker
<1>4. status \in {"completed", "queued", "failed"}
        /\ (status = "completed" => ws[w].pc = "closing")
  BY <1>1
<1> HIDE DEF k, status
<1>5. \A j \in JobKeys : /\ j # k => jobs'[j] = jobs[j]
                         /\ jobs'[j].status # "absent" => jobs[j].status # "absent"
                         /\ jobs[k].status = "claimed" /\ jobs[k].owner = w => jobs'[k].status = status
  BY <1>1, <1>2 DEF JobRow
<1>6. JobOrder'
  <2>1. SUFFICES ASSUME ~run'.cancel PROVE JobsGoOn'
    BY DEF JobOrder
  <2>2. ~run.cancel
    BY <1>1, <1>2, <2>1 DEF FailActiveRun, RunRow
  <2>3. /\ jobs[k].status = "claimed" /\ jobs[k].owner = w
        /\ Behind(w) => \E j \in JobKeys : j # k /\ Live(j)
    BY <1>1, <2>2 DEF QueueInv, JobOrder, JobsGoOn, k
  <2>4. SUFFICES ASSUME run'.status \in {"queued", "running"} PROVE LiveJob'
    BY <1>1, <1>3 DEF JobsGoOn, Behind
  <2>5. status # "failed" /\ run' = run
    <3>1. status = "failed" => run'.status = FailActiveRun(run).status
      BY <1>2, <2>3
    <3> QED BY <1>1, <1>2, <2>3, <2>4, <3>1 DEF FailActiveRun, ActiveRun, RunRow
  <2>6. CASE status = "queued"
    BY <1>1, <1>5, <2>3, <2>6 DEF LiveJob
  <2>7. CASE status = "completed"
    <3>1. Behind(w)
      BY <1>4, <2>4, <2>5, <2>7 DEF Behind
    <3>2. PICK j \in JobKeys : j # k /\ Live(j)
      BY <2>3, <3>1
    <3> QED BY <1>5, <3>2 DEF LiveJob, Live
  <2> QED BY <1>4, <2>5, <2>6, <2>7
<1>7. KeysAnswered'
  BY <1>1, <1>5 DEF QueueInv, KeysAnswered, Answered
<1>8. run' \in {run, FailActiveRun(run)}
  BY <1>2
<1> QED BY <1>1, <1>6, <1>7, <1>8, OutsideStep

(* A worker claims a job, or fails the exhausted ones and the run with them. *)
LEMMA ClaimQueue ==
  ASSUME QueueInv, OneWorker, [Next]_vars, NEW w \in Workers, ClaimNext(w)
  PROVE  QueueInv'
<1>1. PICK expired \in SUBSET {k \in JobKeys : jobs[k].status = "claimed"} :
        ClaimNext(w)!2!(expired)
  BY DEF ClaimNext
<1> DEFINE exhausted == {k \in expired : jobs[k].attempts >= MaxAttempts}
           reconciled == [k \in JobKeys |->
                            IF k \in exhausted
                              THEN [jobs[k] EXCEPT !.status = "failed", !.owner = None]
                              ELSE jobs[k]]
           ready == {k \in JobKeys : Deliverable(k, expired)}
<1>2. /\ jobs \in [JobKeys -> JobRow] /\ run \in RunRow /\ ws \in [Workers -> Session]
      /\ questions' = questions /\ answering' = answering /\ ws[w].pc = "idle"
      /\ ws'[w].pc \in {"idle", "opening"}
  BY ClaimTypes DEF ClaimNext, QueueInv, WholeInv, TypeInv, TypeOK
<1>3. run' \in {run, FailActiveRun(run)} /\ (exhausted # {} => run' = FailActiveRun(run))
        /\ (exhausted = {} => run' = run)
  BY <1>1
<1>4. FailActiveRun(run).status \notin ActiveRun /\ FailActiveRun(run).cancel = run.cancel
  BY <1>2 DEF FailActiveRun, RunRow, ActiveRun
<1>5. \A v \in Workers : v = w
  BY DEF OneWorker
<1>6. \A k \in JobKeys : /\ reconciled[k].status = "absent" <=> jobs[k].status = "absent"
                         /\ k \in expired => jobs[k].status = "claimed"
  BY <1>2 DEF JobRow
<1>7. CASE exhausted # {} /\ jobs' = reconciled /\ UNCHANGED ws
  <2>1. JobOrder'
    BY <1>2, <1>3, <1>4, <1>5, <1>7 DEF JobOrder, JobsGoOn, Behind, ActiveRun
  <2>2. KeysAnswered'
    <3> HIDE DEF reconciled, exhausted, ready
    <3> QED BY <1>2, <1>6, <1>7 DEF QueueInv, KeysAnswered, Answered
  <2> QED BY <1>2, <1>3, <2>1, <2>2, OutsideStep
<1>8. CASE \E k \in ready :
             /\ jobs' = [reconciled EXCEPT ![k] =
                          [status |-> "claimed", attempts |-> @.attempts + 1, owner |-> w]]
             /\ ws' = [ws EXCEPT ![w] = [Idle EXCEPT !.pc = "opening", !.job = k]]
  <2>1. PICK k \in ready :
             /\ jobs' = [reconciled EXCEPT ![k] =
                          [status |-> "claimed", attempts |-> @.attempts + 1, owner |-> w]]
             /\ ws' = [ws EXCEPT ![w] = [Idle EXCEPT !.pc = "opening", !.job = k]]
    BY <1>8
  <2>2. jobs[k].status \in {"queued", "claimed"} /\ k \in JobKeys
    BY <1>6, <2>1 DEF Deliverable
  <2>3. ws'[w].pc = "opening" /\ ws'[w].job = k
    BY <1>2, <2>1 DEF Idle
  <2>4. reconciled = [j \in JobKeys |-> reconciled[j]]
    OBVIOUS
  <2> HIDE DEF reconciled, exhausted, ready
  <2>5. /\ jobs'[k].status = "claimed" /\ jobs'[k].owner = w
        /\ \A j \in JobKeys : j # k => jobs'[j] = reconciled[j]
    BY <2>1, <2>2, <2>4
  <2>6. JobOrder'
    <3>1. LiveJob'
      BY <2>2, <2>5 DEF LiveJob
    <3> QED BY <1>5, <2>3, <2>5, <3>1 DEF JobOrder, JobsGoOn, Behind
  <2>7. KeysAnswered'
    BY <1>2, <1>6, <2>2, <2>5 DEF QueueInv, KeysAnswered, Answered
  <2> QED BY <1>2, <1>3, <2>6, <2>7, OutsideStep
<1> QED BY <1>1, <1>7, <1>8

-----------------------------------------------------------------------------
(* The owner's requests *)

(* Beginning or refusing an answer, and beginning a cancel, only read. *)
LEMMA ReadQueue ==
  ASSUME QueueInv, OneWorker, [Next]_vars, AnswerBegin \/ AnswerRefused \/ CancelBegin
  PROVE  QueueInv'
<1>1. /\ WholeInv' /\ ws' = ws /\ run' = run /\ questions' = questions /\ jobs' = jobs
      /\ steps' = steps
  BY WholeStep DEF QueueInv, AnswerBegin, AnswerRefused, CancelBegin
<1>2. RequiredOpen' = RequiredOpen /\ \A q : StillOpen(q)' = StillOpen(q)
  BY <1>1 DEF RequiredOpen, StillOpen
<1>3. AskedAfter'
  BY <1>1 DEF QueueInv, AskedAfter, Done
<1>4. \A v \in Workers : SessionOrder(v)'
  BY <1>1, <1>2 DEF QueueInv, SessionOrder, Node
<1>5. RowOrder' /\ JobOrder' /\ KeysAnswered'
  BY <1>1, <1>2 DEF QueueInv, RowOrder, JobOrder, JobsGoOn, LiveJob, Live, Behind, KeysAnswered,
                    Answered
<1>6. RequestOrder'
  <2>1. CASE AnswerBegin
    <3>1. answering' = [status |-> run.status, questions |-> questions]
            /\ run.status \in {"waiting_for_user", "queued"}
      BY <2>1 DEF AnswerBegin
    <3>2. RowOrder
      BY DEF QueueInv
    <3>3. run.status = "queued" => \A q \in Required : ~StillOpen(q)
      BY <3>2 DEF RowOrder, RequiredOpen, StillOpen
    <3>4. run.status = "waiting_for_user" =>
            \A w \in Workers : ws[w].pc \in InNode => ws[w].copy.status = "waiting_for_user"
      BY DEF QueueInv, SessionOrder
    <3> QED BY <1>1, <1>2, <3>1, <3>2, <3>3, <3>4 DEF RequestOrder, RowOrder, Answered
  <2>2. CASE AnswerRefused
    BY <2>2 DEF AnswerRefused, RequestOrder
  <2>3. CASE CancelBegin
    <3>1. answering' = answering
      BY <2>3 DEF CancelBegin
    <3> QED BY <1>1, <1>2, <3>1 DEF QueueInv, RequestOrder, Answered
  <2> QED BY <2>1, <2>2, <2>3
<1> QED BY <1>1, <1>3, <1>4, <1>5, <1>6 DEF QueueInv

(* A cancel flags the run, and what it does to its status and jobs no longer *)
(* matters to it.                                                            *)
LEMMA CancelQueue ==
  ASSUME QueueInv, OneWorker, [Next]_vars, CancelCommit
  PROVE  QueueInv'
<1>1. /\ WholeInv' /\ ws' = ws /\ questions' = questions /\ answering' = answering
      /\ steps' = steps /\ run \in RunRow /\ jobs \in [JobKeys -> JobRow]
  BY WholeStep DEF QueueInv, CancelCommit, WholeInv, TypeInv, TypeOK
<1>2. run'.cancel /\ run'.status \in {run.status, "cancelled"}
  BY <1>1 DEF CancelCommit, RunRow
<1>3. RequiredOpen' = RequiredOpen /\ \A q : StillOpen(q)' = StillOpen(q)
  BY <1>1 DEF RequiredOpen, StillOpen
<1>4. AskedAfter'
  BY <1>1 DEF QueueInv, AskedAfter, Done
<1>5. \A v \in Workers : SessionOrder(v)'
  BY <1>1, <1>2, <1>3 DEF QueueInv, SessionOrder, Node
<1>6. RowOrder'
  BY <1>2, <1>3 DEF QueueInv, RowOrder
<1>7. RequestOrder'
  BY <1>1, <1>2, <1>3 DEF QueueInv, RequestOrder, Answered
<1>8. JobOrder'
  BY <1>2 DEF JobOrder
<1>9. KeysAnswered'
  <2>1. \A k \in JobKeys : jobs'[k].status # "absent" => jobs[k].status # "absent"
    BY <1>1 DEF CancelCommit
  <2> QED BY <1>1, <2>1 DEF QueueInv, KeysAnswered, Answered
<1> QED BY <1>1, <1>4, <1>5, <1>6, <1>7, <1>8, <1>9 DEF QueueInv

(* An answer is committed: it queues the run only when no required question is *)
(* left open, and then with a job no one has used, for what was open is        *)
(* answered in its key.                                                        *)
LEMMA AnswerQueue ==
  ASSUME QueueInv, OneWorker, [Next]_vars, AnswerCommit
  PROVE  QueueInv'
<1>0. PICK given \in [Questions -> Answers \cup {None}] : AnswerCommit!3!(given)
  BY DEF AnswerCommit
<1> DEFINE read == answering.questions
           answered == {q \in Questions : given[q] # None}
           key == [q \in Questions |->
                     IF q \in answered THEN given[q]
                     ELSE IF read[q] # None /\ read[q].status = "answered" THEN read[q].answer
                     ELSE None]
           left == \E q \in Required \ answered : read[q] # None /\ read[q].status = "open"
<1>1. /\ WholeInv' /\ ws' = ws /\ steps' = steps /\ answering # None /\ answering' = None
      /\ run \in RunRow /\ jobs \in [JobKeys -> JobRow]
      /\ answering \in [status : {"waiting_for_user", "queued"}, questions : QuestionMaps]
  BY WholeStep DEF QueueInv, AnswerCommit, WholeInv, TypeInv, TypeOK, RequestOK
<1>2. /\ answered # {} /\ \A q \in answered : read[q] # None
      /\ \A q \in Questions :
           questions'[q] = IF q \in answered THEN [status |-> "answered", answer |-> given[q]]
                                             ELSE questions[q]
  BY <1>0
<1>3. \/ left /\ run' = run /\ jobs' = jobs
      \/ /\ ~left /\ run' = IF answering.status = "queued" THEN run
                                                          ELSE [run EXCEPT !.status = "queued"]
         /\ jobs' = [jobs EXCEPT ![key].status = IF @ = "absent" THEN "queued" ELSE @]
  BY <1>0
<1>4. \A q \in Questions : /\ Answered(read[q]) => Answered(questions[q])
                           /\ read[q] # None => questions[q] # None
  BY <1>1 DEF QueueInv, RequestOrder
<1>5. \A q \in Questions :
        /\ Answered(questions[q]) => Answered(questions'[q])
        /\ q \in answered => Answered(questions'[q]) /\ questions[q] # None
        /\ q \notin answered => questions'[q] = questions[q]
        /\ questions'[q] # None => questions[q] # None
  <2>1. ASSUME NEW q \in answered PROVE Answered(questions'[q])
    <3>1. questions'[q] = [status |-> "answered", answer |-> given[q]]
      BY <1>2, <2>1
    <3>2. [status |-> "answered", answer |-> given[q]] \in QuestionRow
      BY <2>1 DEF QuestionRow
    <3> QED BY <3>1, <3>2, NoneAssumption DEF Answered
  <2> HIDE DEF answered
  <2> QED BY <1>2, <1>4, <2>1
<1>6. key \in JobKeys
  <2>1. \A q \in Questions : read[q] # None => read[q].answer \in Answers \cup {None}
    BY <1>1 DEF QuestionMaps, QuestionRow
  <2> QED BY <2>1 DEF JobKeys
<1>7. \A q \in Questions : key[q] # None => Answered(questions'[q])
  BY <1>4, <1>5 DEF Answered
<1>8. \A q \in Required : q \in Questions
  BY QuestionAssumption
<1>9. \A q \in Required : StillOpen(q)' => StillOpen(q) /\ q \notin answered
  BY <1>5, <1>8 DEF StillOpen, Answered
<1>10. RequiredOpen' => RequiredOpen
  BY <1>9 DEF RequiredOpen, StillOpen
<1>11. AskedAfter'
  <2> HIDE DEF answered
  <2> QED BY <1>1, <1>5 DEF QueueInv, AskedAfter, Done
<1>12. RequestOrder'
  BY <1>1 DEF RequestOrder
<1>13. CASE answering.status = "queued"
  (* The questions still open were not there when the request read them. *)
  <2>1. run' = run
    BY <1>3, <1>13
  <2>2. \A q \in Required : StillOpen(q) => StillOpen(q)'
    <3>1. \A q \in Required : StillOpen(q) => read[q] = None
      BY <1>1, <1>13 DEF QueueInv, RequestOrder
    <3> QED BY <1>2, <1>8, <3>1 DEF StillOpen
  <2>3. RequiredOpen' = RequiredOpen
    BY <1>10, <2>2 DEF RequiredOpen, StillOpen
  <2>4. \A v \in Workers : SessionOrder(v)'
    BY <1>1, <2>1, <2>3 DEF QueueInv, SessionOrder, Node
  <2>5. RowOrder'
    BY <2>1, <2>3 DEF QueueInv, RowOrder
  <2> HIDE DEF key, left
  <2>6. \A k \in JobKeys :
          \/ jobs'[k] = jobs[k]
          \/ /\ k = key /\ jobs[k].status = "absent" /\ jobs'[k].status = "queued"
    BY <1>1, <1>3, <1>6 DEF JobRow
  <2>7. KeysAnswered'
    BY <1>5, <1>7, <2>6 DEF QueueInv, KeysAnswered
  <2>8. JobOrder'
    <3>1. SUFFICES ASSUME ~run.cancel PROVE JobsGoOn'
      BY <2>1 DEF JobOrder
    <3>2. JobsGoOn
      BY <3>1 DEF QueueInv, JobOrder
    <3>3. \A k \in JobKeys : Live(k) => Live(k)'
      BY <2>6 DEF Live
    <3>4. LiveJob => LiveJob'
      BY <3>3 DEF LiveJob, Live
    <3>5. \A v \in Workers : ws[v].pc # "idle" => jobs'[ws[v].job] = jobs[ws[v].job]
      <4>1. \A v \in Workers : ws[v].pc # "idle" => ws[v].job \in JobKeys
        BY DEF QueueInv, WholeInv, TypeInv, TypeOK, SessionOK
      <4> QED BY <2>6, <3>2, <4>1 DEF JobsGoOn
    <3> QED BY <1>1, <2>1, <3>2, <3>3, <3>4, <3>5 DEF JobsGoOn, Behind
  <2> QED BY <1>1, <1>11, <1>12, <2>4, <2>5, <2>7, <2>8 DEF QueueInv
<1>14. CASE answering.status = "waiting_for_user"
  <2>1. /\ RequiredOpen /\ read = questions
        /\ run.status \in {"waiting_for_user", "cancelled", "failed"}
        /\ \A w \in Workers : ws[w].pc \in InNode => ws[w].copy.status = "waiting_for_user"
    BY <1>1, <1>14 DEF QueueInv, RequestOrder
  <2>2. CASE left
    <3>1. run' = run /\ jobs' = jobs
      BY <1>3, <2>2
    <3>2. RequiredOpen'
      <4>1. PICK q \in Required \ answered : read[q] # None /\ read[q].status = "open"
        BY <2>2
      <4>2. questions'[q] = questions[q]
        BY <1>2, <1>8, <4>1
      <4> QED BY <2>1, <4>1, <4>2 DEF RequiredOpen
    <3>3. \A v \in Workers : SessionOrder(v)'
      BY <1>1, <2>1, <3>1, <3>2 DEF QueueInv, SessionOrder, Node
    <3>4. RowOrder'
      BY <2>1, <3>1, <3>2 DEF QueueInv, RowOrder
    <3>5. JobOrder'
      BY <1>1, <3>1 DEF QueueInv, JobOrder, JobsGoOn, LiveJob, Live, Behind
    <3>6. KeysAnswered'
      <4> HIDE DEF answered
      <4> QED BY <1>5, <3>1 DEF QueueInv, KeysAnswered
    <3> QED BY <1>1, <1>11, <1>12, <3>3, <3>4, <3>5, <3>6 DEF QueueInv
  <2>3. CASE ~left
    <3>1. run'.status = "queued" /\ run'.cancel = run.cancel
      BY <1>1, <1>3, <1>14, <2>3 DEF RunRow, RunStatus
    <3>2. ~RequiredOpen'
      BY <1>9, <2>1, <2>3 DEF RequiredOpen, StillOpen
    <3>3. \A v \in Workers : SessionOrder(v)'
      <4>1. SUFFICES ASSUME NEW v \in Workers PROVE SessionOrder(v)'
        OBVIOUS
      <4>2. ws[v].pc \in InNode => ws[v].pc \in {"checkpointed", "waiting"}
                                   /\ ws[v].copy.status = "waiting_for_user"
        BY <2>1 DEF QueueInv, SessionOrder, InSession, InNode
      <4> QED BY <1>1, <3>1, <3>2, <4>2 DEF SessionOrder, InNode
    <3>4. RowOrder'
      BY <3>1, <3>2 DEF RowOrder
    <3>5. jobs[key].status = "absent"
      (* Its answers are new: what was open is answered by it. *)
      <4>1. PICK q \in Required : StillOpen(q)
        BY <2>1 DEF RequiredOpen, StillOpen
      <4>2. q \in answered /\ ~Answered(questions[q])
        BY <1>8, <2>1, <2>3, <4>1 DEF StillOpen, Answered
      <4>3. key[q] # None
        BY <4>2
      <4> QED BY <1>6, <1>8, <4>2, <4>3 DEF QueueInv, KeysAnswered
    <3> HIDE DEF key, left, answered, read
    <3>6. \A k \in JobKeys : /\ k # key => jobs'[k] = jobs[k]
                             /\ jobs'[key].status = "queued"
      BY <1>1, <1>3, <1>6, <2>3, <3>5 DEF JobRow
    <3>7. KeysAnswered'
      BY <1>5, <1>7, <3>6 DEF QueueInv, KeysAnswered
    <3>8. JobOrder'
      <4>1. SUFFICES ASSUME ~run.cancel PROVE JobsGoOn'
        BY <3>1 DEF JobOrder
      <4>2. JobsGoOn
        BY <4>1 DEF QueueInv, JobOrder
      <4>3. PICK k \in JobKeys : k = key
        BY <1>6
      <4>4. LiveJob' /\ Live(k)'
        BY <3>6, <4>3 DEF LiveJob, Live
      <4>5. \A v \in Workers : ws[v].pc # "idle" =>
              key # ws[v].job /\ jobs'[ws[v].job] = jobs[ws[v].job]
        <5>1. \A v \in Workers : ws[v].pc # "idle" => ws[v].job \in JobKeys
          BY DEF QueueInv, WholeInv, TypeInv, TypeOK, SessionOK
        <5> QED BY <3>5, <3>6, <4>2, <5>1 DEF JobsGoOn
      <4>6. \A v \in Workers : Behind(v)' => ws[v].pc # "idle"
        BY <1>1 DEF Behind
      <4> QED BY <1>1, <4>3, <4>2, <4>4, <4>5, <4>6 DEF JobsGoOn
    <3> QED BY <1>1, <1>11, <1>12, <3>3, <3>4, <3>7, <3>8 DEF QueueInv
  <2> QED BY <2>2, <2>3
<1> QED BY <1>1, <1>13, <1>14

-----------------------------------------------------------------------------
(* Every step keeps the invariant. *)
LEMMA QueueStep ==
  ASSUME QueueInv, OneWorker, [Next]_vars
  PROVE  QueueInv'
<1>1. CASE UNCHANGED vars
  <2>1. WholeInv'
    BY WholeStep DEF QueueInv
  <2>2. AskedAfter' /\ RowOrder' /\ KeysAnswered'
    BY <1>1 DEF QueueInv, AskedAfter, Done, RowOrder, RequiredOpen, KeysAnswered, Answered, vars
  <2>3. RequestOrder'
    BY <1>1 DEF QueueInv, RequestOrder, RequiredOpen, StillOpen, Answered, vars
  <2>4. \A v \in Workers : SessionOrder(v)'
    BY <1>1 DEF QueueInv, SessionOrder, RequiredOpen, Node, vars
  <2>5. JobOrder'
    BY <1>1 DEF QueueInv, JobOrder, JobsGoOn, LiveJob, Live, Behind, vars
  <2> QED BY <2>1, <2>2, <2>3, <2>4, <2>5 DEF QueueInv
<1>2. CASE Next
  <2>1. ASSUME NEW w \in Workers, Moves(w)
        PROVE  QueueInv'
    BY <2>1, OpenQueue, LeaveQueue, FindQueue, WaitQueue, CompleteQueue, AdvanceQueue DEF Moves
  <2>2. CASE Request
    BY <2>2, ReadQueue, CancelQueue, AnswerQueue DEF Request
  <2> QED BY <1>2, <2>1, <2>2, StepsLemma, ClaimQueue, FinishQueue, CrashQueue, EnterQueue,
             StartQueue, SuccessQueue, FailQueue
<1> QED BY <1>1, <1>2

(* A new run has its first job and no question. *)
LEMMA QueueInit == Init => QueueInv
<1> SUFFICES ASSUME Init PROVE QueueInv
  OBVIOUS
<1>1. (\A w \in Workers : ws[w].pc = "idle") /\ (\A q \in Questions : questions[q] = None)
  BY DEF Init, Idle
<1>2. ~RequiredOpen
  BY <1>1, QuestionAssumption DEF RequiredOpen
<1>3. AskedAfter /\ RequestOrder
  BY <1>1 DEF Init, AskedAfter, RequestOrder
<1>4. RowOrder /\ \A w \in Workers : SessionOrder(w)
  BY <1>1, <1>2 DEF Init, RowOrder, SessionOrder, InSession, InNode
<1>5. InitialJob \in JobKeys
  BY DEF InitialJob, JobKeys
<1>6. JobOrder
  <2>1. jobs[InitialJob].status = "queued"
    BY <1>5 DEF Init
  <2> QED BY <1>1, <1>5, <2>1 DEF JobOrder, JobsGoOn, LiveJob, Behind
<1>7. KeysAnswered
  BY DEF Init, KeysAnswered, InitialJob
<1> QED BY <1>3, <1>4, <1>6, <1>7, WholeInit DEF QueueInv

(* The questions, the status of the run, the copy a session has of it, the    *)
(* request that answers and the jobs agree at every moment: together they are *)
(* inductive when one worker runs the run.                                    *)
THEOREM QueueInvariant == ASSUME OneWorker PROVE Spec => []QueueInv
<1>1. QueueInv /\ [Next]_vars => QueueInv'
  BY QueueStep
<1> QED BY <1>1, QueueInit, PTL DEF Spec

(* A run that waits for its user has an open required question, although the  *)
(* question is looked for and the status written in two commits and an answer *)
(* may come between them.                                                     *)
THEOREM WaitingRunCanBeAnswered == ASSUME OneWorker PROVE Spec => []WaitingHasQuestion
<1>1. QueueInv => WaitingHasQuestion
  BY DEF QueueInv, RowOrder, WaitingHasQuestion
<1> QED BY <1>1, QueueInvariant, PTL

(* A queued or running run that nobody cancelled is in a worker's hands or has *)
(* a job that will be delivered, whatever crashes and whenever the answers     *)
(* come.                                                                       *)
THEOREM UncancelledRunCanAdvance ==
  ASSUME OneWorker PROVE Spec => [](run.cancel \/ ActiveRunCanAdvance)
<1>1. QueueInv => run.cancel \/ ActiveRunCanAdvance
  BY DEF QueueInv, JobOrder, JobsGoOn, ActiveRunCanAdvance
<1> QED BY <1>1, QueueInvariant, PTL

(* Only the owner's cancel request sets the flag, and nothing clears it. *)
LEMMA FlagStep ==
  ASSUME TypeInv, [Next]_vars
  PROVE  /\ run'.cancel = run.cancel \/ CancelCommit
         /\ cancelling' = cancelling \/ CancelBegin \/ CancelCommit
<1>0. run \in RunRow /\ \A w \in Workers : ws[w].pc \in InNode => ws[w].copy \in RunRow
  BY DEF TypeInv, TypeOK, SessionOK
<1>1. CASE UNCHANGED vars
  BY <1>1 DEF vars
<1>2. CASE Request
  BY <1>0, <1>2 DEF Request, AnswerBegin, AnswerCommit, AnswerRefused, CancelBegin, RunRow
<1>3. ASSUME NEW w \in Workers, NEW new \in RunRow, run' = Write(w, new)
      PROVE  run'.cancel = run.cancel
  BY <1>0, <1>3, WriteLemma
<1>4. ASSUME NEW w \in Workers, NEW status \in RunStatus, ws[w].pc \in InNode,
             run' = Write(w, [ws[w].copy EXCEPT !.status = status])
      PROVE  run'.cancel = run.cancel
  <2>1. [ws[w].copy EXCEPT !.status = status] \in RunRow
    BY <1>0, <1>4 DEF RunRow
  <2> QED BY <1>3, <1>4, <2>1
<1>5. {"running", "waiting_for_user", "completed", "failed"} \subseteq RunStatus
  BY DEF RunStatus
<1>6. ASSUME NEW w \in Workers, ClaimNext(w) \/ FinishJob(w) \/ Crash(w) \/ Enter(w)
      PROVE  run'.cancel = run.cancel /\ cancelling' = cancelling
  <2>1. run' = run \/ run' = FailActiveRun(run)
    BY <1>6 DEF ClaimNext, FinishJob, Crash, Enter
  <2>2. cancelling' = cancelling
    BY <1>6 DEF ClaimNext, FinishJob, Crash, Enter
  <2> QED BY <1>0, <2>1, <2>2 DEF FailActiveRun, RunRow
<1>7. ASSUME NEW w \in Workers, Moves(w)
      PROVE  run'.cancel = run.cancel /\ cancelling' = cancelling
  <2>1. cancelling' = cancelling
    BY <1>7 DEF Moves, Open, EnterCancelled, DraftConflict, FindOpenQuestion, WaitForUser,
                Complete, Advance
  <2>2. CASE Open(w) \/ EnterCancelled(w) \/ DraftConflict(w) \/ FindOpenQuestion(w) \/ Advance(w)
    BY <1>0, <2>1, <2>2 DEF Open, EnterCancelled, DraftConflict, FindOpenQuestion, Advance, RunRow
  <2>3. CASE WaitForUser(w)
    BY <1>4, <1>5, <2>1, <2>3 DEF WaitForUser, InNode
  <2>4. CASE Complete(w)
    BY <1>4, <1>5, <2>1, <2>4 DEF Complete, InNode
  <2> QED BY <1>7, <2>2, <2>3, <2>4 DEF Moves
<1>8. ASSUME NEW w \in Workers, StartAttempt(w)
      PROVE  run'.cancel = run.cancel /\ cancelling' = cancelling
  <2>1. run' = run \/ run' = Write(w, [ws[w].copy EXCEPT !.status = "running"])
    BY <1>8, StartTypes DEF TypeInv
  <2> QED BY <1>4, <1>5, <1>8, <2>1 DEF StartAttempt, InNode
<1>9. ASSUME NEW w \in Workers, Success(w)
      PROVE  run'.cancel = run.cancel /\ cancelling' = cancelling
  <2>1. \E new \in RunRow : run' = Write(w, new)
    BY <1>9, SuccessTypes
  <2>2. cancelling' = cancelling
    BY <1>9 DEF Success, ModelNode, PlainNode, WaitOrAssume, QualityGate, PersistDraft
  <2> QED BY <1>3, <2>1, <2>2
<1>10. ASSUME NEW w \in Workers, Fails(w)
      PROVE  run'.cancel = run.cancel /\ cancelling' = cancelling
  <2>1. ws[w].pc \in InNode /\ ws[w].copy \in RunRow
    BY <1>0, <1>10, FailureTypes DEF Fails, TypeInv, InNode
  <2>2. \/ \E new \in RunRow : run' = Write(w, new)
        \/ run' = Write(w, [ws[w].copy EXCEPT !.status = "failed"])
    BY <1>10, <2>1, FailureTypes DEF Fails, TypeInv
  <2>3. cancelling' = cancelling
    BY <1>10 DEF Fails, RetryNode, FailNode, NodeRaises
  <2> QED BY <1>3, <1>4, <1>5, <2>1, <2>2, <2>3
<1> QED BY <1>1, <1>2, <1>6, <1>7, <1>8, <1>9, <1>10, StepsLemma

(* The property the run checks, where the owner may not cancel. *)
THEOREM ActiveRunIsNotAbandoned ==
  ASSUME OneWorker, MaxCancels = 0 PROVE Spec => []ActiveRunCanAdvance
<1> DEFINE Inv == QueueInv /\ cancelling = None /\ ~run.cancel
<1>1. Init => Inv
  BY QueueInit DEF Init
<1>2. Inv /\ [Next]_vars => Inv'
  <2>1. SUFFICES ASSUME Inv, [Next]_vars PROVE Inv'
    OBVIOUS
  <2>2. ~CancelCommit
    BY <2>1 DEF CancelCommit
  <2>3. ~CancelBegin
    <3>1. spentBounds.cancels \in 0..MaxCancels
      BY <2>1 DEF QueueInv, WholeInv, TypeInv, TypeOK, RequestOK
    <3> QED BY <3>1 DEF CancelBegin
  <2>4. TypeInv /\ QueueInv'
    BY <2>1, QueueStep DEF QueueInv, WholeInv
  <2> QED BY <2>1, <2>2, <2>3, <2>4, FlagStep
<1>3. Inv => ActiveRunCanAdvance
  BY DEF QueueInv, JobOrder, JobsGoOn, ActiveRunCanAdvance
<1> QED BY <1>1, <1>2, <1>3, PTL DEF Spec
=============================================================================
