--------------------------- MODULE JobQueueProofs ---------------------------
(***************************************************************************)
(* What JobQueue guarantees for any number of jobs, runs and workers, any  *)
(* lease, any number of attempts and of crashes: the type invariant, that  *)
(* a claim has one owner, and that a lease protects its claim; and for one *)
(* worker process, that it keeps its claim until it finishes.              *)
(***************************************************************************)
EXTENDS JobQueue, TLAPS

(* A row stays a row under the updates the handlers make. *)
LEMMA RowLemma ==
  ASSUME NEW row \in Row
  PROVE  /\ Cleared(row) \in Row
         /\ \A s \in JobStatus : [Cleared(row) EXCEPT !.status = s] \in Row
         /\ \A d \in Nat : [Cleared(row) EXCEPT !.status = "queued", !.wait = d] \in Row
         /\ \A d \in Nat : [row EXCEPT !.lease = d] \in Row
         /\ [row EXCEPT !.status = "queued"] \in Row
         /\ [row EXCEPT !.lease = Less(@), !.wait = Less(@)] \in Row
<1>1. Cleared(row) \in Row
  BY DEF Row, Cleared
<1>2. ASSUME NEW s \in JobStatus PROVE [Cleared(row) EXCEPT !.status = s] \in Row
  BY <1>1 DEF Row
<1>3. ASSUME NEW d \in Nat
      PROVE  [Cleared(row) EXCEPT !.status = "queued", !.wait = d] \in Row
  BY <1>1 DEF Row, JobStatus
<1>4. ASSUME NEW d \in Nat PROVE [row EXCEPT !.lease = d] \in Row
  BY DEF Row
<1>5. [row EXCEPT !.status = "queued"] \in Row
  BY DEF Row, JobStatus
<1>6. [row EXCEPT !.lease = Less(@), !.wait = Less(@)] \in Row
  <2>1. Less(row.lease) \in Nat /\ Less(row.wait) \in Nat
    BY DEF Row, Less
  <2> QED BY <2>1 DEF Row
<1> QED BY <1>1, <1>2, <1>3, <1>4, <1>5, <1>6

(* Claiming a row that has an attempt left gives a row. *)
LEMMA ClaimRowLemma ==
  ASSUME NEW row \in Row, row.attempts < MaxAttempts, NEW t \in Nat, NEW d \in Nat
  PROVE  Claimed(row, t, d) \in Row
<1>1. row.attempts + 1 \in 0..MaxAttempts
  BY LimitsAssumption DEF Row
<1> QED BY <1>1 DEF Claimed, Row, JobStatus

(* The backoff is a number of seconds. *)
LEMMA BackoffLemma == \A n \in Nat : Backoff(n) \in Nat
<1> SUFFICES ASSUME NEW n \in Nat PROVE Backoff(n) \in Nat
  OBVIOUS
<1>1. CASE n \in 1..6
  <2>1. n = 1 \/ n = 2 \/ n = 3 \/ n = 4 \/ n = 5 \/ n = 6
    BY <1>1
  <2> QED BY <1>1, <2>1 DEF Backoff
<1>2. CASE n \notin 1..6
  BY <1>2 DEF Backoff
<1> QED BY <1>1, <1>2

(* A worker that holds a job holds a row of the table and a token; the others *)
(* hold no token, and no heartbeat is running for them.                       *)
WorkerOK ==
  \A w \in Workers :
    /\ pc[w] \in {"executing", "stopping", "reading", "writing"} => job[w] \in Jobs /\ token[w] # 0
    /\ pc[w] \in {"idle", "claiming"} => token[w] = 0
    /\ beat[w] # "off" => pc[w] \in {"executing", "stopping"}

TypeInv == TypeOK /\ WorkerOK

LEMMA TypeInit == Init => TypeInv
<1> SUFFICES ASSUME Init PROVE TypeInv
  OBVIOUS
<1>1. NoRow \in Row
  BY LimitsAssumption DEF NoRow, Row, JobStatus
<1>2. TypeOK
  BY <1>1, LimitsAssumption DEF Init, TypeOK, RunStatus, PC
<1>3. WorkerOK
  BY DEF Init, WorkerOK
<1> QED BY <1>2, <1>3 DEF TypeInv

(* The end of a claim leaves the worker's part of the state well formed. *)
LEMMA IdleLemma ==
  ASSUME TypeInv, NEW w \in Workers, GoesIdle(w)
  PROVE  /\ pc' \in [Workers -> PC] /\ job' \in [Workers -> Jobs \cup {None}]
         /\ token' \in [Workers -> Nat] /\ beat' \in [Workers -> {"off", "on", "writing"}]
         /\ deadline' \in [Workers -> Nat]
         /\ spent' \in [Workers -> SUBSET Jobs] /\ due' \in [Workers -> SUBSET Jobs]
         /\ seen' \in [Workers -> SUBSET Runs]
         /\ verdict' \in [Workers -> {"complete", "retry", "fail"}]
         /\ WorkerOK'
<1>1. pc' \in [Workers -> PC] /\ job' \in [Workers -> Jobs \cup {None}]
  BY DEF TypeInv, TypeOK, GoesIdle, PC
<1>2. token' \in [Workers -> Nat] /\ beat' \in [Workers -> {"off", "on", "writing"}]
  BY DEF TypeInv, TypeOK, GoesIdle
<1>3. deadline' \in [Workers -> Nat] /\ verdict' \in [Workers -> {"complete", "retry", "fail"}]
  BY DEF TypeInv, TypeOK, GoesIdle
<1>4. /\ spent' \in [Workers -> SUBSET Jobs] /\ due' \in [Workers -> SUBSET Jobs]
      /\ seen' \in [Workers -> SUBSET Runs]
  BY DEF TypeInv, TypeOK, GoesIdle
<1>5. WorkerOK'
  BY DEF TypeInv, TypeOK, WorkerOK, GoesIdle
<1> QED BY <1>1, <1>2, <1>3, <1>4, <1>5

LEMMA TypeNext == TypeInv /\ [Next]_vars => TypeInv'
<1> SUFFICES ASSUME TypeInv, [Next]_vars PROVE TypeInv'
  OBVIOUS
<1> USE DEF TypeInv
<1>1. ASSUME NEW j \in Jobs, Enqueue(j) PROVE TypeInv'
  <2>1. jobs' \in [Jobs -> Row]
    <3>1. [jobs[j] EXCEPT !.status = "queued"] \in Row
      BY RowLemma DEF TypeOK
    <3> QED BY <1>1, <3>1 DEF TypeOK, Enqueue
  <2>2. runs' \in [Runs -> RunStatus]
    BY <1>1 DEF TypeOK, Enqueue, RunStatus
  <2> QED BY <1>1, <2>1, <2>2 DEF TypeOK, WorkerOK, Enqueue, workerVars
<1>2. ASSUME NEW r \in Runs, CancelRun(r) PROVE TypeInv'
  <2>1. jobs' \in [Jobs -> Row]
    <3>1. \A j \in Jobs : [Cleared(jobs[j]) EXCEPT !.status = "cancelled"] \in Row
      BY RowLemma DEF TypeOK, JobStatus
    <3> QED BY <1>2, <3>1 DEF TypeOK, CancelRun
  <2>2. runs' \in [Runs -> RunStatus]
    BY <1>2 DEF TypeOK, CancelRun, RunStatus
  <2> QED BY <1>2, <2>1, <2>2 DEF TypeOK, WorkerOK, CancelRun, workerVars
<1>3. ASSUME Tick PROVE TypeInv'
  <2>1. jobs' \in [Jobs -> Row]
    <3>1. \A j \in Jobs : [jobs[j] EXCEPT !.lease = Less(@), !.wait = Less(@)] \in Row
      BY RowLemma DEF TypeOK
    <3> QED BY <1>3, <3>1 DEF Tick
  <2>2. deadline' \in [Workers -> Nat]
    <3>1. \A n \in Nat : Less(n) \in Nat
      BY DEF Less
    <3> QED BY <1>3, <3>1 DEF TypeOK, Tick
  <2> QED BY <1>3, <2>1, <2>2 DEF TypeOK, WorkerOK, Tick
<1>4. ASSUME NEW w \in Workers, ClaimBegin(w) PROVE TypeInv'
  <2>1. pc' \in [Workers -> PC] /\ deadline' \in [Workers -> Nat]
    BY <1>4, LimitsAssumption DEF TypeOK, ClaimBegin, PC
  <2>2. /\ spent' \in [Workers -> SUBSET Jobs] /\ due' \in [Workers -> SUBSET Jobs]
        /\ seen' \in [Workers -> SUBSET Runs]
    BY <1>4 DEF TypeOK, ClaimBegin
  <2>3. WorkerOK'
    BY <1>4 DEF TypeOK, WorkerOK, ClaimBegin, queueVars
  <2> QED BY <1>4, <2>1, <2>2, <2>3 DEF TypeOK, ClaimBegin, queueVars
<1>5. ASSUME NEW w \in Workers, ClaimCommit(w) PROVE TypeInv'
  <2>1. Reconciled(w) \in [Jobs -> Row]
    <3>1. \A j \in Jobs : [Cleared(jobs[j]) EXCEPT !.status = "failed"] \in Row
      BY RowLemma DEF TypeOK, JobStatus
    <3> QED BY <3>1 DEF TypeOK, Reconciled
  <2>2. runs' \in [Runs -> RunStatus]
    BY <1>5 DEF TypeOK, ClaimCommit, FailedRuns, RunStatus
  <2>3. /\ spent' \in [Workers -> SUBSET Jobs] /\ due' \in [Workers -> SUBSET Jobs]
        /\ seen' \in [Workers -> SUBSET Runs] /\ deadline' \in [Workers -> Nat]
        /\ UNCHANGED <<verdict, crashes>>
    BY <1>5 DEF TypeOK, ClaimCommit
  <2>4. ASSUME jobs' = Reconciled(w), pc' = [pc EXCEPT ![w] = "idle"],
               UNCHANGED <<issued, job, token, beat>>
        PROVE  TypeInv'
    <3>1. pc[w] = "claiming"
      BY <1>5 DEF ClaimCommit
    <3>2. pc' \in [Workers -> PC]
      BY <2>4 DEF TypeOK, PC
    <3>3. WorkerOK'
      BY <2>4, <3>1 DEF TypeOK, WorkerOK
    <3> QED BY <2>1, <2>2, <2>3, <2>4, <3>2, <3>3 DEF TypeOK
  <2>5. ASSUME NEW j \in Jobs, Claimable(j),
               jobs' = [Reconciled(w) EXCEPT ![j] = Claimed(@, issued + 1, deadline[w])],
               issued' = issued + 1, job' = [job EXCEPT ![w] = j],
               token' = [token EXCEPT ![w] = issued + 1], beat' = [beat EXCEPT ![w] = "on"],
               pc' = [pc EXCEPT ![w] = "executing"]
        PROVE  TypeInv'
    <3>1. Reconciled(w)[j].attempts < MaxAttempts
      <4>1. jobs[j] \in Row
        BY DEF TypeOK
      <4> QED BY <2>5, <4>1 DEF Reconciled, Claimable, Cleared, Row
    <3>2. jobs' \in [Jobs -> Row]
      <4>1. issued + 1 \in Nat /\ deadline[w] \in Nat
        BY DEF TypeOK
      <4>2. Claimed(Reconciled(w)[j], issued + 1, deadline[w]) \in Row
        BY <2>1, <3>1, <4>1, ClaimRowLemma
      <4> QED BY <2>1, <2>5, <4>2
    <3>3. /\ issued' \in Nat /\ pc' \in [Workers -> PC] /\ job' \in [Workers -> Jobs \cup {None}]
          /\ token' \in [Workers -> Nat] /\ beat' \in [Workers -> {"off", "on", "writing"}]
      BY <2>5 DEF TypeOK, PC
    <3>4. WorkerOK'
      BY <2>5 DEF TypeOK, WorkerOK
    <3> QED BY <2>2, <2>3, <3>2, <3>3, <3>4 DEF TypeOK
  <2>6. CASE {j \in due[w] : Claimable(j)} = {} /\ jobs' = Reconciled(w)
             /\ pc' = [pc EXCEPT ![w] = "idle"] /\ UNCHANGED <<issued, job, token, beat>>
    BY <2>4, <2>6
  <2>7. due[w] \subseteq Jobs
    BY DEF TypeOK
  <2> QED BY <1>5, <2>5, <2>6, <2>7 DEF ClaimCommit
<1>6. ASSUME NEW w \in Workers, HeartbeatCheck(w) PROVE TypeInv'
  <2>1. beat' \in [Workers -> {"off", "on", "writing"}] /\ deadline' \in [Workers -> Nat]
    BY <1>6, LimitsAssumption DEF TypeOK, HeartbeatCheck
  <2>2. WorkerOK'
    BY <1>6 DEF TypeOK, WorkerOK, HeartbeatCheck, queueVars
  <2> QED BY <1>6, <2>1, <2>2 DEF TypeOK, HeartbeatCheck, queueVars
<1>7. ASSUME NEW w \in Workers, HeartbeatWrite(w) PROVE TypeInv'
  <2>1. job[w] \in Jobs /\ deadline[w] \in Nat
    BY <1>7 DEF TypeOK, WorkerOK, HeartbeatWrite
  <2>2. [jobs[job[w]] EXCEPT !.lease = deadline[w]] \in Row
    BY <2>1, RowLemma DEF TypeOK
  <2>3. jobs' \in [Jobs -> Row]
    BY <1>7, <2>1, <2>2 DEF TypeOK, HeartbeatWrite
  <2>4. beat' \in [Workers -> {"off", "on", "writing"}] /\ deadline' \in [Workers -> Nat]
    BY <1>7 DEF TypeOK, HeartbeatWrite
  <2>5. WorkerOK'
    BY <1>7 DEF TypeOK, WorkerOK, HeartbeatWrite
  <2> QED BY <1>7, <2>3, <2>4, <2>5 DEF TypeOK, HeartbeatWrite
<1>8. ASSUME NEW w \in Workers, WorkflowWrites(w) PROVE TypeInv'
  <2>1. runs' \in [Runs -> RunStatus]
    BY <1>8 DEF TypeOK, WorkflowWrites, RunStatus
  <2> QED BY <1>8, <2>1 DEF TypeOK, WorkerOK, WorkflowWrites, queueVars, workerVars
<1>9. ASSUME NEW w \in Workers, WorkflowEnds(w) PROVE TypeInv'
  <2>1. pc' \in [Workers -> PC] /\ beat' \in [Workers -> {"off", "on", "writing"}]
    BY <1>9 DEF TypeOK, WorkflowEnds, PC
  <2>2. WorkerOK'
    BY <1>9 DEF TypeOK, WorkerOK, WorkflowEnds, queueVars
  <2> QED BY <1>9, <2>1, <2>2 DEF TypeOK, WorkflowEnds, queueVars
<1>10. ASSUME NEW w \in Workers, FinishStale(w) PROVE TypeInv'
  BY <1>10, IdleLemma DEF TypeOK, FinishStale, queueVars
<1>11. ASSUME NEW w \in Workers, FinishCheck(w) PROVE TypeInv'
  <2>1. job[w] \in Jobs /\ token[w] # 0 /\ jobs[job[w]].attempts \in Nat
    BY <1>11, LimitsAssumption DEF TypeOK, WorkerOK, FinishCheck, Row
  <2>2. pc' \in [Workers -> PC] /\ verdict' \in [Workers -> {"complete", "retry", "fail"}]
    BY <1>11 DEF TypeOK, FinishCheck, PC
  <2>3. deadline' \in [Workers -> Nat]
    BY <1>11, <2>1, BackoffLemma DEF TypeOK, FinishCheck
  <2>4. WorkerOK'
    BY <1>11, <2>1 DEF TypeOK, WorkerOK, FinishCheck, queueVars
  <2> QED BY <1>11, <2>2, <2>3, <2>4 DEF TypeOK, FinishCheck, queueVars
<1>12. ASSUME NEW w \in Workers, FinishReadRun(w) PROVE TypeInv'
  <2>1. job[w] \in Jobs
    BY <1>12 DEF WorkerOK, FinishReadRun
  <2>2. pc' \in [Workers -> PC] /\ seen' \in [Workers -> SUBSET Runs]
    BY <1>12, <2>1, RunOfAssumption DEF TypeOK, FinishReadRun, PC
  <2>3. WorkerOK'
    BY <1>12 DEF TypeOK, WorkerOK, FinishReadRun, queueVars
  <2> QED BY <1>12, <2>2, <2>3 DEF TypeOK, FinishReadRun, queueVars
<1>13. ASSUME NEW w \in Workers, FinishWrite(w) PROVE TypeInv'
  <2> DEFINE row == jobs[job[w]]
  <2>1. job[w] \in Jobs /\ row \in Row /\ deadline[w] \in Nat
    BY <1>13 DEF TypeOK, WorkerOK, FinishWrite
  <2>2. /\ [Cleared(row) EXCEPT !.status = "completed"] \in Row
        /\ [Cleared(row) EXCEPT !.status = "failed"] \in Row
        /\ [Cleared(row) EXCEPT !.status = "queued", !.wait = deadline[w]] \in Row
    BY <2>1, RowLemma DEF JobStatus
  <2>3. verdict[w] \in {"complete", "retry", "fail"}
    BY DEF TypeOK
  <2>4. PICK new \in Row : jobs' = [jobs EXCEPT ![job[w]] = new]
    BY <1>13, <2>2, <2>3 DEF FinishWrite
  <2>5. jobs' \in [Jobs -> Row]
    BY <2>1, <2>4 DEF TypeOK
  <2>6. runs' \in [Runs -> RunStatus]
    BY <1>13 DEF TypeOK, FinishWrite, FailedRuns, RunStatus
  <2> QED BY <1>13, <2>5, <2>6, IdleLemma DEF TypeOK, FinishWrite
<1>14. ASSUME NEW w \in Workers, Crash(w) PROVE TypeInv'
  <2>1. crashes' \in 0..MaxCrashes
    BY <1>14, LimitsAssumption DEF TypeOK, Crash
  <2> QED BY <1>14, <2>1, IdleLemma DEF TypeOK, Crash, queueVars
<1>15. ASSUME UNCHANGED vars PROVE TypeInv'
  BY <1>15 DEF TypeOK, WorkerOK, vars, queueVars, workerVars
<1> QED
  BY <1>1, <1>2, <1>3, <1>4, <1>5, <1>6, <1>7, <1>8, <1>9, <1>10, <1>11, <1>12, <1>13,
     <1>14, <1>15 DEF Next, WorkerStep

(* Every variable keeps its type: no handler writes a value another handler   *)
(* could not read, and no job is given more than max_attempts attempts.       *)
THEOREM TypeCorrect == Spec => []TypeOK
<1>1. TypeInv => TypeOK
  BY DEF TypeInv
<1> QED BY <1>1, TypeInit, TypeNext, PTL DEF Spec

-----------------------------------------------------------------------------
(* OneOwner is not inductive as it stands.  A claim hands out issued + 1, so  *)
(* it needs that no token in the system is above issued; LeaseProtectsClaim   *)
(* needs that the rows an open claim transaction has locked are still the     *)
(* exhausted claims it read, and are locked by it alone.                      *)
TokensIssued ==
  /\ \A j \in Jobs : jobs[j].token <= issued
  /\ \A w \in Workers : token[w] <= issued

LocksHold ==
  /\ \A w \in Workers : pc[w] = "claiming" => \A j \in spent[w] : Exhausted(j)
  /\ \A v, w \in Workers :
       pc[v] = "claiming" /\ pc[w] = "claiming" /\ v # w => spent[v] \cap spent[w] = {}

QueueInv == TypeInv /\ OneOwner /\ TokensIssued /\ LocksHold

LEMMA QueueInit == Init => QueueInv
<1> SUFFICES ASSUME Init PROVE QueueInv
  OBVIOUS
<1>1. OneOwner
  BY DEF Init, OneOwner, NoRow
<1>2. TokensIssued
  BY DEF Init, TokensIssued, NoRow
<1>3. LocksHold
  BY DEF Init, LocksHold
<1> QED BY <1>1, <1>2, <1>3, TypeInit DEF QueueInv

(* What the updates do to a row's status and token. *)
LEMMA RowFields ==
  ASSUME NEW row \in Row
  PROVE  /\ \A s \in JobStatus :
              /\ [Cleared(row) EXCEPT !.status = s].status = s
              /\ [Cleared(row) EXCEPT !.status = s].token = 0
         /\ \A d \in Nat :
              /\ [Cleared(row) EXCEPT !.status = "queued", !.wait = d].status = "queued"
              /\ [Cleared(row) EXCEPT !.status = "queued", !.wait = d].token = 0
         /\ \A t, d \in Nat : /\ Claimed(row, t, d).status = "claimed"
                              /\ Claimed(row, t, d).token = t
<1>1. Cleared(row) \in [status : JobStatus, token : Nat, lease : Nat, wait : Nat,
                        attempts : 0..MaxAttempts] /\ Cleared(row).token = 0
  BY DEF Row, Cleared
<1>2. \A s \in JobStatus : /\ [Cleared(row) EXCEPT !.status = s].status = s
                            /\ [Cleared(row) EXCEPT !.status = s].token = 0
  BY <1>1
<1>3. \A d \in Nat :
        /\ [Cleared(row) EXCEPT !.status = "queued", !.wait = d].status = "queued"
        /\ [Cleared(row) EXCEPT !.status = "queued", !.wait = d].token = 0
  BY <1>1
<1>4. \A t, d \in Nat : /\ Claimed(row, t, d).status = "claimed"
                         /\ Claimed(row, t, d).token = t
  BY DEF Claimed, Row
<1> QED BY <1>2, <1>3, <1>4

(* What most steps do: a row keeps its owner or loses it, a worker keeps its  *)
(* token or drops it, a locked exhausted claim stays one, no claim opens.     *)
KeepsOwner(j) ==
  \/ jobs'[j].token = 0 /\ jobs'[j].status # "claimed"
  \/ /\ jobs'[j].token = jobs[j].token
     /\ jobs'[j].status = "claimed" <=> jobs[j].status = "claimed"
KeepsHand(w) == token'[w] = 0 \/ (token'[w] = token[w] /\ job'[w] = job[w])
KeepsLock(j) == Exhausted(j) /\ Locked(j) => Exhausted(j)'
OpensNone(w) == pc'[w] = "claiming" => pc[w] = "claiming" /\ spent'[w] = spent[w]

(* A step that claims nothing keeps the ownership. *)
LEMMA NoNewOwner ==
  ASSUME TypeInv, OneOwner, TokensIssued, TypeInv',
         issued' = issued,
         \A j \in Jobs : KeepsOwner(j),
         \A w \in Workers : KeepsHand(w)
  PROVE  OneOwner' /\ TokensIssued'
<1> USE DEF KeepsOwner, KeepsHand
<1>1. \A j \in Jobs : jobs'[j].status = "claimed" <=> jobs'[j].token # 0
  BY DEF OneOwner
<1>2. \A j, k \in Jobs : jobs'[j].token = jobs'[k].token /\ j # k => jobs'[j].token = 0
  BY DEF OneOwner
<1>3. \A v, w \in Workers : token'[v] = token'[w] /\ v # w => token'[v] = 0
  BY DEF OneOwner
<1>4. \A j \in Jobs, w \in Workers :
        jobs'[j].token = token'[w] /\ token'[w] # 0 => job'[w] = j
  BY DEF OneOwner
<1>5. TokensIssued'
  <2>1. issued \in Nat /\ 0 <= issued
    BY DEF TypeInv, TypeOK
  <2>2. \A j \in Jobs : jobs'[j].token <= issued'
    BY <2>1 DEF TokensIssued
  <2>3. \A w \in Workers : token'[w] <= issued'
    BY <2>1 DEF TokensIssued
  <2> QED BY <2>2, <2>3 DEF TokensIssued
<1> QED BY <1>1, <1>2, <1>3, <1>4, <1>5 DEF OneOwner

(* A step that leaves the exhausted claims of open claim transactions as they *)
(* are, and opens none, keeps the locks.                                      *)
LEMMA NoNewLock ==
  ASSUME TypeInv, LocksHold,
         \A j \in Jobs : KeepsLock(j),
         \A w \in Workers : OpensNone(w)
  PROVE  LocksHold'
<1> USE DEF KeepsLock, OpensNone
<1>1. ASSUME NEW w \in Workers, pc'[w] = "claiming", NEW j \in spent'[w] PROVE Exhausted(j)'
  <2>1. pc[w] = "claiming" /\ j \in spent[w] /\ j \in Jobs
    BY <1>1 DEF TypeInv, TypeOK
  <2> QED BY <2>1 DEF LocksHold, Locked
<1>2. ASSUME NEW v \in Workers, NEW w \in Workers, pc'[v] = "claiming", pc'[w] = "claiming", v # w
      PROVE  spent'[v] \cap spent'[w] = {}
  BY <1>2 DEF LocksHold
<1> QED BY <1>1, <1>2 DEF LocksHold

(* One step of a handler leaves the invariant in place. *)
LEMMA QueueNext == QueueInv /\ [Next]_vars => QueueInv'
<1> SUFFICES ASSUME QueueInv, [Next]_vars PROVE QueueInv'
  OBVIOUS
<1>0. TypeInv /\ OneOwner /\ TokensIssued /\ LocksHold /\ TypeInv'
  BY TypeNext DEF QueueInv
<1>a. \A j \in Jobs : jobs[j] \in Row /\ jobs'[j] \in Row
  BY <1>0 DEF TypeInv, TypeOK
<1>b. ASSUME issued' = issued, \A j \in Jobs : KeepsOwner(j) /\ KeepsLock(j),
             \A w \in Workers : KeepsHand(w) /\ OpensNone(w)
      PROVE  QueueInv'
  <2>a. (\A j \in Jobs : KeepsOwner(j)) /\ (\A w \in Workers : KeepsHand(w))
    BY <1>b
  <2>1. OneOwner' /\ TokensIssued'
    BY <1>0, <1>b, <2>a, NoNewOwner
  <2>2. LocksHold'
    BY <1>0, <1>b, NoNewLock
  <2> QED BY <1>0, <2>1, <2>2 DEF QueueInv
<1> USE DEF KeepsOwner, KeepsHand, KeepsLock, OpensNone
<1>1. ASSUME NEW j \in Jobs, Enqueue(j) PROVE QueueInv'
  <2>1. ASSUME NEW k \in Jobs PROVE KeepsOwner(k) /\ KeepsLock(k)
    <3>1. CASE k = j
      BY <1>1, <1>0, <1>a, <3>1 DEF Enqueue, Exhausted, Row, TypeInv, TypeOK
    <3>2. CASE k # j
      BY <1>1, <1>0, <3>2 DEF Enqueue, Exhausted, TypeInv, TypeOK
    <3> QED BY <3>1, <3>2
  <2> QED BY <1>1, <1>b, <2>1 DEF Enqueue, workerVars
<1>2. ASSUME NEW r \in Runs, CancelRun(r) PROVE QueueInv'
  <2>1. ASSUME NEW k \in Jobs PROVE KeepsOwner(k) /\ KeepsLock(k)
    <3>1. CASE RunOf[k] = r /\ jobs[k].status \in {"queued", "claimed"}
      <4>1. jobs'[k] = [Cleared(jobs[k]) EXCEPT !.status = "cancelled"] /\ ~Locked(k)
        BY <1>2, <3>1 DEF CancelRun
      <4> QED BY <4>1, <1>a, RowFields DEF JobStatus
    <3>2. CASE ~(RunOf[k] = r /\ jobs[k].status \in {"queued", "claimed"})
      BY <1>2, <3>2 DEF CancelRun, Exhausted
    <3> QED BY <3>1, <3>2
  <2> QED BY <1>2, <1>b, <2>1 DEF CancelRun, workerVars
<1>3. ASSUME Tick PROVE QueueInv'
  <2>1. ASSUME NEW k \in Jobs PROVE KeepsOwner(k) /\ KeepsLock(k)
    <3>1. jobs'[k] = [jobs[k] EXCEPT !.lease = Less(@), !.wait = Less(@)]
      BY <1>3 DEF Tick
    <3>2. jobs'[k].token = jobs[k].token /\ jobs'[k].status = jobs[k].status
          /\ jobs'[k].attempts = jobs[k].attempts /\ (jobs[k].lease = 0 => jobs'[k].lease = 0)
      BY <3>1, <1>a DEF Row, Less
    <3> QED BY <3>2 DEF Exhausted
  <2> QED BY <1>3, <1>b, <2>1 DEF Tick
<1>4. ASSUME NEW w \in Workers, ClaimBegin(w) PROVE QueueInv'
  <2>1. jobs' = jobs /\ token' = token /\ job' = job /\ issued' = issued
    BY <1>4 DEF ClaimBegin, queueVars
  <2>2. OneOwner' /\ TokensIssued'
    BY <1>0, <2>1 DEF OneOwner, TokensIssued
  <2>3. \A v \in Workers : v # w => pc'[v] = pc[v] /\ spent'[v] = spent[v]
    BY <1>0, <1>4 DEF ClaimBegin, TypeInv, TypeOK
  <2>4. spent'[w] = {j \in Jobs : Exhausted(j) /\ ~Locked(j)}
    BY <1>0, <1>4 DEF ClaimBegin, TypeInv, TypeOK
  <2>5. \A v \in Workers : pc'[v] = "claiming" => \A j \in spent'[v] : Exhausted(j)'
    BY <1>0, <2>1, <2>3, <2>4 DEF LocksHold, Exhausted
  <2>6. ASSUME NEW u \in Workers, NEW v \in Workers, pc'[u] = "claiming", pc'[v] = "claiming", u # v
        PROVE  spent'[u] \cap spent'[v] = {}
    <3>1. CASE u # w /\ v # w
      BY <1>0, <2>3, <2>6, <3>1 DEF LocksHold
    <3>2. CASE u = w
      BY <2>3, <2>4, <2>6, <3>2 DEF Locked
    <3>3. CASE v = w
      BY <2>3, <2>4, <2>6, <3>3 DEF Locked
    <3> QED BY <3>1, <3>2, <3>3
  <2> QED BY <1>0, <2>2, <2>5, <2>6 DEF QueueInv, LocksHold
<1>5. ASSUME NEW w \in Workers, ClaimCommit(w) PROVE QueueInv'
  <2>1. pc[w] = "claiming" /\ spent[w] \subseteq Jobs /\ due[w] \subseteq Jobs /\ token[w] = 0
    BY <1>0, <1>5 DEF ClaimCommit, TypeInv, TypeOK, WorkerOK
  <2>2. \A k \in spent[w] : Exhausted(k)
    BY <1>0, <2>1 DEF LocksHold
  <2>3. ASSUME NEW k \in Jobs
        PROVE  IF k \in spent[w]
                 THEN Reconciled(w)[k].status = "failed" /\ Reconciled(w)[k].token = 0
                 ELSE Reconciled(w)[k] = jobs[k]
    BY <1>a, RowFields DEF Reconciled, JobStatus
  <2>4. \A v \in Workers : v # w => \A k \in spent[v] : pc[v] = "claiming" => k \notin spent[w]
    BY <1>0, <2>1 DEF LocksHold
  <2>5. /\ \A v \in Workers : v # w => pc'[v] = pc[v] /\ spent'[v] = spent[v]
        /\ pc'[w] # "claiming"
    BY <1>0, <1>5 DEF ClaimCommit, TypeInv, TypeOK
  <2>6. ASSUME \A k \in Jobs : k \notin spent[w] /\ Exhausted(k) => jobs'[k] = jobs[k]
        PROVE  LocksHold'
    <3>1. ASSUME NEW v \in Workers, pc'[v] = "claiming", NEW k \in spent'[v] PROVE Exhausted(k)'
      <4>1. v # w /\ pc[v] = "claiming" /\ k \in spent[v]
        BY <2>5, <3>1
      <4>2. k \in Jobs /\ Exhausted(k) /\ k \notin spent[w]
        BY <1>0, <2>4, <4>1 DEF LocksHold, TypeInv, TypeOK
      <4> QED BY <2>6, <4>2 DEF Exhausted
    <3>2. ASSUME NEW u \in Workers, NEW v \in Workers, pc'[u] = "claiming", pc'[v] = "claiming", u # v
          PROVE  spent'[u] \cap spent'[v] = {}
      BY <1>0, <2>5, <3>2 DEF LocksHold
    <3> QED BY <3>1, <3>2 DEF LocksHold
  <2>7. CASE jobs' = Reconciled(w) /\ UNCHANGED <<issued, job, token, beat>>
    <3>1. \A k \in Jobs : KeepsOwner(k)
      BY <2>3, <2>7
    <3>a. issued' = issued /\ \A v \in Workers : KeepsHand(v)
      BY <2>7
    <3>2. OneOwner' /\ TokensIssued'
      <4> HIDE DEF KeepsOwner, KeepsHand
      <4> QED BY <1>0, <3>1, <3>a, NoNewOwner
    <3>3. LocksHold'
      BY <2>3, <2>6, <2>7
    <3> QED BY <1>0, <3>2, <3>3 DEF QueueInv
  <2>8. ASSUME NEW j \in Jobs, Claimable(j),
               jobs' = [Reconciled(w) EXCEPT ![j] = Claimed(@, issued + 1, deadline[w])],
               issued' = issued + 1, job' = [job EXCEPT ![w] = j],
               token' = [token EXCEPT ![w] = issued + 1]
        PROVE  QueueInv'
    <3>0. issued \in Nat /\ deadline[w] \in Nat /\ \A k \in Jobs : jobs[k].token \in Nat
      BY <1>0, <1>a DEF TypeInv, TypeOK, Row
    <3>1. ~Exhausted(j) /\ j \notin spent[w]
      BY <1>a, <2>2, <2>8, LimitsAssumption DEF Exhausted, Claimable, Row
    <3>2. jobs'[j] = Claimed(jobs[j], issued + 1, deadline[w])
      BY <2>3, <2>8, <3>1 DEF Reconciled
    <3>3. \A k \in Jobs : k # j => jobs'[k] = Reconciled(w)[k]
      BY <2>8 DEF Reconciled
    <3>4. jobs'[j].status = "claimed" /\ jobs'[j].token = issued + 1
      <4>1. issued + 1 \in Nat
        BY <3>0
      <4> QED BY <1>a, <3>0, <3>2, <4>1, RowFields
    <3>5. \A k \in Jobs : k # j => KeepsOwner(k)
      BY <2>3, <3>3
    <3>6. \A k \in Jobs : k # j => jobs'[k].token <= issued
      BY <1>0, <3>0, <3>5 DEF TokensIssued
    <3>7. token'[w] = issued + 1 /\ job'[w] = j
          /\ \A v \in Workers : v # w => token'[v] = token[v] /\ job'[v] = job[v] /\ token[v] <= issued
      BY <1>0, <2>8 DEF TypeInv, TypeOK, TokensIssued
    <3>8. OneOwner'
      <4>1. \A k \in Jobs : jobs'[k].status = "claimed" <=> jobs'[k].token # 0
        BY <1>0, <3>0, <3>4, <3>5 DEF OneOwner
      <4>2. \A k, l \in Jobs : jobs'[k].token = jobs'[l].token /\ k # l => jobs'[k].token = 0
        BY <1>0, <3>0, <3>4, <3>5, <3>6 DEF OneOwner
      <4>3. \A u, v \in Workers : token'[u] = token'[v] /\ u # v => token'[u] = 0
        BY <1>0, <3>0, <3>7 DEF OneOwner
      <4>4. ASSUME NEW k \in Jobs, NEW v \in Workers, jobs'[k].token = token'[v], token'[v] # 0
            PROVE  job'[v] = k
        <5>1. CASE v = w
          BY <3>0, <3>6, <3>7, <4>4, <5>1
        <5>2. CASE v # w /\ k # j
          BY <1>0, <3>5, <3>7, <4>4, <5>2 DEF OneOwner
        <5>3. CASE v # w /\ k = j
          BY <3>0, <3>4, <3>7, <4>4, <5>3
        <5> QED BY <5>1, <5>2, <5>3
      <4> QED BY <4>1, <4>2, <4>3, <4>4 DEF OneOwner
    <3>9. TokensIssued'
      <4>1. \A k \in Jobs : jobs'[k].token <= issued + 1
        BY <1>a, <3>0, <3>4, <3>6 DEF Row
      <4>2. \A v \in Workers : token'[v] <= issued + 1
        BY <1>0, <3>0, <3>7 DEF TypeInv, TypeOK
      <4> QED BY <2>8, <4>1, <4>2 DEF TokensIssued
    <3>10. LocksHold'
      BY <2>3, <2>6, <3>1, <3>3
    <3> QED BY <1>0, <3>8, <3>9, <3>10 DEF QueueInv
  <2> QED BY <1>5, <2>1, <2>7, <2>8 DEF ClaimCommit
<1>6. ASSUME NEW w \in Workers, HeartbeatCheck(w) PROVE QueueInv'
  BY <1>6, <1>b DEF HeartbeatCheck, queueVars, Exhausted
<1>7. ASSUME NEW w \in Workers, HeartbeatWrite(w) PROVE QueueInv'
  <2>1. ASSUME NEW k \in Jobs PROVE KeepsOwner(k) /\ KeepsLock(k)
    <3>1. CASE k = job[w]
      <4>1. jobs'[k] = [jobs[k] EXCEPT !.lease = deadline[w]] /\ ~Locked(k)
        BY <1>0, <1>7, <3>1 DEF HeartbeatWrite, TypeInv, TypeOK
      <4> QED BY <1>a, <4>1 DEF Row
    <3>2. CASE k # job[w]
      BY <1>0, <1>7, <3>2 DEF HeartbeatWrite, Exhausted, TypeInv, TypeOK
    <3> QED BY <3>1, <3>2
  <2> QED BY <1>7, <1>b, <2>1 DEF HeartbeatWrite
<1>8. ASSUME NEW w \in Workers, WorkflowWrites(w) PROVE QueueInv'
  BY <1>8, <1>b DEF WorkflowWrites, queueVars, workerVars, Exhausted
<1>9. ASSUME NEW w \in Workers, WorkflowEnds(w) PROVE QueueInv'
  <2>1. \A v \in Workers : OpensNone(v)
    BY <1>0, <1>9 DEF WorkflowEnds, TypeInv, TypeOK
  <2> QED BY <1>9, <1>b, <2>1 DEF WorkflowEnds, queueVars, Exhausted
<1>c. ASSUME NEW w \in Workers, GoesIdle(w), issued' = issued,
             \A j \in Jobs : KeepsOwner(j) /\ KeepsLock(j)
      PROVE  QueueInv'
  <2>1. \A v \in Workers : KeepsHand(v) /\ OpensNone(v)
    BY <1>0, <1>c DEF GoesIdle, TypeInv, TypeOK
  <2> QED BY <1>b, <1>c, <2>1
<1>10. ASSUME NEW w \in Workers, FinishStale(w) PROVE QueueInv'
  BY <1>10, <1>c DEF FinishStale, queueVars, Exhausted
<1>11. ASSUME NEW w \in Workers, FinishCheck(w) PROVE QueueInv'
  <2>1. \A v \in Workers : OpensNone(v)
    BY <1>0, <1>11 DEF FinishCheck, TypeInv, TypeOK
  <2> QED BY <1>11, <1>b, <2>1 DEF FinishCheck, queueVars, Exhausted
<1>12. ASSUME NEW w \in Workers, FinishReadRun(w) PROVE QueueInv'
  <2>1. \A v \in Workers : OpensNone(v)
    BY <1>0, <1>12 DEF FinishReadRun, TypeInv, TypeOK
  <2> QED BY <1>12, <1>b, <2>1 DEF FinishReadRun, queueVars, Exhausted
<1>13. ASSUME NEW w \in Workers, FinishWrite(w) PROVE QueueInv'
  <2>1. ASSUME NEW k \in Jobs PROVE KeepsOwner(k) /\ KeepsLock(k)
    <3>1. CASE k = job[w]
      <4>1. ~Locked(k) /\ verdict[w] \in {"complete", "retry", "fail"} /\ deadline[w] \in Nat
        BY <1>0, <1>13, <3>1 DEF FinishWrite, TypeInv, TypeOK
      <4>2. \/ jobs'[k] = [Cleared(jobs[k]) EXCEPT !.status = "completed"]
            \/ jobs'[k] = [Cleared(jobs[k]) EXCEPT !.status = "failed"]
            \/ jobs'[k] = [Cleared(jobs[k]) EXCEPT !.status = "queued", !.wait = deadline[w]]
        BY <1>0, <1>13, <3>1, <4>1 DEF FinishWrite, TypeInv, TypeOK
      <4>3. jobs'[k].token = 0 /\ jobs'[k].status # "claimed"
        <5>1. CASE jobs'[k] = [Cleared(jobs[k]) EXCEPT !.status = "completed"]
          BY <1>a, <5>1, RowFields DEF JobStatus
        <5>2. CASE jobs'[k] = [Cleared(jobs[k]) EXCEPT !.status = "failed"]
          BY <1>a, <5>2, RowFields DEF JobStatus
        <5>3. CASE jobs'[k] = [Cleared(jobs[k]) EXCEPT !.status = "queued", !.wait = deadline[w]]
          BY <1>a, <4>1, <5>3, RowFields
        <5> QED BY <4>2, <5>1, <5>2, <5>3
      <4> QED BY <4>1, <4>3
    <3>2. CASE k # job[w]
      BY <1>0, <1>13, <3>2 DEF FinishWrite, Exhausted, TypeInv, TypeOK
    <3> QED BY <3>1, <3>2
  <2> QED BY <1>13, <1>c, <2>1 DEF FinishWrite
<1>14. ASSUME NEW w \in Workers, Crash(w) PROVE QueueInv'
  BY <1>14, <1>c DEF Crash, queueVars, Exhausted
<1>15. ASSUME UNCHANGED vars PROVE QueueInv'
  BY <1>15, <1>b DEF vars, queueVars, workerVars, Exhausted
<1> QED
  BY <1>1, <1>2, <1>3, <1>4, <1>5, <1>6, <1>7, <1>8, <1>9, <1>10, <1>11, <1>12, <1>13,
     <1>14, <1>15 DEF Next, WorkerStep

(* At any moment a claim belongs to one worker: no two workers can both pass  *)
(* the token check of a job, in any interleaving of any number of them.       *)
THEOREM OneOwnerHolds == Spec => []OneOwner
<1>1. QueueInv => OneOwner
  BY DEF QueueInv
<1> QED BY <1>1, QueueInit, QueueNext, PTL DEF Spec

-----------------------------------------------------------------------------
(* What a step may do to the row of one job *)

(* The handlers, as far as one row is concerned. *)
RowStep(j) ==
  \/ jobs[j].status = "absent" /\ jobs'[j].token = jobs[j].token
  \/ jobs[j].status \in {"queued", "claimed"} /\ jobs'[j].status = "cancelled"
  \/ jobs'[j].status = jobs[j].status /\ jobs'[j].token = jobs[j].token
  \/ jobs[j].status \in {"queued", "claimed"} /\ (jobs[j].status = "claimed" => jobs[j].lease = 0)
  \/ jobs'[j].status # "claimed" /\ \E w \in Workers : Writing(w, j)

LEMMA RowNext == QueueInv /\ [Next]_vars => \A j \in Jobs : RowStep(j)
<1> SUFFICES ASSUME QueueInv, [Next]_vars, NEW j \in Jobs PROVE RowStep(j)
  OBVIOUS
<1>0. TypeInv /\ OneOwner /\ LocksHold /\ jobs[j] \in Row
  BY DEF QueueInv, TypeInv, TypeOK
<1>1. ASSUME NEW i \in Jobs, Enqueue(i) PROVE RowStep(j)
  <2>1. CASE i = j
    BY <1>0, <1>1, <2>1 DEF RowStep, Enqueue, TypeInv, TypeOK, Row
  <2>2. CASE i # j
    BY <1>0, <1>1, <2>2 DEF RowStep, Enqueue, TypeInv, TypeOK
  <2> QED BY <2>1, <2>2
<1>2. ASSUME NEW r \in Runs, CancelRun(r) PROVE RowStep(j)
  <2>1. CASE RunOf[j] = r /\ jobs[j].status \in {"queued", "claimed"}
    <3>1. jobs'[j] = [Cleared(jobs[j]) EXCEPT !.status = "cancelled"]
      BY <1>2, <2>1 DEF CancelRun
    <3> QED BY <1>0, <2>1, <3>1, RowFields DEF RowStep, JobStatus
  <2>2. CASE ~(RunOf[j] = r /\ jobs[j].status \in {"queued", "claimed"})
    BY <1>2, <2>2 DEF RowStep, CancelRun
  <2> QED BY <2>1, <2>2
<1>3. ASSUME Tick PROVE RowStep(j)
  BY <1>0, <1>3 DEF RowStep, Tick, Row
<1>4. ASSUME NEW w \in Workers, ClaimCommit(w) PROVE RowStep(j)
  <2>1. pc[w] = "claiming" /\ \A i \in spent[w] : Exhausted(i)
    BY <1>0, <1>4 DEF ClaimCommit, LocksHold
  <2>2. CASE Exhausted(j) \/ Claimable(j)
    BY <2>2 DEF RowStep, Exhausted, Claimable
  <2>3. CASE ~Exhausted(j) /\ ~Claimable(j)
    <3>1. jobs'[j] = Reconciled(w)[j] /\ j \notin spent[w]
      BY <1>4, <2>1, <2>3 DEF ClaimCommit, Reconciled
    <3> QED BY <3>1 DEF RowStep, Reconciled
  <2> QED BY <2>2, <2>3
<1>5. ASSUME NEW w \in Workers, HeartbeatWrite(w) PROVE RowStep(j)
  <2>1. CASE job[w] = j
    BY <1>0, <1>5, <2>1 DEF RowStep, HeartbeatWrite, TypeInv, TypeOK, Row
  <2>2. CASE job[w] # j
    BY <1>0, <1>5, <2>2 DEF RowStep, HeartbeatWrite, TypeInv, TypeOK
  <2> QED BY <2>1, <2>2
<1>6. ASSUME NEW w \in Workers, FinishWrite(w) PROVE RowStep(j)
  <2>1. CASE job[w] = j
    <3>1. pc[w] = "writing" /\ pc'[w] = "idle"
      BY <1>0, <1>6 DEF FinishWrite, GoesIdle, TypeInv, TypeOK
    <3>2. verdict[w] \in {"complete", "retry", "fail"}
      BY <1>0 DEF TypeInv, TypeOK
    <3>3. jobs'[j].status \in {"completed", "failed", "queued"}
      BY <1>0, <1>6, <2>1, <3>2 DEF FinishWrite, Cleared, TypeInv, TypeOK, Row
    <3> QED BY <2>1, <3>1, <3>3 DEF RowStep, Writing
  <2>2. CASE job[w] # j
    BY <1>0, <1>6, <2>2 DEF RowStep, FinishWrite, TypeInv, TypeOK
  <2> QED BY <2>1, <2>2
<1>7. ASSUME jobs' = jobs PROVE RowStep(j)
  BY <1>7 DEF RowStep
<1>8. ASSUME NEW w \in Workers,
             ClaimBegin(w) \/ HeartbeatCheck(w) \/ WorkflowWrites(w) \/ WorkflowEnds(w)
               \/ FinishStale(w) \/ FinishCheck(w) \/ FinishReadRun(w) \/ Crash(w)
      PROVE  jobs' = jobs
  BY <1>8 DEF ClaimBegin, HeartbeatCheck, WorkflowWrites, WorkflowEnds, FinishStale,
       FinishCheck, FinishReadRun, Crash, queueVars
<1> QED
  BY <1>1, <1>2, <1>3, <1>4, <1>5, <1>6, <1>7, <1>8
  DEF Next, WorkerStep, vars, queueVars

(* A claim whose lease is running changes hands only by cancellation or by a  *)
(* finish transaction that had passed its check.                              *)
THEOREM LeaseProtects == Spec => LeaseProtectsClaim
<1>1. QueueInv /\ [Next]_vars =>
        [\A j \in Jobs :
           jobs[j].status = "claimed" /\ jobs[j].lease > 0 /\ jobs'[j].token # jobs[j].token
             => \/ jobs'[j].status = "cancelled"
                \/ \E w \in Workers : Writing(w, j)]_vars
  BY RowNext DEF RowStep
<1> QED BY <1>1, QueueInit, QueueNext, PTL DEF Spec, LeaseProtectsClaim

(* A settled job leaves its status only by such a finish transaction, and is  *)
(* never claimed by it.                                                       *)
THEOREM SettledStays == Spec => SettledJobStays
<1>1. QueueInv /\ [Next]_vars =>
        [\A j \in Jobs :
           jobs[j].status \in Settled /\ jobs'[j].status # jobs[j].status
             => /\ jobs'[j].status # "claimed"
                /\ \E w \in Workers : Writing(w, j)]_vars
  BY RowNext DEF RowStep, Settled
<1> QED BY <1>1, QueueInit, QueueNext, PTL DEF Spec, SettledJobStays

-----------------------------------------------------------------------------
(* One worker process                                                      *)
(*                                                                         *)
(* With two, the finish of one may land on the claim of the other (run     *)
(* queue_stale).  With one, nobody claims while it works, whatever leases  *)
(* run out, and what the modules above the queue take of it is true: a job *)
(* is in one pair of hands and only those finish it.                       *)

OneWorker == \A v, w \in Workers : v = w

Busy == {"executing", "stopping", "reading", "writing"}

(* The job of a busy worker carries its claim, unless the run was cancelled. *)
ClaimHeld ==
  \A w \in Workers : pc[w] \in Busy =>
    \/ jobs[job[w]].status = "claimed" /\ jobs[job[w]].token = token[w]
    \/ jobs[job[w]].status = "cancelled" /\ jobs[job[w]].token = 0

LEMMA HeldInit == Init => ClaimHeld
  BY DEF Init, ClaimHeld, Busy

(* No step takes the claim of the one worker away but a cancel, and a claim that is *)
(* committed is its own.                                                           *)
LEMMA HeldNext ==
  ASSUME OneWorker, QueueInv, ClaimHeld, [Next]_vars
  PROVE  ClaimHeld'
<1>0. TypeOK /\ WorkerOK
  BY DEF QueueInv, TypeInv
<1>1. ASSUME NEW j \in Jobs, Enqueue(j) PROVE ClaimHeld'
  <2> SUFFICES ASSUME NEW w \in Workers, pc'[w] \in Busy
               PROVE  \/ jobs'[job'[w]].status = "claimed" /\ jobs'[job'[w]].token = token'[w]
                      \/ jobs'[job'[w]].status = "cancelled" /\ jobs'[job'[w]].token = 0
    BY DEF ClaimHeld
  <2>1. pc' = pc /\ job' = job /\ token' = token
    BY <1>1 DEF Enqueue, workerVars
  <2>2. job[w] \in Jobs /\ jobs[job[w]].status \in {"claimed", "cancelled"}
    BY <1>0, <2>1 DEF ClaimHeld, WorkerOK, Busy
  <2>3. jobs'[job[w]] = jobs[job[w]]
    BY <1>0, <1>1, <2>2 DEF Enqueue, TypeOK
  <2> QED BY <2>1, <2>3 DEF ClaimHeld
<1>2. ASSUME NEW r \in Runs, CancelRun(r) PROVE ClaimHeld'
  <2> SUFFICES ASSUME NEW w \in Workers, pc'[w] \in Busy
               PROVE  \/ jobs'[job'[w]].status = "claimed" /\ jobs'[job'[w]].token = token'[w]
                      \/ jobs'[job'[w]].status = "cancelled" /\ jobs'[job'[w]].token = 0
    BY DEF ClaimHeld
  <2>1. pc' = pc /\ job' = job /\ token' = token
    BY <1>2 DEF CancelRun, workerVars
  <2>2. job[w] \in Jobs /\ jobs[job[w]] \in Row
    BY <1>0, <2>1 DEF TypeOK, WorkerOK, Busy
  <2>3. \/ jobs'[job[w]] = jobs[job[w]]
        \/ jobs'[job[w]] = [Cleared(jobs[job[w]]) EXCEPT !.status = "cancelled"]
    BY <1>2, <2>2 DEF CancelRun
  <2>4. LET row == [Cleared(jobs[job[w]]) EXCEPT !.status = "cancelled"] IN
        row.status = "cancelled" /\ row.token = 0
    BY <2>2 DEF Cleared, Row
  <2> QED BY <2>1, <2>3, <2>4 DEF ClaimHeld
<1>3. ASSUME NEW w \in Workers, ClaimCommit(w) PROVE ClaimHeld'
  <2>1. CASE pc' = [pc EXCEPT ![w] = "idle"]
    BY <1>0, <2>1 DEF OneWorker, ClaimHeld, TypeOK, Busy
  <2>2. CASE pc' # [pc EXCEPT ![w] = "idle"]
    <3>1. PICK j \in due[w] :
            /\ jobs' = [Reconciled(w) EXCEPT ![j] = Claimed(@, issued + 1, deadline[w])]
            /\ job' = [job EXCEPT ![w] = j] /\ token' = [token EXCEPT ![w] = issued + 1]
      BY <1>3, <2>2 DEF ClaimCommit
    <3>2. j \in Jobs /\ job'[w] = j /\ token'[w] = issued + 1
      BY <1>0, <3>1 DEF TypeOK
    <3>3. jobs'[j] = Claimed(Reconciled(w)[j], issued + 1, deadline[w])
      BY <3>1, <3>2 DEF Reconciled
    <3>4. Reconciled(w)[j] \in Row
      <4>1. jobs[j] \in Row
        BY <1>0, <3>2 DEF TypeOK
      <4> QED BY <3>2, <4>1, RowLemma DEF Reconciled, JobStatus
    <3>5. jobs'[j].status = "claimed" /\ jobs'[j].token = token'[w]
      BY <3>2, <3>3, <3>4 DEF Claimed, Row
    <3> QED BY <3>2, <3>5 DEF OneWorker, ClaimHeld
  <2> QED BY <2>1, <2>2
<1>4. ASSUME NEW w \in Workers, HeartbeatWrite(w) PROVE ClaimHeld'
  <2> SUFFICES ASSUME NEW v \in Workers, pc'[v] \in Busy
               PROVE  \/ jobs'[job'[v]].status = "claimed" /\ jobs'[job'[v]].token = token'[v]
                      \/ jobs'[job'[v]].status = "cancelled" /\ jobs'[job'[v]].token = 0
    BY DEF ClaimHeld
  <2>1. pc' = pc /\ job' = job /\ token' = token
    BY <1>4 DEF HeartbeatWrite
  <2>2. job[v] \in Jobs /\ jobs[job[v]] \in Row
    BY <1>0, <2>1 DEF TypeOK, WorkerOK, Busy
  <2>3. jobs'[job[v]].status = jobs[job[v]].status /\ jobs'[job[v]].token = jobs[job[v]].token
    BY <1>0, <1>4, <2>2 DEF HeartbeatWrite, TypeOK, Row
  <2> QED BY <2>1, <2>3 DEF ClaimHeld
<1>5. ASSUME NEW w \in Workers, FinishStale(w) \/ FinishWrite(w) \/ Crash(w) PROVE ClaimHeld'
  <2>1. GoesIdle(w)
    BY <1>5 DEF FinishStale, FinishWrite, Crash
  <2>2. pc'[w] = "idle"
    BY <1>0, <2>1 DEF GoesIdle, TypeOK
  <2> QED BY <2>2 DEF OneWorker, ClaimHeld, Busy
<1>6. ASSUME NEW w \in Workers,
             ClaimBegin(w) \/ HeartbeatCheck(w) \/ WorkflowWrites(w) \/ WorkflowEnds(w)
               \/ FinishCheck(w) \/ FinishReadRun(w)
      PROVE  ClaimHeld'
  <2>1. /\ jobs' = jobs /\ job' = job /\ token' = token
        /\ pc'[w] \in Busy => pc[w] \in Busy
    BY <1>0, <1>6 DEF ClaimBegin, HeartbeatCheck, WorkflowWrites, WorkflowEnds, FinishCheck,
         FinishReadRun, queueVars, workerVars, TypeOK, Busy
  <2> QED BY <2>1 DEF OneWorker, ClaimHeld
<1>7. CASE Tick
  <2> SUFFICES ASSUME NEW w \in Workers, pc'[w] \in Busy
               PROVE  \/ jobs'[job'[w]].status = "claimed" /\ jobs'[job'[w]].token = token'[w]
                      \/ jobs'[job'[w]].status = "cancelled" /\ jobs'[job'[w]].token = 0
    BY DEF ClaimHeld
  <2>1. pc' = pc /\ job' = job /\ token' = token
    BY <1>7 DEF Tick
  <2>2. job[w] \in Jobs /\ jobs[job[w]] \in Row
    BY <1>0, <2>1 DEF TypeOK, WorkerOK, Busy
  <2>3. jobs'[job[w]].status = jobs[job[w]].status /\ jobs'[job[w]].token = jobs[job[w]].token
    BY <1>7, <2>2 DEF Tick, Row
  <2> QED BY <2>1, <2>3 DEF ClaimHeld
<1>8. CASE UNCHANGED vars
  BY <1>8 DEF ClaimHeld, vars, queueVars, workerVars
<1> QED
  BY <1>1, <1>2, <1>3, <1>4, <1>5, <1>6, <1>7, <1>8 DEF Next, WorkerStep

(* With one worker the job it works on is claimed by it until it finishes, even when  *)
(* the lease has run out and a heartbeat was missed: only a cancel takes it away.      *)
THEOREM OneWorkerHolds == ASSUME OneWorker PROVE Spec => []ClaimHeld
<1>1. QueueInv /\ ClaimHeld /\ [Next]_vars => ClaimHeld'
  BY HeldNext
<1> QED BY <1>1, HeldInit, QueueInit, QueueNext, PTL DEF Spec

(* With one worker the claim token does prevent stale commits: a finish never lands   *)
(* on another claim.                                                                  *)
THEOREM OneWorkerCommits == ASSUME OneWorker PROVE Spec => NoStaleCommit
<1>1. QueueInv /\ ClaimHeld /\ [Next]_vars =>
        [\A w \in Workers :
           pc[w] = "writing" /\ pc'[w] = "idle" /\ jobs'[job[w]] # jobs[job[w]]
             => jobs[job[w]].token \in {0, token[w]}]_vars
  BY DEF ClaimHeld, Busy
<1> QED BY <1>1, HeldInit, HeldNext, QueueInit, QueueNext, PTL DEF Spec, NoStaleCommit
=============================================================================
