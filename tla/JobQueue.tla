------------------------------ MODULE JobQueue ------------------------------
(***************************************************************************)
(* The database-backed job queue (services/jobs.py) and the worker loop    *)
(* that drives it (workers/main.py): leased claims with a fresh token per  *)
(* claim, heartbeats, retry with backoff, reconciliation of exhausted      *)
(* leases and cancellation of a run's jobs.                                *)
(*                                                                         *)
(* A handler is one action only where the database makes it one.           *)
(* heartbeat, complete and fail read the row with an unlocked              *)
(* session.get, check status and token, and write with UPDATE .. WHERE id  *)
(* at flush: the check and the write are two actions.  claim_next locks    *)
(* the rows it touches (FOR UPDATE SKIP LOCKED) but reads the runs of      *)
(* exhausted jobs without a lock: the read and the commit are two actions  *)
(* and the locked rows block the writers in between.                       *)
(*                                                                         *)
(* Time is kept as the seconds left until each deadline, 0 being "due":    *)
(* Tick takes one second off every deadline, pending ones included, so     *)
(* time needs no bound.  All machines read the same clock.                 *)
(***************************************************************************)
EXTENDS Integers, FiniteSets

CONSTANTS
  Jobs,           \* idempotency keys, hence rows of agent_jobs
  Runs,           \* rows of agent_runs
  RunOf,          \* the run each job belongs to
  Workers,        \* worker processes
  LeaseSeconds,   \* settings.job_lease_seconds
  MaxAttempts,    \* AgentJob.max_attempts
  None,           \* no job
  MaxCrashes      \* bound: how many times a worker process may crash

ASSUME RunOfAssumption == RunOf \in [Jobs -> Runs]
ASSUME NoneAssumption == None \notin Jobs
ASSUME LimitsAssumption ==
  /\ LeaseSeconds \in Nat \ {0}
  /\ MaxAttempts \in Nat \ {0}
  /\ MaxCrashes \in Nat

VARIABLES
  jobs,      \* job -> [status, token, lease, wait, attempts]
  runs,      \* run -> status, "absent" before the row is inserted
  issued,    \* number of claim tokens generated so far (uuid4 never repeats)
  pc,        \* worker -> where process_one_job stands
  job,       \* worker -> the job it claimed or None
  token,     \* worker -> the claim token it holds, 0 for none
  beat,      \* worker -> the heartbeat task: off, on, or checked and about to write
  deadline,  \* worker -> lease or retry time its open transaction will write
  spent,     \* worker -> exhausted jobs its claim transaction has locked
  due,       \* worker -> jobs that were due at its claim's timestamp
  seen,      \* worker -> runs its transaction has read as active
  verdict,   \* worker -> what its finish transaction decided
  crashes    \* crashes so far

queueVars  == <<jobs, issued>>
workerVars == <<pc, job, token, beat, deadline, spent, due, seen, verdict>>
vars == <<queueVars, runs, workerVars, crashes>>

JobStatus == {"absent", "queued", "claimed", "completed", "failed", "cancelled"}
Settled   == {"completed", "failed", "cancelled"}
RunStatus == {"absent", "queued", "running", "waiting_for_user", "partial",
              "failed", "completed", "cancelled"}
ActiveRun == {"queued", "running", "waiting_for_user"}
PC == {"idle", "claiming", "executing", "stopping", "reading", "writing"}

Row == [status : JobStatus, token : Nat, lease : Nat, wait : Nat, attempts : 0..MaxAttempts]
NoRow == [status |-> "absent", token |-> 0, lease |-> 0, wait |-> 0, attempts |-> 0]

\* min(60, 2 ** max(0, attempts - 1)) seconds
Backoff(attempts) ==
  IF attempts \in 1..6 THEN <<1, 2, 4, 8, 16, 32>>[attempts] ELSE 60

Less(n) == IF n > 0 THEN n - 1 ELSE 0

\* Mutant: the token survives the claim
MutKeepToken(row) == [row EXCEPT !.lease = 0]

\* _clear_claim: NULL lease columns are never read, they are 0 here
Cleared(row) == [row EXCEPT !.token = 0, !.lease = 0]

\* Mutant: no FOR UPDATE
MutNoRowLock(j) == FALSE

\* rows held FOR UPDATE by an open claim transaction
Locked(j) == \E w \in Workers : pc[w] = "claiming" /\ j \in spent[w]

Owns(w) == jobs[job[w]].status = "claimed" /\ jobs[job[w]].token = token[w]

Init ==
  /\ jobs = [j \in Jobs |-> NoRow]
  /\ runs = [r \in Runs |-> "absent"]
  /\ issued = 0
  /\ pc = [w \in Workers |-> "idle"]
  /\ job = [w \in Workers |-> None]
  /\ token = [w \in Workers |-> 0]
  /\ beat = [w \in Workers |-> "off"]
  /\ deadline = [w \in Workers |-> 0]
  /\ spent = [w \in Workers |-> {}]
  /\ due = [w \in Workers |-> {}]
  /\ seen = [w \in Workers |-> {}]
  /\ verdict = [w \in Workers |-> "complete"]
  /\ crashes = 0

-----------------------------------------------------------------------------
(* API requests and the environment *)

\* enqueue, from PlanningRunService.start (the run is new) or
\* answer_clarifications (the run is queued or waiting): an unused key inserts
\* a row.  A used key returns the row it finds, which changes nothing.
Enqueue(j) ==
  /\ jobs[j].status = "absent"
  /\ runs[RunOf[j]] \in {"absent", "queued", "waiting_for_user"}
  /\ jobs' = [jobs EXCEPT ![j].status = "queued"]
  /\ runs' = [runs EXCEPT ![RunOf[j]] = "queued"]
  /\ UNCHANGED <<issued, workerVars, crashes>>

\* PlanningRunService.cancel of a run that is not running: the run and, with
\* one UPDATE, its queued and claimed jobs
CancelRun(r) ==
  /\ runs[r] \in {"queued", "waiting_for_user", "partial"}
  /\ \A j \in Jobs : RunOf[j] = r => ~Locked(j)
  /\ runs' = [runs EXCEPT ![r] = "cancelled"]
  /\ jobs' = [j \in Jobs |->
                IF RunOf[j] = r /\ jobs[j].status \in {"queued", "claimed"}
                  THEN [Cleared(jobs[j]) EXCEPT !.status = "cancelled"]
                  ELSE jobs[j]]
  /\ UNCHANGED <<issued, workerVars, crashes>>

\* the passing of one second
Tick ==
  /\ jobs' = [j \in Jobs |-> [jobs[j] EXCEPT !.lease = Less(@), !.wait = Less(@)]]
  /\ deadline' = [w \in Workers |-> Less(deadline[w])]
  /\ UNCHANGED <<runs, issued, pc, job, token, beat, spent, due, seen, verdict, crashes>>

-----------------------------------------------------------------------------
(* claim_next *)

\* Mutant: attempts > max_attempts
MutNeverExhausted(j) ==
  jobs[j].status = "claimed" /\ jobs[j].attempts > MaxAttempts /\ jobs[j].lease = 0

Exhausted(j) ==
  jobs[j].status = "claimed" /\ jobs[j].attempts >= MaxAttempts /\ jobs[j].lease = 0

\* Mutants: no attempts < max_attempts; a spent lease looked for whatever the status
MutNoAttemptLimit(j) ==
  \/ jobs[j].status = "queued" /\ jobs[j].wait = 0
  \/ jobs[j].status = "claimed" /\ jobs[j].lease = 0
MutAnyStatus(j) ==
  /\ jobs[j].attempts < MaxAttempts
  /\ \/ jobs[j].status = "queued" /\ jobs[j].wait = 0
     \/ jobs[j].status # "absent" /\ jobs[j].lease = 0

Claimable(j) ==
  /\ jobs[j].attempts < MaxAttempts
  /\ \/ jobs[j].status = "queued" /\ jobs[j].wait = 0
     \/ jobs[j].status = "claimed" /\ jobs[j].lease = 0

\* Lock the exhausted claims that no one else has locked and read their runs.
\* The timestamp of the whole call is taken here: it fixes the new deadline and
\* which jobs are due.
ClaimBegin(w) ==
  /\ pc[w] = "idle"
  /\ LET exhausted == {j \in Jobs : Exhausted(j) /\ ~Locked(j)} IN
       /\ spent' = [spent EXCEPT ![w] = exhausted]
       /\ seen' = [seen EXCEPT ![w] =
                     {r \in Runs : runs[r] \in ActiveRun /\ \E j \in exhausted : RunOf[j] = r}]
  /\ due' = [due EXCEPT ![w] = {j \in Jobs : Claimable(j)}]
  /\ deadline' = [deadline EXCEPT ![w] = LeaseSeconds]
  /\ pc' = [pc EXCEPT ![w] = "claiming"]
  /\ UNCHANGED <<queueVars, runs, job, token, beat, verdict, crashes>>

\* The exhausted jobs as reconciled: failed, claim cleared
Reconciled(w) ==
  [j \in Jobs |-> IF j \in spent[w] THEN [Cleared(jobs[j]) EXCEPT !.status = "failed"]
                                    ELSE jobs[j]]

\* _fail_active_run, for the runs this transaction has read as active
FailedRuns(w) == [r \in Runs |-> IF r \in seen[w] THEN "failed" ELSE runs[r]]

Claimed(row, t, lease) ==
  [row EXCEPT !.status = "claimed", !.token = t, !.lease = lease, !.attempts = @ + 1]

\* Reconcile, take one due job if there is one (any: the order by timestamp is
\* left open), and commit.
ClaimCommit(w) ==
  /\ pc[w] = "claiming"
  /\ runs' = FailedRuns(w)
  /\ spent' = [spent EXCEPT ![w] = {}]
  /\ seen' = [seen EXCEPT ![w] = {}]
  /\ due' = [due EXCEPT ![w] = {}]
  /\ deadline' = [deadline EXCEPT ![w] = 0]
  /\ LET ready == {j \in due[w] : Claimable(j)} IN
       \/ /\ ready = {}
          /\ jobs' = Reconciled(w)
          /\ pc' = [pc EXCEPT ![w] = "idle"]
          /\ UNCHANGED <<issued, job, token, beat>>
       \/ \E j \in ready :
            /\ jobs' = [Reconciled(w) EXCEPT
                          ![j] = Claimed(@, issued + 1, deadline[w])]
            /\ issued' = issued + 1
            /\ job' = [job EXCEPT ![w] = j]
            /\ token' = [token EXCEPT ![w] = issued + 1]
            /\ beat' = [beat EXCEPT ![w] = "on"]
            /\ pc' = [pc EXCEPT ![w] = "executing"]
  /\ UNCHANGED <<verdict, crashes>>

-----------------------------------------------------------------------------
(* The heartbeat task, beside the workflow; it is awaited before the job is   *)
(* finished.                                                                  *)

\* heartbeat: _claimed passes; a failed check stops the task for good
HeartbeatCheck(w) ==
  /\ pc[w] = "executing" /\ beat[w] = "on"
  /\ IF Owns(w)
       THEN /\ beat' = [beat EXCEPT ![w] = "writing"]
            /\ deadline' = [deadline EXCEPT ![w] = LeaseSeconds]
       ELSE /\ beat' = [beat EXCEPT ![w] = "off"]
            /\ UNCHANGED deadline
  /\ UNCHANGED <<queueVars, runs, pc, job, token, spent, due, seen, verdict, crashes>>

\* UPDATE agent_jobs SET lease_expires_at .. WHERE id
HeartbeatWrite(w) ==
  /\ beat[w] = "writing" /\ ~Locked(job[w])
  /\ jobs' = [jobs EXCEPT ![job[w]].lease = deadline[w]]
  /\ beat' = [beat EXCEPT ![w] = IF pc[w] = "executing" THEN "on" ELSE "off"]
  /\ deadline' = [deadline EXCEPT ![w] = 0]
  /\ UNCHANGED <<runs, issued, pc, job, token, spent, due, seen, verdict, crashes>>

-----------------------------------------------------------------------------
(* The workflow and the finish transaction *)

\* A status the workflow of this job commits on its run.  No claim is checked.
WorkflowWrites(w) ==
  /\ pc[w] = "executing"
  /\ \E status \in {"running", "waiting_for_user", "partial", "failed", "completed", "cancelled"} :
       runs' = [runs EXCEPT ![RunOf[job[w]]] = status]
  /\ UNCHANGED <<queueVars, workerVars, crashes>>

\* The workflow returns or raises: the heartbeat task is told to stop, and
\* awaited if it is in the middle of a write.
WorkflowEnds(w) ==
  /\ pc[w] = "executing"
  /\ pc' = [pc EXCEPT ![w] = "stopping"]
  /\ beat' = [beat EXCEPT ![w] = IF @ = "writing" THEN @ ELSE "off"]
  /\ UNCHANGED <<queueVars, runs, job, token, deadline, spent, due, seen, verdict, crashes>>

\* Back to the top of the worker loop
GoesIdle(w) ==
  /\ pc' = [pc EXCEPT ![w] = "idle"]
  /\ token' = [token EXCEPT ![w] = 0]
  /\ beat' = [beat EXCEPT ![w] = "off"]
  /\ seen' = [seen EXCEPT ![w] = {}]
  /\ spent' = [spent EXCEPT ![w] = {}]
  /\ due' = [due EXCEPT ![w] = {}]
  /\ deadline' = [deadline EXCEPT ![w] = 0]
  /\ verdict' = [verdict EXCEPT ![w] = "complete"]
  /\ job' = [job EXCEPT ![w] = None]

\* The finish transaction's _claimed rejects the worker: StaleJobClaimError,
\* rollback
FinishStale(w) ==
  /\ pc[w] = "stopping" /\ beat[w] = "off" /\ ~Owns(w)
  /\ GoesIdle(w)
  /\ UNCHANGED <<queueVars, runs, crashes>>

\* Mutant: attempts <= max_attempts
MutRetryTooOften(j) == jobs[j].attempts <= MaxAttempts

Retryable(j) == jobs[j].attempts < MaxAttempts

\* complete or fail(retryable=True): _claimed passes; which one depends on how
\* the workflow ended
FinishCheck(w) ==
  /\ pc[w] = "stopping" /\ beat[w] = "off" /\ Owns(w)
  /\ \E next \in {"complete",
                  IF Retryable(job[w]) THEN "retry" ELSE "fail"} :
       /\ verdict' = [verdict EXCEPT ![w] = next]
       /\ pc' = [pc EXCEPT ![w] = IF next = "fail" THEN "reading" ELSE "writing"]
       /\ deadline' = [deadline EXCEPT ![w] =
                         IF next = "retry" THEN Backoff(jobs[job[w]].attempts) ELSE 0]
  /\ UNCHANGED <<queueVars, runs, job, token, beat, spent, due, seen, crashes>>

\* fail without retry: _fail_active_run reads the run
FinishReadRun(w) ==
  /\ pc[w] = "reading"
  /\ seen' = [seen EXCEPT ![w] = {r \in {RunOf[job[w]]} : runs[r] \in ActiveRun}]
  /\ pc' = [pc EXCEPT ![w] = "writing"]
  /\ UNCHANGED <<queueVars, runs, job, token, beat, deadline, spent, due, verdict, crashes>>

\* Flush and commit: UPDATE agent_jobs .. WHERE id, whatever the row holds now
FinishWrite(w) ==
  /\ pc[w] = "writing" /\ ~Locked(job[w])
  /\ jobs' = [jobs EXCEPT ![job[w]] =
       CASE verdict[w] = "complete" -> [Cleared(@) EXCEPT !.status = "completed"]
         [] verdict[w] = "fail"     -> [Cleared(@) EXCEPT !.status = "failed"]
         [] verdict[w] = "retry"    -> [Cleared(@) EXCEPT !.status = "queued",
                                                          !.wait = deadline[w]]]
  /\ runs' = FailedRuns(w)
  /\ GoesIdle(w)
  /\ UNCHANGED <<issued, crashes>>

-----------------------------------------------------------------------------
\* The process dies: its open transaction rolls back, nothing it committed is
\* undone, and the process that replaces it starts idle.
Crash(w) ==
  /\ crashes < MaxCrashes
  /\ pc[w] # "idle"
  /\ crashes' = crashes + 1
  /\ GoesIdle(w)
  /\ UNCHANGED <<queueVars, runs>>

WorkerStep(w) ==
  \/ ClaimBegin(w)
  \/ ClaimCommit(w)
  \/ HeartbeatCheck(w)
  \/ HeartbeatWrite(w)
  \/ WorkflowWrites(w)
  \/ WorkflowEnds(w)
  \/ FinishStale(w)
  \/ FinishCheck(w)
  \/ FinishReadRun(w)
  \/ FinishWrite(w)

Next ==
  \/ \E j \in Jobs : Enqueue(j)
  \/ \E r \in Runs : CancelRun(r)
  \/ \E w \in Workers : WorkerStep(w)
  \/ \E w \in Workers : Crash(w)
  \/ Tick

Spec == Init /\ [][Next]_vars

\* A live worker keeps taking its steps: the loop never leaves a transaction
\* open, every provider call has a timeout, so the workflow ends.  Time passes.
\* Nobody has to enqueue, cancel, write a run or crash.
FairSpec ==
  /\ Spec
  /\ WF_vars(Tick)
  /\ \A w \in Workers :
       /\ WF_vars(ClaimBegin(w)) /\ WF_vars(ClaimCommit(w))
       /\ WF_vars(HeartbeatWrite(w)) /\ WF_vars(WorkflowEnds(w))
       /\ WF_vars(FinishStale(w) \/ FinishCheck(w))
       /\ WF_vars(FinishReadRun(w)) /\ WF_vars(FinishWrite(w))

-----------------------------------------------------------------------------
(* Properties *)

TypeOK ==
  /\ jobs \in [Jobs -> Row]
  /\ runs \in [Runs -> RunStatus]
  /\ issued \in Nat
  /\ pc \in [Workers -> PC]
  /\ job \in [Workers -> Jobs \cup {None}]
  /\ token \in [Workers -> Nat]
  /\ beat \in [Workers -> {"off", "on", "writing"}]
  /\ deadline \in [Workers -> Nat]
  /\ spent \in [Workers -> SUBSET Jobs]
  /\ due \in [Workers -> SUBSET Jobs]
  /\ seen \in [Workers -> SUBSET Runs]
  /\ verdict \in [Workers -> {"complete", "retry", "fail"}]
  /\ crashes \in 0..MaxCrashes

\* A row is claimed exactly when it carries a token, a token is on one row only
\* and in the hands of one worker only, and a worker that holds the token of a
\* row is working on that row: whatever writes overlap, no two workers can both
\* pass the _claimed check of a job.
OneOwner ==
  /\ \A j \in Jobs : jobs[j].status = "claimed" <=> jobs[j].token # 0
  /\ \A j, k \in Jobs : jobs[j].token = jobs[k].token /\ j # k => jobs[j].token = 0
  /\ \A v, w \in Workers : token[v] = token[w] /\ v # w => token[v] = 0
  /\ \A j \in Jobs, w \in Workers :
       jobs[j].token = token[w] /\ token[w] # 0 => job[w] = j

Writing(w, j) == pc[w] = "writing" /\ job[w] = j /\ pc'[w] = "idle"

\* A claim whose lease has not run out is never taken over or failed by another
\* worker's claim_next: it ends by cancellation or by the write of a finish
\* transaction that had passed its check.  Reconciliation, which decides on a
\* lease it read before it commits, is covered by its row locks.
LeaseProtectsClaim ==
  [][\A j \in Jobs :
       jobs[j].status = "claimed" /\ jobs[j].lease > 0 /\ jobs'[j].token # jobs[j].token
         => \/ jobs'[j].status = "cancelled"
            \/ \E w \in Workers : Writing(w, j)]_vars

\* A settled job (completed, failed, cancelled) is out of claim_next's,
\* reconciliation's, enqueue's and cancellation's reach: the one thing that still
\* changes it is a finish transaction that was past its check when it settled.
SettledJobStays ==
  [][\A j \in Jobs :
       jobs[j].status \in Settled /\ jobs'[j].status # jobs[j].status
         => /\ jobs'[j].status # "claimed"
            /\ \E w \in Workers : Writing(w, j)]_vars

\* What the plan says of the claim token: "Claim token prevents stale worker
\* commit".  A finish that commits never overwrites the claim of another worker.
NoStaleCommit ==
  [][\A w \in Workers :
       pc[w] = "writing" /\ pc'[w] = "idle" /\ jobs'[job[w]] # jobs[job[w]]
         => jobs[job[w]].token \in {0, token[w]}]_vars

\* Every job that is enqueued settles: it is completed, failed or cancelled.  One
\* that is queued with all its attempts used would be skipped by claim_next and
\* by reconciliation alike, forever.  (With one worker: a second one can take the
\* job between the check and the write of fail.)
JobSettles ==
  \A j \in Jobs : jobs[j].status = "queued" ~> jobs[j].status \in Settled

\* A run whose worker dies on the last attempt is not left queued or running
\* by the queue: some later claim_next, finding the lease run out, fails the
\* job.
SpentClaimIsReconciled ==
  \A j \in Jobs :
    (jobs[j].status = "claimed" /\ jobs[j].attempts = MaxAttempts)
      ~> jobs[j].status # "claimed"
=============================================================================
