------------------------------- MODULE Reports -------------------------------
(***************************************************************************)
(* Reports of the active plan, and the owner's budget they are admitted    *)
(* under.                                                                  *)
(*                                                                         *)
(* ReportService.start takes the admission lock of the owner, adds up what *)
(* the owner's runs reserve or have used, collects the facts of the        *)
(* report, and inserts a run with the facts in it; its commit, or a        *)
(* roll-back on the way, gives the lock up.  ReportingWorkflow asks for a  *)
(* narrative between two transactions and stores one report for equal      *)
(* facts: with the narrative, or without it as a partial report.           *)
(*                                                                         *)
(* Facts are the state the snapshot was taken of and the state the events  *)
(* and rows were read in, which may be later.  Projects, periods and the   *)
(* wording of a report are left out: the runs here differ in their         *)
(* idempotency key only.  Jobs are those of JobQueue, seen from one run.   *)
(***************************************************************************)
EXTENDS Naturals, FiniteSets, FiniteSetsExt

CONSTANTS
  Clients,      \* request sessions
  Workers,      \* worker processes
  Keys,         \* idempotency keys: one reporting run each
  MaxState,     \* bound: mutations of the active plan
  Budget,       \* user_daily_token_budget
  Reserve,      \* what a reporting run reserves (8_000)
  Used,         \* what a narrative costs
  MaxAttempts,  \* max_attempts of a job
  Provider      \* is an AI provider configured

States == 0..MaxState

ASSUME KeysAssumption == IsFiniteSet(Keys)
ASSUME BoundsAssumption ==
  {MaxState, Budget} \subseteq Nat /\ {Reserve, MaxAttempts} \subseteq Nat \ {0}
\* The run's own budget is not enforced on the one call of a report
ASSUME UsedAssumption == Used \in 1..Reserve
ASSUME ProviderAssumption == Provider \in BOOLEAN

VARIABLES
  state,      \* the current state of the execution
  snapshots,  \* the states with a committed monitoring snapshot
  lock,       \* the clients that hold the admission lock of the owner
  tx,         \* client -> what its request is doing
  runs,       \* key -> its reporting run
  jobs,       \* key -> [status, attempts, by] of the run's job
  reports,    \* the rows of reports
  wk          \* worker -> what it is doing

vars == <<state, snapshots, lock, tx, runs, jobs, reports, wk>>

Active == {"queued", "running"}
Settled == {"completed", "partial"}
Facts == [of : States, rows : States]
NoFacts == [of |-> 0, rows |-> 0]

\* alone: the run went in under the lock its quota was read under, and no
\* later write has taken it out of failed or cancelled
NoRun == [status |-> "none", facts |-> NoFacts, tokens |-> 0, alone |-> TRUE]
IdleClient == [pc |-> "idle", key |-> "none", of |-> 0, new |-> FALSE]
IdleWorker == [pc |-> "idle", key |-> "none", narrated |-> FALSE, had |-> 0, found |-> FALSE]

Init ==
  /\ state = 0 /\ snapshots = {} /\ lock = {}
  /\ tx = [c \in Clients |-> IdleClient]
  /\ runs = [k \in Keys |-> NoRun]
  /\ jobs = [k \in Keys |-> [status |-> "none", attempts |-> 0, by |-> "none"]]
  /\ reports = {}
  /\ wk = [w \in Workers |-> IdleWorker]

----------------------------------------------------------------------------
(* The plan *)

\* bound: when the last run is in, nobody here reads the plan any more
Read == \E k \in Keys : runs[k].status = "none"

\* ExecutionService commits a mutation; another reader commits a snapshot
Mutate ==
  /\ state < MaxState /\ Read
  /\ state' = state + 1
  /\ UNCHANGED <<snapshots, lock, tx, runs, jobs, reports, wk>>

Board ==
  /\ state \notin snapshots /\ Read
  /\ \A c \in Clients : ~ (tx[c].new /\ tx[c].of = state)
  /\ snapshots' = snapshots \cup {state}
  /\ UNCHANGED <<state, lock, tx, runs, jobs, reports, wk>>

----------------------------------------------------------------------------
(* ReportService.start *)

Step(c, record) == tx' = [tx EXCEPT ![c] = record]

\* What a run counts for in the owner's quota
Counted(k) ==
  IF runs[k].status \in Active THEN Reserve ELSE runs[k].tokens

ReservedOrUsed == MapThenSumSet(Counted, Keys)

\* An exception, or an answer without effect: the transaction ends
Leave(c) ==
  /\ Step(c, IdleClient) /\ lock' = lock \ {c}
  /\ UNCHANGED <<state, snapshots, runs, jobs, reports, wk>>

MutLockFree == TRUE

LockFree == lock = {}

\* A known key answers again and does nothing.  assert_can_start waits for the
\* lock, then reads the totals; ensure_current looks for a snapshot of the
\* current state.  What another request inserts between the look for the key and
\* the lock is refused at the insert, so the three are one step
Start(c, k) ==
  /\ tx[c].pc = "idle" /\ runs[k].status = "none" /\ LockFree
  /\ ReservedOrUsed + Reserve <= Budget
  /\ lock' = lock \cup {c}
  /\ Step(c, [IdleClient EXCEPT !.key = k, !.of = state,
                 !.pc = IF state \in snapshots THEN "insert" ELSE "compute"])
  /\ UNCHANGED <<state, snapshots, runs, jobs, reports, wk>>

\* The INSERT of recalculate waits for the same one of another session.  Was it
\* committed, the whole transaction is rolled back, the lock given up with it,
\* and the request goes on
Compute(c) ==
  /\ tx[c].pc = "compute"
  /\ \A d \in Clients : ~ (tx[d].new /\ tx[d].of = tx[c].of)
  /\ \/ state # tx[c].of /\ Leave(c)
     \/ LET late == tx[c].of \in snapshots IN
        /\ Step(c, [tx[c] EXCEPT !.pc = "insert", !.new = ~ late])
        /\ lock' = IF late THEN lock \ {c} ELSE lock
        /\ UNCHANGED <<state, snapshots, runs, jobs, reports, wk>>

\* aggregate reads the events and the rows of the tasks again; the run with these
\* facts, its job and the snapshot are committed, unless the key was used
Insert(c) ==
  LET k == tx[c].key IN
  /\ tx[c].pc = "insert"
  /\ IF runs[k].status # "none" THEN Leave(c)
     ELSE /\ runs' = [runs EXCEPT ![k] = [NoRun EXCEPT !.status = "queued",
                        !.facts = [of |-> tx[c].of, rows |-> state],
                        !.alone = c \in lock]]
          /\ jobs' = [jobs EXCEPT ![k].status = "queued"]
          /\ snapshots' = IF tx[c].new THEN snapshots \cup {tx[c].of} ELSE snapshots
          /\ Step(c, IdleClient) /\ lock' = lock \ {c}
          /\ UNCHANGED <<state, reports, wk>>

\* RunService.cancel takes the run of any workflow
Cancel(k) ==
  /\ runs[k].status \in {"queued", "partial"}
  /\ runs' = [runs EXCEPT ![k].status = "cancelled"]
  /\ jobs' = IF jobs[k].status \in {"queued", "claimed"}
             THEN [jobs EXCEPT ![k].status = "cancelled", ![k].by = "none"] ELSE jobs
  /\ UNCHANGED <<state, snapshots, lock, tx, reports, wk>>

----------------------------------------------------------------------------
(* The worker *)

Do(w, record) == wk' = [wk EXCEPT ![w] = record]
At(w, pc) == wk[w].pc = pc
Key(w) == wk[w].key
Settling(w) == [IdleWorker EXCEPT !.pc = "settle", !.key = Key(w)]

Claimable(k) == jobs[k].status \in {"queued", "claimed"} /\ jobs[k].attempts < MaxAttempts

\* A claim whose lease has run out may be that of a worker that is still alive
Deliver(w, k) ==
  /\ At(w, "idle") /\ Claimable(k)
  /\ jobs' = [jobs EXCEPT ![k] = [status |-> "claimed", attempts |-> @.attempts + 1, by |-> w]]
  /\ wk' = [v \in Workers |->
       IF v = w THEN [IdleWorker EXCEPT !.pc = "begin", !.key = k] ELSE wk[v]]
  /\ UNCHANGED <<state, snapshots, lock, tx, runs, reports>>

MutReopens(k) == TRUE

\* A run that has its report is not told again; every other one is
Reopens(k) == runs[k].status \notin Settled

Revives(k) == runs[k].status \notin Active \cup {"none"}

\* The run is read under a row lock and written running, whatever it was
Begin(w) ==
  /\ At(w, "begin")
  /\ IF Reopens(Key(w))
     THEN /\ runs' = [runs EXCEPT ![Key(w)].status = "running",
                                  ![Key(w)].alone = @ /\ ~ Revives(Key(w))]
          /\ Do(w, [wk[w] EXCEPT !.pc = "narrate", !.had = runs[Key(w)].tokens])
     ELSE UNCHANGED runs /\ Do(w, Settling(w))
  /\ UNCHANGED <<state, snapshots, lock, tx, jobs, reports>>

ReportsOf(facts) == {r \in reports : r.facts = facts}

\* A narrative, or none: no provider, an error of it, or unsupported claims.
\* Then persist looks for a report of the same facts
Narrate(w) ==
  /\ At(w, "narrate")
  /\ \E n \in IF Provider THEN BOOLEAN ELSE {FALSE} :
       Do(w, [wk[w] EXCEPT !.pc = "persist", !.narrated = n,
                !.found = ReportsOf(runs[Key(w)].facts) # {}])
  /\ UNCHANGED <<state, snapshots, lock, tx, runs, jobs, reports>>

Written(w) == [facts |-> runs[Key(w)].facts,
               status |-> IF wk[w].narrated THEN "completed" ELSE "partial"]

Cost(w) == IF wk[w].narrated THEN Used ELSE 0

MutOutcome(w, r) == IF wk[w].narrated THEN "completed" ELSE "partial"

\* The run takes the status of the report it is given
Outcome(w, r) == r.status

\* The unique key of reports refuses a second one; the tokens are written only
\* when they differ from those the session loaded
Persist(w) ==
  LET k == Key(w)
      r == IF wk[w].found THEN CHOOSE x \in ReportsOf(runs[k].facts) : TRUE ELSE Written(w)
  IN
  /\ At(w, "persist")
  /\ wk[w].found \/ ReportsOf(runs[k].facts) = {}
  /\ reports' = reports \cup {r}
  /\ runs' = [runs EXCEPT ![k].status = Outcome(w, r),
                          ![k].tokens = IF Cost(w) = wk[w].had THEN @ ELSE Cost(w),
                          ![k].alone = @ /\ ~ Revives(k)]
  /\ Do(w, Settling(w))
  /\ UNCHANGED <<state, snapshots, lock, tx, jobs>>

\* The token of the claim: a stale one is refused
Mine(w) == jobs[Key(w)].status = "claimed" /\ jobs[Key(w)].by = w

\* JobQueue.complete
Settle(w) ==
  /\ At(w, "settle")
  /\ jobs' = IF Mine(w) THEN [jobs EXCEPT ![Key(w)].status = "completed", ![Key(w)].by = "none"]
             ELSE jobs
  /\ Do(w, IdleWorker)
  /\ UNCHANGED <<state, snapshots, lock, tx, runs, reports>>

\* The job has no attempt left: the run it belongs to fails, if it is active
FailJob(k) ==
  /\ jobs' = [jobs EXCEPT ![k].status = "failed", ![k].by = "none"]
  /\ runs' = [runs EXCEPT ![k].status = IF @ \in Active THEN "failed" ELSE @]

\* An exception in the workflow, a report that another session inserted among
\* them: JobQueue.fail
Fail(w) ==
  /\ wk[w].pc \in {"begin", "narrate", "persist"}
  /\ IF ~ Mine(w) THEN UNCHANGED <<jobs, runs>>
     ELSE IF jobs[Key(w)].attempts < MaxAttempts
     THEN UNCHANGED runs /\ jobs' = [jobs EXCEPT ![Key(w)].status = "queued", ![Key(w)].by = "none"]
     ELSE FailJob(Key(w))
  /\ Do(w, IdleWorker)
  /\ UNCHANGED <<state, snapshots, lock, tx, reports>>

\* claim_next ends a claim on its last attempt when its lease has run out
Reconcile(k) ==
  /\ jobs[k].status = "claimed" /\ jobs[k].attempts = MaxAttempts
  /\ FailJob(k)
  /\ UNCHANGED <<state, snapshots, lock, tx, reports, wk>>

\* The worker dies and is started again; its claim stays
Crash(w) ==
  /\ ~ At(w, "idle") /\ Do(w, IdleWorker)
  /\ UNCHANGED <<state, snapshots, lock, tx, runs, jobs, reports>>

----------------------------------------------------------------------------
Request(c) ==
  \/ \E k \in Keys : Start(c, k)
  \/ Compute(c) \/ Insert(c)

Work(w) ==
  \/ \E k \in Keys : Deliver(w, k)
  \/ Begin(w) \/ Narrate(w) \/ Persist(w) \/ Settle(w) \/ Fail(w) \/ Crash(w)

Next ==
  \/ Mutate \/ Board
  \/ \E c \in Clients : Request(c)
  \/ \E w \in Workers : Work(w)
  \/ \E k \in Keys : Cancel(k) \/ Reconcile(k)

Spec == Init /\ [][Next]_vars

----------------------------------------------------------------------------
(* Properties *)

\* The type of every variable
TypeOK ==
  /\ state \in States /\ snapshots \subseteq States /\ lock \subseteq Clients
  /\ tx \in [Clients -> [pc : {"idle", "compute", "insert"},
                         key : Keys \cup {"none"}, of : States, new : BOOLEAN]]
  /\ runs \in [Keys -> [status : Active \cup Settled \cup {"none", "failed", "cancelled"},
                        facts : Facts, tokens : {0, Used}, alone : BOOLEAN]]
  /\ jobs \in [Keys -> [status : {"none", "queued", "claimed", "completed", "failed", "cancelled"},
                        attempts : 0..MaxAttempts, by : Workers \cup {"none"}]]
  /\ reports \subseteq [facts : Facts, status : Settled]
  /\ wk \in [Workers -> [pc : {"idle", "begin", "narrate", "persist", "settle"},
                         key : Keys \cup {"none"}, narrated : BOOLEAN, had : {0, Used},
                         found : BOOLEAN]]

\* "Duplicate input hash returns existing report" (IMPLEMENTATION PLAN.MD:368):
\* through deliveries that overlap, crashes, retries and a second run with the
\* same facts, there is one report of them and every settled run says of it
\* what it is
RunsAgreeWithReport ==
  /\ \A r, q \in reports : r.facts = q.facts => r = q
  /\ \A k \in Keys : runs[k].status \in Settled =>
       [facts |-> runs[k].facts, status |-> runs[k].status] \in reports

\* A run that has told its owner it is settled is not taken back by another
\* delivery of its job; only the owner's cancel withdraws a partial one
SettledRunStays ==
  [][\A k \in Keys : runs[k].status \in Settled =>
       runs'[k].status = runs[k].status \/ (runs[k].status = "partial"
                                            /\ runs'[k].status = "cancelled")]_vars

\* The lock makes the quota hold: what is reserved and used exceeds the budget
\* only by runs that went in after their lock was given up, or that a worker
\* took out of failed or cancelled
BudgetKept ==
  ReservedOrUsed <= Budget + Reserve * Cardinality({k \in Keys : ~ runs[k].alone})

\* "Safe reservation for queued and active runs" (budgets.py:1): the quota itself.
\* It does not hold, for the runs that BudgetKept excepts
NeverOverbooked == ReservedOrUsed <= Budget
=============================================================================
