----------------------------- MODULE Monitoring -----------------------------
(***************************************************************************)
(* Monitoring of the active plan and the recommendations it raises.        *)
(*                                                                         *)
(* Every mutation of the execution commits a new state (current_state_hash *)
(* covers the row versions, so no state comes back: states are numbered),  *)
(* a monitoring run keyed by that state and a job for it.  The run is      *)
(* settled by whoever is first: the request itself, in a second            *)
(* transaction whose errors are swallowed (_monitor_inline), or the worker *)
(* that claims the job (MonitoringWorkflow).  Boards and reports compute   *)
(* the snapshot of the current state without a run (ensure_current).       *)
(*                                                                         *)
(* A session is one transaction at a time.  What it inserted is unseen     *)
(* until its commit, and an INSERT of the same unique key waits for it; so *)
(* does an UPDATE of a row another session holds.  A SELECT does not       *)
(* overwrite what the session already holds (the identity map): a request  *)
(* goes on seeing the state it committed until a rollback makes it read    *)
(* again.  The facts of a plan are one value here; PlanForecast computes   *)
(* what is detected in them.                                               *)
(***************************************************************************)
EXTENDS Naturals, Sequences, FiniteSets

CONSTANTS
  Clients,      \* request sessions
  Worker,       \* the session of the worker
  MaxState,     \* bound: mutations of the active plan
  Detecting,    \* the states in which a condition with a template is detected
  Provider,     \* is an AI provider configured
  MaxAttempts,  \* max_attempts of the job
  Keys,         \* idempotency keys of decisions
  MaxVersion    \* bound: row_version of a recommendation

States == 1..MaxState
Sessions == Clients \cup {Worker}

ASSUME SessionsAssumption == Worker \notin Clients
ASSUME BoundsAssumption == {MaxState, MaxAttempts, MaxVersion} \subseteq Nat \ {0}
ASSUME DetectingAssumption == Detecting \subseteq States /\ Provider \in BOOLEAN

VARIABLES
  state,      \* the current state of the execution, 0 before the first mutation
  run,        \* state -> [status, snapshot] of its monitoring run
  job,        \* state -> [status, attempts] of its job
  snapshot,   \* state -> the facts its monitoring_snapshots row was computed from
  recs,       \* the rows of recommendations, in the order of their commits
  decided,    \* key -> [rec, decision], the rows of recommendation_decisions
  tx          \* session -> what it is doing

vars == <<state, run, job, snapshot, recs, decided, tx>>

Idle == [pc |-> "idle", kind |-> "none", of |-> 0, facts |-> 0, own |-> FALSE,
         inserted |-> FALSE, rec |-> 0, seen |-> 0, created |-> FALSE,
         narrated |-> "none", held |-> FALSE]

Live == {"open", "deferred"}
Outcome == [accept |-> "accepted", dismiss |-> "dismissed", defer |-> "deferred"]

Init ==
  /\ state = 0
  /\ run = [h \in States |-> [status |-> "none", snapshot |-> 0]]
  /\ job = [h \in States |-> [status |-> "none", attempts |-> 0]]
  /\ snapshot = [h \in States |-> 0]
  /\ recs = <<>>
  /\ decided = [k \in Keys |-> [rec |-> 0, decision |-> "none"]]
  /\ tx = [s \in Sessions |-> Idle]

----------------------------------------------------------------------------
(* Sessions *)

At(s, pc) == tx[s].pc = pc
Of(s) == tx[s].of
Step(s, changes) == tx' = [tx EXCEPT ![s] = changes]

\* What a plain SELECT of the plan's state returns to this session
Seen(s) == IF tx[s].own THEN Of(s) ELSE state

Others(s) == Sessions \ {s}

\* s must wait for the transaction of t: the same snapshot or the same open
\* recommendation inserted and not committed, or the run's row locked
WaitsFor(s, t) ==
  /\ t # s /\ Of(t) = Of(s)
  /\ \/ At(s, "check") /\ tx[t].inserted
     \/ At(s, "insert") /\ tx[t].created
     \/ At(s, "close") /\ tx[s].kind = "inline" /\ tx[t].held

Free(s) == \A t \in Others(s) : ~ WaitsFor(s, t)

MutFailJob(h) ==
  /\ job' = [job EXCEPT ![h].status =
       IF @ # "leased" THEN @ ELSE IF job[h].attempts < MaxAttempts THEN "queued" ELSE "failed"]
  /\ UNCHANGED run

\* JobQueue.fail, and reconciling a job whose attempts are spent
FailJob(h) ==
  /\ job' = [job EXCEPT ![h].status =
       IF @ # "leased" THEN @ ELSE IF job[h].attempts < MaxAttempts THEN "queued" ELSE "failed"]
  /\ run' = [run EXCEPT ![h].status =
       IF job'[h].status = "failed" /\ @ = "queued" THEN "failed" ELSE @]

\* An exception: the transaction is rolled back.  _monitor_inline swallows it
\* (the answer to the request is then one more View), the worker fails its job
Abort(s) ==
  /\ Step(s, Idle)
  /\ IF tx[s].kind = "worker" THEN FailJob(Of(s)) ELSE UNCHANGED <<job, run>>
  /\ UNCHANGED <<state, snapshot, recs, decided>>

----------------------------------------------------------------------------
(* Requests *)

\* ExecutionService.transition or update_progress: its commit, with
\* _enqueue_monitoring
Mutate(c) ==
  /\ At(c, "idle") /\ state < MaxState
  /\ state' = state + 1
  /\ run' = [run EXCEPT ![state'].status = "queued"]
  /\ job' = [job EXCEPT ![state'].status = "queued"]
  /\ Step(c, [Idle EXCEPT !.pc = "hash", !.kind = "inline", !.of = state', !.own = TRUE])
  /\ UNCHANGED <<snapshot, recs, decided>>

\* A board, or the aggregate of a report
View(c) ==
  /\ At(c, "idle") /\ state > 0
  /\ Step(c, [Idle EXCEPT !.pc = "hash", !.kind = "view", !.of = state])
  /\ UNCHANGED <<state, run, job, snapshot, recs, decided>>

Claimable(h) == job[h].status = "queued"

\* MonitoringWorkflow.execute: the run is locked until the commit
Deliver(h) ==
  /\ At(Worker, "idle") /\ Claimable(h)
  /\ job' = [job EXCEPT ![h].status = "leased", ![h].attempts = @ + 1]
  /\ Step(Worker, [Idle EXCEPT !.pc = "begin", !.kind = "worker", !.of = h])
  /\ UNCHANGED <<state, run, snapshot, recs, decided>>

Settling == [Idle EXCEPT !.pc = "settle", !.kind = "worker", !.of = Of(Worker)]

Begin ==
  /\ At(Worker, "begin")
  /\ \/ run[Of(Worker)].status = "completed" /\ Step(Worker, Settling) /\ UNCHANGED run
     \/ /\ run[Of(Worker)].status # "completed" /\ state # Of(Worker)
        /\ run' = [run EXCEPT ![Of(Worker)].status = "partial"] /\ Step(Worker, Settling)
     \/ /\ run[Of(Worker)].status # "completed" /\ state = Of(Worker)
        /\ Step(Worker, [tx[Worker] EXCEPT !.pc = "hash", !.held = TRUE])
        /\ UNCHANGED run
  /\ UNCHANGED <<state, job, snapshot, recs, decided>>

----------------------------------------------------------------------------
(* ensure_current and recalculate *)

\* The hash is taken again; a snapshot of it is used as it is
Hash(s) ==
  /\ At(s, "hash")
  /\ IF Seen(s) # Of(s) THEN Abort(s)
     ELSE /\ Step(s, [tx[s] EXCEPT !.pc = IF snapshot[Of(s)] # 0 THEN "ensured" ELSE "load"])
          /\ UNCHANGED <<state, run, job, snapshot, recs, decided>>

Load(s) ==
  /\ At(s, "load")
  /\ Step(s, [tx[s] EXCEPT !.pc = "check", !.facts = Seen(s)])
  /\ UNCHANGED <<state, run, job, snapshot, recs, decided>>

MutSameState(s) == TRUE

\* The second comparison of hashes: the rows are those the session loaded
SameState(s) == tx[s].facts = Of(s)

\* The INSERT.  Another session committed it first: the whole transaction is
\* rolled back, the lock of the run with it, and that snapshot is used
Insert(s) ==
  /\ At(s, "check") /\ Free(s)
  /\ IF ~ SameState(s) THEN Abort(s)
     ELSE /\ Step(s, IF snapshot[Of(s)] # 0
                     THEN [tx[s] EXCEPT !.pc = "ensured", !.held = FALSE, !.own = FALSE,
                                        !.facts = 0]
                     ELSE [tx[s] EXCEPT !.pc = "ensured", !.inserted = TRUE])
          /\ UNCHANGED <<state, run, job, snapshot, recs, decided>>

----------------------------------------------------------------------------
(* sync_for_snapshot and enrich_with_ai *)

AfterSync(s) == IF tx[s].kind = "worker" /\ Provider THEN "narrate" ELSE "close"

\* A recommendation with this input, whatever its state
Matching(h) == {i \in DOMAIN recs : recs[i].of = h}

Sync(s) ==
  /\ At(s, "ensured") /\ tx[s].kind \in {"inline", "worker"}
  /\ IF Of(s) \notin Detecting
     THEN Step(s, [tx[s] EXCEPT !.pc = "close"])
     ELSE \/ /\ Matching(Of(s)) = {}
             /\ Step(s, [tx[s] EXCEPT !.pc = "insert"])
          \/ \E i \in Matching(Of(s)) :
               Step(s, [tx[s] EXCEPT !.pc = AfterSync(s), !.rec = i,
                          !.seen = IF recs[i].state \in Live THEN recs[i].version ELSE 0])
  /\ UNCHANGED <<state, run, job, snapshot, recs, decided>>

\* The unique index covers the open and the deferred ones
Create(s) ==
  /\ At(s, "insert") /\ Free(s)
  /\ IF \E i \in Matching(Of(s)) : recs[i].state \in Live THEN Abort(s)
     ELSE /\ Step(s, [tx[s] EXCEPT !.pc = AfterSync(s), !.created = TRUE])
          /\ UNCHANGED <<state, run, job, snapshot, recs, decided>>

\* The text of what the session saw open or deferred is replaced; a decision in
\* between has changed its row_version
Rewritable(s) == tx[s].seen \in {0, recs[tx[s].rec].version}

Narrate(s) ==
  /\ At(s, "narrate")
  /\ \/ /\ Step(s, [tx[s] EXCEPT !.pc = "close", !.narrated = "failed"])
        /\ UNCHANGED <<state, run, job, snapshot, recs, decided>>
     \/ IF tx[s].rec # 0 /\ ~ Rewritable(s) THEN Abort(s)
        ELSE /\ Step(s, [tx[s] EXCEPT !.pc = "close", !.narrated = "ai"])
             /\ UNCHANGED <<state, run, job, snapshot, recs, decided>>

Recommendation(s) ==
  [of |-> Of(s), state |-> "open", version |-> 1,
   text |-> IF tx[s].narrated = "ai" THEN "ai" ELSE "template"]

\* the rows the session holds until its commit
Rewrites(s, i) == tx[s].narrated = "ai" /\ tx[s].rec = i /\ tx[s].seen # 0

Rewritten(r) == [r EXCEPT !.text = "ai", !.version = @ + 1]

----------------------------------------------------------------------------
(* Commit *)

Committed(s) ==
  /\ snapshot' = IF tx[s].inserted THEN [snapshot EXCEPT ![Of(s)] = tx[s].facts] ELSE snapshot
  /\ recs' = IF tx[s].created THEN Append(recs, Recommendation(s))
             ELSE [i \in DOMAIN recs |->
                     IF Rewrites(s, i) THEN Rewritten(recs[i]) ELSE recs[i]]

CommitView(s) ==
  /\ At(s, "ensured") /\ tx[s].kind = "view"
  /\ Committed(s) /\ Step(s, Idle)
  /\ UNCHANGED <<state, run, job, decided>>

\* The run is written without a look at what it has become; the job only when
\* the copy of the session says it is queued
CommitInline(s) ==
  /\ At(s, "close") /\ tx[s].kind = "inline" /\ Free(s)
  /\ Committed(s)
  /\ run' = [run EXCEPT ![Of(s)] = [status |-> "completed", snapshot |-> Of(s)]]
  /\ job' = IF tx[s].own \/ job[Of(s)].status = "queued"
            THEN [job EXCEPT ![Of(s)].status = "done"] ELSE job
  /\ Step(s, Idle)
  /\ UNCHANGED <<state, decided>>

CommitWorker ==
  /\ At(Worker, "close")
  /\ Committed(Worker)
  /\ run' = [run EXCEPT ![Of(Worker)] =
       [status |-> IF tx[Worker].narrated = "failed" THEN "partial" ELSE "completed",
        snapshot |-> Of(Worker)]]
  /\ Step(Worker, Settling)
  /\ UNCHANGED <<state, job, decided>>

\* JobQueue.complete
Settle ==
  /\ At(Worker, "settle")
  /\ job' = [job EXCEPT ![Of(Worker)].status = IF @ = "leased" THEN "done" ELSE @]
  /\ Step(Worker, Idle)
  /\ UNCHANGED <<state, run, snapshot, recs, decided>>

\* The database ends one of two transactions that wait for each other
DeadlockDetected(s) ==
  /\ \E t \in Others(s) : WaitsFor(s, t) /\ WaitsFor(t, s)
  /\ Abort(s)

\* The worker dies: its lease expires
Crash == ~ At(Worker, "idle") /\ Abort(Worker)

----------------------------------------------------------------------------
(* Decisions *)

MutDecidable(r) == r.state # "dismissed"

Decidable(r) == r.state \in Live

\* decide: a known key answers again; the row is locked, so a rewrite that is
\* not committed is waited for
Decide(i, d, expected, k) ==
  /\ decided[k].rec = 0
  /\ \A s \in Sessions : ~ Rewrites(s, i)
  /\ recs[i].version = expected /\ Decidable(recs[i]) /\ expected < MaxVersion
  /\ decided' = [decided EXCEPT ![k] = [rec |-> i, decision |-> d]]
  /\ recs' = [recs EXCEPT ![i].state = Outcome[d], ![i].version = @ + 1]
  /\ UNCHANGED <<state, run, job, snapshot, tx>>

Advance(s) ==
  \/ Hash(s) \/ Load(s) \/ Insert(s) \/ Sync(s) \/ Create(s) \/ Narrate(s)
  \/ CommitView(s) \/ CommitInline(s) \/ DeadlockDetected(s)

Work == Begin \/ CommitWorker \/ Settle \/ \E h \in States : Deliver(h)

Decision ==
  \E i \in DOMAIN recs, d \in DOMAIN Outcome, v \in 1..MaxVersion, k \in Keys :
    Decide(i, d, v, k)

Done == state = MaxState /\ UNCHANGED vars

Next ==
  \/ \E c \in Clients : Mutate(c) \/ View(c)
  \/ \E s \in Sessions : Advance(s)
  \/ Work
  \/ Crash
  \/ Decision
  \/ Done

Spec == Init /\ [][Next]_vars

----------------------------------------------------------------------------
(* Properties *)

Rec == [of : States, state : Live \cup {"accepted", "dismissed"},
        version : Nat \ {0}, text : {"template", "ai"}]

\* The type of every variable
TypeOK ==
  /\ state \in 0..MaxState
  /\ run \in [States -> [status : {"none", "queued", "completed", "partial", "failed"},
                         snapshot : 0..MaxState]]
  /\ job \in [States -> [status : {"none", "queued", "leased", "done", "failed"},
                         attempts : 0..MaxAttempts]]
  /\ snapshot \in [States -> 0..MaxState]
  /\ recs \in Seq(Rec)
  /\ decided \in [Keys -> [rec : 0..Len(recs), decision : DOMAIN Outcome \cup {"none"}]]
  /\ tx \in [Sessions -> [pc : {"idle", "begin", "hash", "load", "check", "ensured",
                                "insert", "narrate", "close", "settle"},
        kind : {"none", "inline", "view", "worker"}, of : 0..MaxState,
        facts : 0..MaxState, own : BOOLEAN, inserted : BOOLEAN, rec : 0..Len(recs),
        seen : Nat, created : BOOLEAN, narrated : {"none", "ai", "failed"},
        held : BOOLEAN]]

\* "Rejects stale monitoring results before persistence" (README.md:57):
\* whatever commits between the two hashes of recalculate, a snapshot that is
\* persisted under a state was computed from the rows of that state; and what
\* a run or a recommendation refers to is persisted with it, on every path of
\* roll-back
SnapshotIsOfItsState ==
  /\ \A h \in States : snapshot[h] \in {0, h}
  /\ \A h \in States : run[h].snapshot # 0 => snapshot[run[h].snapshot] # 0
  /\ \A i \in DOMAIN recs : snapshot[recs[i].of] # 0

\* What the owner accepted or dismissed is not decided again, nor rewritten by
\* a narrative that was asked for while it was open; and the row says what the
\* recorded decisions say
DecisionIsFinal ==
  [][\A i \in DOMAIN recs :
       /\ recs[i].state \notin Live => recs'[i] = recs[i]
       /\ recs'[i].state # recs[i].state =>
            \E k \in Keys : decided[k].rec = 0 /\ decided'[k].rec = i
                           /\ Outcome[decided'[k].decision] = recs'[i].state]_vars

\* "Deduplicated by exact state and evidence hashes" (README.md:65): a condition of
\* one state is offered once.  It does not hold: the unique index leaves decided
\* rows out, and a session that looked before the first insert inserts after it
OfferedOnce ==
  \A i, j \in DOMAIN recs : recs[i].of = recs[j].of => i = j

\* Whoever dies or is chosen as the victim of a deadlock, a monitoring run that
\* is still to be done has a job somebody will be given: with JobSettles of the
\* queue, every run is settled
QueuedRunHasJob ==
  \A h \in States : run[h].status = "queued" => job[h].status \in {"queued", "leased"}
=============================================================================
