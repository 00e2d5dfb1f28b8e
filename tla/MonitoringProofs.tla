--------------------------- MODULE MonitoringProofs ---------------------------
(***************************************************************************)
(* Proofs about Monitoring, for any number of request sessions, states,    *)
(* attempts and decisions: a snapshot belongs to the state it is kept      *)
(* under, decisions are final, and a queued run has a job.                 *)
(*                                                                         *)
(* Every step is one session's, so the invariant is one formula for each   *)
(* session (Sound) and the two invariants of the runs.  What another       *)
(* session may do to a session in the middle of its work is the relation   *)
(* Env: it keeps Sound, whatever the other does.                           *)
(***************************************************************************)
EXTENDS Monitoring, TLAPS, SequenceTheorems

Pcs == {"idle", "begin", "hash", "load", "check", "ensured", "insert", "narrate", "close", "settle"}
Run == [status : {"none", "queued", "completed", "partial", "failed"}, snapshot : 0..MaxState]
Job == [status : {"none", "queued", "leased", "done", "failed"}, attempts : 0..MaxAttempts]
Tx == [pc : Pcs, kind : {"none", "inline", "view", "worker"}, of : 0..MaxState,
       facts : 0..MaxState, own : BOOLEAN, inserted : BOOLEAN, rec : Nat,
       seen : Nat, created : BOOLEAN, narrated : {"none", "ai", "failed"}, held : BOOLEAN]

\* The types that the steps need
Typed ==
  /\ state \in 0..MaxState /\ run \in [States -> Run] /\ job \in [States -> Job]
  /\ snapshot \in [States -> 0..MaxState] /\ recs \in Seq(Rec) /\ tx \in [Sessions -> Tx]

Ensured == {"ensured", "insert", "narrate", "close"}

\* What a session may be in the middle of
Fits(r) ==
  /\ r.pc = "idle" => r = Idle
  /\ r.pc # "idle" => r.of \in 1..state
  /\ r.inserted => r.facts = r.of
  /\ r.pc \in Ensured => r.inserted \/ snapshot[r.of] # 0
  /\ (r.inserted \/ r.created) => r.pc \in Ensured
  /\ r.rec # 0 => r.rec \in DOMAIN recs
  /\ r.seen # 0 =>
       /\ r.rec \in DOMAIN recs
       /\ r.seen <= recs[r.rec].version
       /\ r.seen = recs[r.rec].version => recs[r.rec].state \in Live
       /\ r.narrated = "ai" => recs[r.rec].state \in Live
  /\ r.pc = "settle" => run[r.of].status # "queued"

Sound(s) == Fits(tx[s])

\* A run and a job are there from the mutation on; a queued job has an attempt left
JobsSound ==
  \A h \in States :
    /\ h > state => job[h].status = "none"
    /\ job[h].status = "queued" => job[h].attempts < MaxAttempts
    /\ job[h].status = "none" => job[h].attempts = 0

Inv ==
  /\ Typed /\ JobsSound /\ (\A s \in Sessions : Sound(s))
  /\ SnapshotIsOfItsState /\ QueuedRunHasJob

\* What the steps of others do to a session
Env ==
  /\ state' \in state..MaxState
  /\ \A h \in States : snapshot[h] # 0 => snapshot'[h] # 0
  /\ \A i \in DOMAIN recs :
       /\ i \in DOMAIN recs'
       /\ recs'[i] = recs[i] \/ recs'[i].version = recs[i].version + 1
       /\ (\E s \in Sessions : Rewrites(s, i)) => recs'[i].state = recs[i].state
  /\ \A h \in 1..state : run'[h].status = "queued" => run[h].status = "queued"

LEMMA RecTyped ==
  ASSUME recs \in Seq(Rec), NEW i \in DOMAIN recs
  PROVE  recs[i] \in Rec /\ i \in 1..Len(recs)
<1>1. DOMAIN recs = 1..Len(recs) /\ \A j \in 1..Len(recs) : recs[j] \in Rec
  BY ElementOfSeq, LenProperties
<1> QED BY <1>1

LEMMA Undisturbed ==
  ASSUME Inv, Env, NEW s \in Sessions, tx'[s] = tx[s]
  PROVE  Sound(s)'
<1>1. Typed /\ Sound(s)
  BY DEF Inv
<1>2. tx[s] \in Tx /\ Of(s) = Of(s)'
  BY <1>1 DEF Typed, Of
<1>3. tx'[s].pc # "idle" => Of(s)' \in 1..state'
  BY <1>1, <1>2, BoundsAssumption DEF Typed, Sound, Fits, Of, Env
<1>4. tx'[s].pc \in Ensured => tx'[s].inserted \/ snapshot'[Of(s)'] # 0
  <2>1. CASE tx[s].pc \in Ensured /\ ~ tx[s].inserted
    <3>1. snapshot[Of(s)] # 0 /\ Of(s) \in 1..state
      BY <1>1, <2>1 DEF Sound, Fits, Of, Ensured
    <3>2. Of(s) \in States
      BY <1>1, <3>1, BoundsAssumption DEF Typed, States
    <3>3. snapshot'[Of(s)] # 0
      BY <3>1, <3>2 DEF Env
    <3> QED BY <1>2, <3>3
  <2>2. CASE ~ (tx[s].pc \in Ensured /\ ~ tx[s].inserted)
    BY <2>2
  <2> QED BY <2>1, <2>2
<1>5. tx'[s].rec # 0 => tx'[s].rec \in DOMAIN recs'
  BY <1>1 DEF Sound, Fits, Of, Env
<1>6. tx'[s].seen # 0 =>
        /\ tx'[s].rec \in DOMAIN recs'
        /\ tx'[s].seen <= recs'[tx'[s].rec].version
        /\ tx'[s].seen = recs'[tx'[s].rec].version => recs'[tx'[s].rec].state \in Live
        /\ tx'[s].narrated = "ai" => recs'[tx'[s].rec].state \in Live
  <2> DEFINE i == tx[s].rec
  <2> SUFFICES ASSUME tx[s].seen # 0
               PROVE  /\ i \in DOMAIN recs' /\ tx[s].seen <= recs'[i].version
                      /\ tx[s].seen = recs'[i].version => recs'[i].state \in Live
                      /\ tx[s].narrated = "ai" => recs'[i].state \in Live
    BY Zenon
  <2>1. /\ i \in DOMAIN recs /\ tx[s].seen <= recs[i].version
        /\ tx[s].seen = recs[i].version => recs[i].state \in Live
        /\ tx[s].narrated = "ai" => recs[i].state \in Live
    BY <1>1 DEF Sound, Fits
  <2>2. /\ i \in DOMAIN recs'
        /\ recs'[i] = recs[i] \/ recs'[i].version = recs[i].version + 1
    BY <2>1 DEF Env
  <2>3. tx[s].narrated = "ai" => recs'[i].state = recs[i].state
    BY <2>1 DEF Env, Rewrites
  <2>4. recs[i].version \in Nat /\ tx[s].seen \in Nat
    BY <1>1, <1>2, <2>1, RecTyped DEF Typed, Rec, Tx
  <2> QED BY <2>1, <2>2, <2>3, <2>4
<1>7. tx'[s].pc = "settle" => run'[Of(s)'].status # "queued"
  BY <1>1, <1>2 DEF Sound, Fits, Of, Env
<1> QED BY <1>1, <1>2, <1>3, <1>4, <1>5, <1>6, <1>7 DEF Sound, Fits, Of

LEMMA Stepped ==
  ASSUME Inv, Env, NEW s \in Sessions, \A t \in Others(s) : tx'[t] = tx[t],
         Typed', JobsSound', Sound(s)', SnapshotIsOfItsState', QueuedRunHasJob'
  PROVE  Inv'
<1>1. ASSUME NEW t \in Sessions PROVE Sound(t)'
  <2>1. CASE t = s
    BY <2>1
  <2>2. CASE t # s
    BY <2>2, Undisturbed DEF Others
  <2> QED BY <2>1, <2>2
<1> QED BY <1>1 DEF Inv

-----------------------------------------------------------------------------
(* Steps inside a transaction *)

LEMMA NoChange ==
  ASSUME Inv, UNCHANGED <<state, run, job, snapshot, recs>>
  PROVE  Env /\ JobsSound' /\ SnapshotIsOfItsState' /\ QueuedRunHasJob'
<1>1. state \in state..MaxState
  BY BoundsAssumption DEF Inv, Typed
<1> QED BY <1>1 DEF Inv, Env, JobsSound, SnapshotIsOfItsState, QueuedRunHasJob

LEMMA Placed ==
  ASSUME Inv, NEW s \in Sessions, NEW r \in Tx, Step(s, r)
  PROVE  /\ tx' \in [Sessions -> Tx] /\ tx'[s] = r
         /\ \A t \in Others(s) : tx'[t] = tx[t]
BY DEF Inv, Typed, Step, Others

LEMMA Moved ==
  ASSUME Inv, NEW s \in Sessions, NEW r \in Tx, Step(s, r), Fits(r),
         UNCHANGED <<state, run, job, snapshot, recs>>
  PROVE  Inv'
<1>1. /\ tx' \in [Sessions -> Tx] /\ tx'[s] = r
      /\ \A t \in Others(s) : tx'[t] = tx[t]
  BY Placed
<1>2. Sound(s)'
  BY <1>1 DEF Sound, Fits
<1>3. Typed'
  BY <1>1 DEF Inv, Typed
<1> QED BY <1>1, <1>2, <1>3, NoChange, Stepped

LEMMA IdleFits == Inv => Idle \in Tx /\ Fits(Idle)
<1>1. 0 \in 0..MaxState
  BY BoundsAssumption
<1> QED BY <1>1 DEF Idle, Tx, Pcs, Fits, Ensured

LEMMA SessionTyped ==
  ASSUME Inv, NEW s \in Sessions
  PROVE  /\ tx[s] \in Tx /\ Fits(tx[s])
         /\ tx[s].pc # "idle" => Of(s) \in States /\ Of(s) # 0
<1>1. tx[s] \in Tx /\ Fits(tx[s])
  BY DEF Inv, Typed, Sound
<1>2. ASSUME tx[s].pc # "idle" PROVE Of(s) \in States /\ Of(s) # 0
  <2>1. tx[s].of \in 1..state /\ state \in 0..MaxState
    BY <1>1, <1>2 DEF Fits, Inv, Typed
  <2> QED BY <2>1, BoundsAssumption DEF Of, States
<1> QED BY <1>1, <1>2

\* A job that fails, with its run
LEMMA Failed ==
  ASSUME Inv, NEW h \in States, FailJob(h), UNCHANGED <<state, snapshot, recs>>
  PROVE  /\ Env /\ JobsSound' /\ SnapshotIsOfItsState' /\ QueuedRunHasJob'
         /\ run' \in [States -> Run] /\ job' \in [States -> Job]
<1>1. run \in [States -> Run] /\ job \in [States -> Job]
  BY DEF Inv, Typed
<1> DEFINE j == IF job[h].status # "leased" THEN job[h].status
                ELSE IF job[h].attempts < MaxAttempts THEN "queued" ELSE "failed"
           q == IF job'[h].status = "failed" /\ run[h].status = "queued" THEN "failed"
                ELSE run[h].status
<1>2. job' = [job EXCEPT ![h].status = j] /\ run' = [run EXCEPT ![h].status = q]
  BY <1>1 DEF FailJob
<1>3. /\ j \in {"none", "queued", "leased", "done", "failed"}
      /\ q \in {"none", "queued", "completed", "partial", "failed"}
  BY <1>1 DEF Job, Run
<1>4. /\ j = "queued" => job[h].status = "queued" \/ job[h].attempts < MaxAttempts
      /\ (j = "none" <=> job[h].status = "none")
      /\ j \notin {"queued", "leased", "failed"} => job[h].status = j
      /\ q = "queued" => run[h].status = "queued" /\ job'[h].status # "failed"
  OBVIOUS
<1> HIDE DEF j, q
<1>5. /\ job'[h].status = j /\ job'[h].attempts = job[h].attempts
      /\ run'[h].status = q /\ run'[h].snapshot = run[h].snapshot
      /\ \A g \in States : g # h => job'[g] = job[g] /\ run'[g] = run[g]
  BY <1>1, <1>2 DEF Job, Run
<1>6. run' \in [States -> Run] /\ job' \in [States -> Job]
  BY <1>1, <1>2, <1>3 DEF Job, Run
<1>7. JobsSound'
  BY <1>4, <1>5 DEF Inv, JobsSound
<1>8. Env
  <2>1. \A g \in 1..state : g \in States
    BY BoundsAssumption DEF Inv, Typed, States
  <2>2. state \in state..MaxState
    BY BoundsAssumption DEF Inv, Typed
  <2> QED BY <1>4, <1>5, <2>1, <2>2 DEF Env
<1>9. SnapshotIsOfItsState'
  <2>1. \A g \in States : run'[g].snapshot = run[g].snapshot
    BY <1>5
  <2> QED BY <2>1 DEF Inv, SnapshotIsOfItsState
<1>10. QueuedRunHasJob'
  BY <1>4, <1>5 DEF Inv, QueuedRunHasJob
<1> QED BY <1>6, <1>7, <1>8, <1>9, <1>10

LEMMA Aborted ==
  ASSUME Inv, NEW s \in Sessions, tx[s].pc # "idle", Abort(s)
  PROVE  Inv'
<1>1. Idle \in Tx /\ Fits(Idle) /\ Of(s) \in States
  BY IdleFits, SessionTyped
<1>2. Step(s, Idle) /\ UNCHANGED <<state, snapshot, recs>>
  BY DEF Abort
<1>3. CASE UNCHANGED <<job, run>>
  BY <1>1, <1>2, <1>3, Moved
<1>4. CASE FailJob(Of(s))
  <2>1. /\ Env /\ JobsSound' /\ SnapshotIsOfItsState' /\ QueuedRunHasJob'
        /\ run' \in [States -> Run] /\ job' \in [States -> Job]
    BY <1>1, <1>2, <1>4, Failed
  <2>2. /\ tx' \in [Sessions -> Tx] /\ tx'[s] = Idle
        /\ \A t \in Others(s) : tx'[t] = tx[t]
    BY <1>1, <1>2, Placed
  <2>3. Sound(s)'
    BY <2>2 DEF Sound, Fits, Idle, Ensured
  <2>4. Typed'
    BY <1>2, <2>1, <2>2 DEF Inv, Typed
  <2> QED BY <2>1, <2>2, <2>3, <2>4, Stepped
<1> QED BY <1>3, <1>4 DEF Abort

-----------------------------------------------------------------------------
(* The steps of a session up to its commit *)

LEMMA HashKeeps ==
  ASSUME Inv, NEW s \in Sessions, Hash(s)
  PROVE  Inv'
<1>1. tx[s].pc = "hash" /\ tx[s] \in Tx /\ Fits(tx[s])
  BY SessionTyped DEF Hash, At
<1>2. CASE Abort(s)
  BY <1>1, <1>2, Aborted
<1>3. CASE ~ Abort(s)
  <2> DEFINE pc == IF snapshot[Of(s)] # 0 THEN "ensured" ELSE "load"
             r == [tx[s] EXCEPT !.pc = pc]
  <2>1. pc \in Pcs \ {"idle", "settle"} /\ (pc \in Ensured => snapshot[Of(s)] # 0)
    BY DEF Pcs, Ensured
  <2> HIDE DEF pc
  <2>2. /\ r \in Tx /\ r.pc = pc /\ r.of = Of(s) /\ r.inserted = tx[s].inserted
        /\ r.created = tx[s].created /\ r.facts = tx[s].facts /\ r.rec = tx[s].rec
        /\ r.seen = tx[s].seen /\ r.narrated = tx[s].narrated
    BY <1>1, <2>1 DEF Tx, Of
  <2>3. Step(s, r) /\ UNCHANGED <<state, run, job, snapshot, recs>>
    BY <1>3 DEF Hash, pc
  <2> HIDE DEF r
  <2>4. ~ tx[s].inserted /\ ~ tx[s].created
    BY <1>1 DEF Fits, Ensured
  <2>5. Fits(r)
    BY <1>1, <2>1, <2>2, <2>4 DEF Fits, Of
  <2> QED BY <2>2, <2>3, <2>5, Moved
<1> QED BY <1>2, <1>3

LEMMA LoadKeeps ==
  ASSUME Inv, NEW s \in Sessions, Load(s)
  PROVE  Inv'
<1>1. tx[s].pc = "load" /\ tx[s] \in Tx /\ Fits(tx[s])
  BY SessionTyped DEF Load, At
<1> DEFINE r == [tx[s] EXCEPT !.pc = "check", !.facts = Seen(s)]
<1>2. Seen(s) \in 0..MaxState
  BY <1>1 DEF Seen, Of, Tx, Inv, Typed
<1>3. /\ r \in Tx /\ r.pc = "check" /\ r.of = Of(s) /\ r.inserted = tx[s].inserted
      /\ r.created = tx[s].created /\ r.rec = tx[s].rec
      /\ r.seen = tx[s].seen /\ r.narrated = tx[s].narrated
  BY <1>1, <1>2 DEF Tx, Of, Pcs
<1>4. Step(s, r) /\ UNCHANGED <<state, run, job, snapshot, recs>>
  BY DEF Load
<1> HIDE DEF r
<1>5. ~ tx[s].inserted /\ ~ tx[s].created
  BY <1>1 DEF Fits, Ensured
<1>6. Fits(r)
  BY <1>1, <1>3, <1>5 DEF Fits, Of, Ensured
<1> QED BY <1>3, <1>4, <1>6, Moved

LEMMA InsertKeeps ==
  ASSUME Inv, NEW s \in Sessions, Insert(s)
  PROVE  Inv'
<1>1. tx[s].pc = "check" /\ tx[s] \in Tx /\ Fits(tx[s])
  BY SessionTyped DEF Insert, At
<1>2. CASE ~ SameState(s)
  BY <1>1, <1>2, Aborted DEF Insert
<1>3. CASE SameState(s) /\ snapshot[Of(s)] # 0
  <2> DEFINE r == [tx[s] EXCEPT !.pc = "ensured", !.held = FALSE, !.own = FALSE, !.facts = 0]
  <2>0. 0 \in 0..MaxState
    BY BoundsAssumption
  <2>1. /\ r \in Tx /\ r.pc = "ensured" /\ r.of = Of(s) /\ r.inserted = tx[s].inserted
        /\ r.created = tx[s].created /\ r.rec = tx[s].rec
        /\ r.seen = tx[s].seen /\ r.narrated = tx[s].narrated
    BY <1>1, <2>0 DEF Tx, Of, Pcs
  <2>2. Step(s, r) /\ UNCHANGED <<state, run, job, snapshot, recs>>
    BY <1>3 DEF Insert
  <2> HIDE DEF r
  <2>3. ~ tx[s].inserted /\ ~ tx[s].created
    BY <1>1 DEF Fits, Ensured
  <2>4. Fits(r)
    BY <1>1, <1>3, <2>1, <2>3 DEF Fits, Of, Ensured
  <2> QED BY <2>1, <2>2, <2>4, Moved
<1>4. CASE SameState(s) /\ snapshot[Of(s)] = 0
  <2> DEFINE r == [tx[s] EXCEPT !.pc = "ensured", !.inserted = TRUE]
  <2>1. /\ r \in Tx /\ r.pc = "ensured" /\ r.of = Of(s) /\ r.inserted = TRUE
        /\ r.created = tx[s].created /\ r.facts = tx[s].facts /\ r.rec = tx[s].rec
        /\ r.seen = tx[s].seen /\ r.narrated = tx[s].narrated
    BY <1>1 DEF Tx, Of, Pcs
  <2>2. Step(s, r) /\ UNCHANGED <<state, run, job, snapshot, recs>>
    BY <1>4 DEF Insert
  <2> HIDE DEF r
  <2>3. tx[s].facts = Of(s)
    BY <1>4 DEF SameState
  <2>4. Fits(r)
    BY <1>1, <2>1, <2>3 DEF Fits, Of, Ensured
  <2> QED BY <2>1, <2>2, <2>4, Moved
<1> QED BY <1>2, <1>3, <1>4

LEMMA SyncKeeps ==
  ASSUME Inv, NEW s \in Sessions, Sync(s)
  PROVE  Inv'
<1>1. tx[s].pc = "ensured" /\ tx[s] \in Tx /\ Fits(tx[s])
  BY SessionTyped DEF Sync, At
<1>2. UNCHANGED <<state, run, job, snapshot, recs>>
  BY DEF Sync
<1>3. AfterSync(s) \in {"narrate", "close"}
  BY DEF AfterSync
<1>4. ASSUME NEW pc \in {"close", "insert"}, Step(s, [tx[s] EXCEPT !.pc = pc])
      PROVE  Inv'
  <2> DEFINE r == [tx[s] EXCEPT !.pc = pc]
  <2>1. /\ r \in Tx /\ r.pc = pc /\ r.of = Of(s) /\ r.inserted = tx[s].inserted
        /\ r.created = tx[s].created /\ r.facts = tx[s].facts /\ r.rec = tx[s].rec
        /\ r.seen = tx[s].seen /\ r.narrated = tx[s].narrated
    BY <1>1, <1>4 DEF Tx, Of, Pcs
  <2>2. Step(s, r)
    BY <1>4
  <2> HIDE DEF r
  <2>3. Fits(r)
    BY <1>1, <1>4, <2>1 DEF Fits, Of, Ensured
  <2> QED BY <1>2, <2>1, <2>2, <2>3, Moved
<1>5. ASSUME NEW i \in Matching(Of(s)),
             Step(s, [tx[s] EXCEPT !.pc = AfterSync(s), !.rec = i,
                        !.seen = IF recs[i].state \in Live THEN recs[i].version ELSE 0])
      PROVE  Inv'
  <2> DEFINE v == IF recs[i].state \in Live THEN recs[i].version ELSE 0
             r == [tx[s] EXCEPT !.pc = AfterSync(s), !.rec = i, !.seen = v]
  <2>1. i \in DOMAIN recs /\ recs[i] \in Rec /\ i \in 1..Len(recs) /\ Len(recs) \in Nat
    BY RecTyped, LenProperties DEF Matching, Inv, Typed
  <2>2. v \in Nat /\ i \in Nat
    BY <2>1 DEF Rec
  <2>3. v # 0 => v = recs[i].version /\ recs[i].state \in Live
    OBVIOUS
  <2>4. Step(s, r)
    BY <1>5
  <2> HIDE DEF v
  <2>5. /\ r \in Tx /\ r.pc = AfterSync(s) /\ r.of = Of(s) /\ r.inserted = tx[s].inserted
        /\ r.created = tx[s].created /\ r.facts = tx[s].facts /\ r.rec = i
        /\ r.seen = v /\ r.narrated = tx[s].narrated
    BY <1>1, <1>3, <2>2 DEF Tx, Of, Pcs
  <2> HIDE DEF r
  <2>6. v # 0 => v <= recs[i].version
    BY <2>2, <2>3
  <2>7. Fits(r)
    BY <1>1, <1>3, <2>1, <2>3, <2>5, <2>6 DEF Fits, Of, Ensured
  <2> QED BY <1>2, <2>4, <2>5, <2>7, Moved
<1> QED BY <1>4, <1>5 DEF Sync

LEMMA CreateKeeps ==
  ASSUME Inv, NEW s \in Sessions, Create(s)
  PROVE  Inv'
<1>1. tx[s].pc = "insert" /\ tx[s] \in Tx /\ Fits(tx[s])
  BY SessionTyped DEF Create, At
<1>2. CASE \E i \in Matching(Of(s)) : recs[i].state \in Live
  BY <1>1, <1>2, Aborted DEF Create
<1>3. CASE ~ \E i \in Matching(Of(s)) : recs[i].state \in Live
  <2> DEFINE r == [tx[s] EXCEPT !.pc = AfterSync(s), !.created = TRUE]
  <2>1. AfterSync(s) \in {"narrate", "close"}
    BY DEF AfterSync
  <2>2. /\ r \in Tx /\ r.pc = AfterSync(s) /\ r.of = Of(s) /\ r.inserted = tx[s].inserted
        /\ r.facts = tx[s].facts /\ r.rec = tx[s].rec
        /\ r.seen = tx[s].seen /\ r.narrated = tx[s].narrated
    BY <1>1, <2>1 DEF Tx, Of, Pcs
  <2>3. Step(s, r) /\ UNCHANGED <<state, run, job, snapshot, recs>>
    BY <1>3 DEF Create
  <2> HIDE DEF r
  <2>4. Fits(r)
    BY <1>1, <2>1, <2>2 DEF Fits, Of, Ensured
  <2> QED BY <2>2, <2>3, <2>4, Moved
<1> QED BY <1>2, <1>3

LEMMA NarrateKeeps ==
  ASSUME Inv, NEW s \in Sessions, Narrate(s)
  PROVE  Inv'
<1>1. tx[s].pc = "narrate" /\ tx[s] \in Tx /\ Fits(tx[s])
  BY SessionTyped DEF Narrate, At
<1>2. CASE Abort(s)
  BY <1>1, <1>2, Aborted
<1>3. ASSUME NEW n \in {"failed", "ai"}, n = "ai" => tx[s].rec = 0 \/ Rewritable(s),
             Step(s, [tx[s] EXCEPT !.pc = "close", !.narrated = n]),
             UNCHANGED <<state, run, job, snapshot, recs>>
      PROVE  Inv'
  <2> DEFINE r == [tx[s] EXCEPT !.pc = "close", !.narrated = n]
  <2>1. /\ r \in Tx /\ r.pc = "close" /\ r.of = Of(s) /\ r.inserted = tx[s].inserted
        /\ r.created = tx[s].created /\ r.facts = tx[s].facts /\ r.rec = tx[s].rec
        /\ r.seen = tx[s].seen /\ r.narrated = n
    BY <1>1 DEF Tx, Of, Pcs
  <2>2. Step(s, r)
    BY <1>3
  <2> HIDE DEF r
  <2>3. n = "ai" /\ tx[s].seen # 0 => recs[tx[s].rec].state \in Live
    <3> SUFFICES ASSUME n = "ai", tx[s].seen # 0 PROVE recs[tx[s].rec].state \in Live
      OBVIOUS
    <3>1. tx[s].rec \in DOMAIN recs /\ tx[s].rec # 0
      <4>1. tx[s].rec \in DOMAIN recs
        BY <1>1 DEF Fits
      <4> QED BY <4>1, RecTyped DEF Inv, Typed
    <3>2. tx[s].seen = recs[tx[s].rec].version
      BY <1>3, <3>1 DEF Rewritable
    <3> QED BY <1>1, <3>2 DEF Fits
  <2>4. Fits(r)
    BY <1>1, <1>3, <2>1, <2>3 DEF Fits, Of, Ensured
  <2> QED BY <1>3, <2>1, <2>2, <2>4, Moved
<1> QED BY <1>2, <1>3 DEF Narrate

-----------------------------------------------------------------------------
(* Requests and deliveries *)

LEMMA StateTyped == Inv => /\ state \in Nat /\ state <= MaxState /\ MaxState \in Nat
                           /\ \A h \in 1..state : h \in States
BY BoundsAssumption DEF Inv, Typed, States

LEMMA MutateKeeps ==
  ASSUME Inv, NEW c \in Clients, Mutate(c)
  PROVE  Inv'
<1> DEFINE h == state + 1
           r == [Idle EXCEPT !.pc = "hash", !.kind = "inline", !.of = h, !.own = TRUE]
<1>1. h \in States /\ h \notin 1..state /\ h > state /\ c \in Sessions /\ h \in 1..h
  BY StateTyped DEF Mutate, States, Sessions
<1>2. /\ state' = h /\ Step(c, r) /\ UNCHANGED <<snapshot, recs>>
      /\ run' = [run EXCEPT ![h].status = "queued"]
      /\ job' = [job EXCEPT ![h].status = "queued"]
  BY DEF Mutate
<1>3. run \in [States -> Run] /\ job \in [States -> Job]
  BY DEF Inv, Typed
<1>4. /\ r \in Tx /\ r.pc = "hash" /\ r.of = h /\ r.inserted = FALSE /\ r.created = FALSE
      /\ r.rec = 0 /\ r.seen = 0
  <2>1. h \in 0..MaxState /\ 0 \in 0..MaxState
    BY <1>1, BoundsAssumption DEF States
  <2> HIDE DEF h
  <2> QED BY <2>1 DEF Idle, Tx, Pcs
<1>5. job[h].status = "none" /\ job[h].attempts = 0
  BY <1>1 DEF Inv, JobsSound
<1>6. h \in 0..MaxState /\ \A g \in States : g > h => g > state /\ g # h
  BY <1>1, StateTyped DEF States
<1>7. state' \in state..MaxState
  BY <1>2, StateTyped DEF Mutate
<1> HIDE DEF h, r
<1>8. /\ job'[h].status = "queued" /\ job'[h].attempts = job[h].attempts
      /\ run'[h].snapshot = run[h].snapshot
      /\ \A g \in States : g # h => job'[g] = job[g] /\ run'[g] = run[g]
  BY <1>1, <1>2, <1>3 DEF Job, Run
<1>9. /\ tx' \in [Sessions -> Tx] /\ tx'[c] = r
      /\ \A t \in Others(c) : tx'[t] = tx[t]
  BY <1>1, <1>2, <1>4, Placed
<1>10. Typed'
  <2>1. run' \in [States -> Run] /\ job' \in [States -> Job]
    BY <1>1, <1>2, <1>3 DEF Run, Job
  <2> QED BY <1>2, <1>6, <1>9, <2>1 DEF Inv, Typed
<1>11. JobsSound'
  <2>1. job'[h].attempts < MaxAttempts
    BY <1>5, <1>8, BoundsAssumption
  <2> QED BY <1>2, <1>6, <1>8, <2>1 DEF Inv, JobsSound
<1>12. Sound(c)'
  BY <1>1, <1>2, <1>4, <1>9 DEF Sound, Fits, Ensured
<1>13. Env
  BY <1>1, <1>2, <1>7, <1>8, StateTyped DEF Env
<1>14. SnapshotIsOfItsState'
  <2>1. \A g \in States : run'[g].snapshot = run[g].snapshot
    BY <1>8
  <2> QED BY <1>2, <2>1 DEF Inv, SnapshotIsOfItsState
<1>15. QueuedRunHasJob'
  BY <1>8 DEF Inv, QueuedRunHasJob
<1> QED BY <1>1, <1>9, <1>10, <1>11, <1>12, <1>13, <1>14, <1>15, Stepped

LEMMA ViewKeeps ==
  ASSUME Inv, NEW c \in Clients, View(c)
  PROVE  Inv'
<1> DEFINE r == [Idle EXCEPT !.pc = "hash", !.kind = "view", !.of = state]
<1>1. state \in 0..MaxState /\ 0 \in 0..MaxState /\ state \in 1..state /\ c \in Sessions
  BY StateTyped DEF View, Sessions
<1>2. /\ r \in Tx /\ r.pc = "hash" /\ r.of = state /\ r.inserted = FALSE /\ r.created = FALSE
      /\ r.rec = 0 /\ r.seen = 0
  BY <1>1 DEF Idle, Tx, Pcs
<1>3. Step(c, r) /\ UNCHANGED <<state, run, job, snapshot, recs>>
  BY DEF View
<1> HIDE DEF r
<1>4. Fits(r)
  BY <1>1, <1>2 DEF Fits, Ensured
<1> QED BY <1>1, <1>2, <1>3, <1>4, Moved

LEMMA DeliverKeeps ==
  ASSUME Inv, NEW h \in States, Deliver(h)
  PROVE  Inv'
<1> DEFINE r == [Idle EXCEPT !.pc = "begin", !.kind = "worker", !.of = h]
<1>1. run \in [States -> Run] /\ job \in [States -> Job] /\ Worker \in Sessions
  BY DEF Inv, Typed, Sessions
<1>2. job[h].status = "queued" /\ job[h].attempts < MaxAttempts /\ h \in 1..state
  <2>1. job[h].status = "queued"
    BY DEF Deliver, Claimable
  <2>2. ~ (h > state)
    BY <2>1 DEF Inv, JobsSound
  <2> QED BY <2>1, <2>2, StateTyped DEF Inv, JobsSound, States
<1>3. job[h].attempts \in 0..MaxAttempts
  BY <1>1 DEF Job
<1>4. job[h].attempts + 1 \in 0..MaxAttempts
  BY <1>2, <1>3, BoundsAssumption
<1>5. /\ r \in Tx /\ r.pc = "begin" /\ r.of = h /\ r.inserted = FALSE /\ r.created = FALSE
      /\ r.rec = 0 /\ r.seen = 0
  <2>1. h \in 0..MaxState /\ 0 \in 0..MaxState
    BY BoundsAssumption DEF States
  <2> QED BY <2>1 DEF Idle, Tx, Pcs
<1>6. /\ job' = [job EXCEPT ![h].status = "leased", ![h].attempts = @ + 1]
      /\ Step(Worker, r) /\ UNCHANGED <<state, run, snapshot, recs>>
  BY DEF Deliver
<1> HIDE DEF r
<1>7. /\ job'[h].status = "leased" /\ \A g \in States : g # h => job'[g] = job[g]
      /\ job' \in [States -> Job]
  BY <1>1, <1>4, <1>6 DEF Job
<1>8. /\ tx' \in [Sessions -> Tx] /\ tx'[Worker] = r
      /\ \A t \in Others(Worker) : tx'[t] = tx[t]
  BY <1>1, <1>5, <1>6, Placed
<1>9. Typed'
  BY <1>6, <1>7, <1>8 DEF Inv, Typed
<1>10. JobsSound'
  <2>1. ~ (h > state)
    BY <1>2, StateTyped
  <2> QED BY <1>6, <1>7, <2>1 DEF Inv, JobsSound
<1>11. Sound(Worker)'
  BY <1>2, <1>5, <1>6, <1>8 DEF Sound, Fits, Ensured
<1>12. Env
  BY <1>6, StateTyped DEF Env
<1>13. SnapshotIsOfItsState'
  BY <1>6 DEF Inv, SnapshotIsOfItsState
<1>14. QueuedRunHasJob'
  BY <1>6, <1>7 DEF Inv, QueuedRunHasJob
<1> QED BY <1>1, <1>8, <1>9, <1>10, <1>11, <1>12, <1>13, <1>14, Stepped

\* A worker whose run is not queued may settle its job
LEMMA Settles ==
  ASSUME Inv, tx[Worker].pc # "idle"
  PROVE  /\ Settling \in Tx /\ Settling.pc = "settle" /\ Settling.of = Of(Worker)
         /\ Settling.inserted = FALSE /\ Settling.created = FALSE
         /\ Settling.rec = 0 /\ Settling.seen = 0
         /\ Worker \in Sessions /\ Of(Worker) \in States /\ Of(Worker) \in 1..state
<1>1. Worker \in Sessions
  BY DEF Sessions
<1>2. Of(Worker) \in States /\ Of(Worker) \in 1..state
  BY <1>1, SessionTyped DEF Fits, Of
<1>3. Of(Worker) \in 0..MaxState /\ 0 \in 0..MaxState
  BY <1>2, BoundsAssumption DEF States
<1> QED BY <1>1, <1>2, <1>3 DEF Settling, Idle, Tx, Pcs

LEMMA BeginKeeps ==
  ASSUME Inv, Begin
  PROVE  Inv'
<1> DEFINE h == Of(Worker)
<1>1. tx[Worker].pc = "begin" /\ Worker \in Sessions /\ tx[Worker] \in Tx /\ Fits(tx[Worker])
  BY SessionTyped DEF Begin, At, Sessions
<1>2. CASE run[h].status = "completed" /\ Step(Worker, Settling) /\ UNCHANGED run
  <2>1. Fits(Settling)
    BY <1>1, <1>2, Settles DEF Fits, Ensured
  <2> QED BY <1>1, <1>2, <2>1, Settles, Moved DEF Begin
<1>3. CASE /\ run[h].status # "completed" /\ state # h
           /\ run' = [run EXCEPT ![h].status = "partial"] /\ Step(Worker, Settling)
  <2>1. run \in [States -> Run] /\ h \in States /\ UNCHANGED <<state, job, snapshot, recs>>
    BY <1>1, Settles DEF Inv, Typed, Begin
  <2> HIDE DEF h
  <2>2. /\ run' \in [States -> Run] /\ run'[h].status = "partial"
        /\ run'[h].snapshot = run[h].snapshot
        /\ \A g \in States : g # h => run'[g] = run[g]
    BY <1>3, <2>1 DEF Run
  <2>3. /\ tx' \in [Sessions -> Tx] /\ tx'[Worker] = Settling
        /\ \A t \in Others(Worker) : tx'[t] = tx[t]
    BY <1>1, <1>3, Settles, Placed
  <2>4. Typed'
    BY <2>1, <2>2, <2>3 DEF Inv, Typed
  <2>5. Sound(Worker)'
    BY <1>1, <2>1, <2>2, <2>3, Settles DEF Sound, Fits, Ensured, h
  <2>6. Env
    BY <2>1, <2>2, StateTyped DEF Env
  <2>7. SnapshotIsOfItsState'
    <3>1. \A g \in States : run'[g].snapshot = run[g].snapshot
      BY <2>2
    <3> QED BY <2>1, <3>1 DEF Inv, SnapshotIsOfItsState
  <2>8. QueuedRunHasJob' /\ JobsSound'
    BY <2>1, <2>2 DEF Inv, QueuedRunHasJob, JobsSound
  <2> QED BY <1>1, <2>3, <2>4, <2>5, <2>6, <2>7, <2>8, Stepped
<1>4. CASE Step(Worker, [tx[Worker] EXCEPT !.pc = "hash", !.held = TRUE]) /\ UNCHANGED run
  <2> DEFINE r == [tx[Worker] EXCEPT !.pc = "hash", !.held = TRUE]
  <2>1. /\ r \in Tx /\ r.pc = "hash" /\ r.of = Of(Worker) /\ r.inserted = tx[Worker].inserted
        /\ r.created = tx[Worker].created /\ r.facts = tx[Worker].facts
        /\ r.rec = tx[Worker].rec /\ r.seen = tx[Worker].seen
        /\ r.narrated = tx[Worker].narrated
    BY <1>1 DEF Tx, Of, Pcs
  <2>2. Step(Worker, r) /\ UNCHANGED <<state, run, job, snapshot, recs>>
    BY <1>4 DEF Begin
  <2> HIDE DEF r
  <2>3. ~ tx[Worker].inserted /\ ~ tx[Worker].created
    BY <1>1 DEF Fits, Ensured
  <2>4. Fits(r)
    BY <1>1, <2>1, <2>3 DEF Fits, Of, Ensured
  <2> QED BY <1>1, <2>1, <2>2, <2>4, Moved
<1> QED BY <1>2, <1>3, <1>4 DEF Begin

LEMMA SettleKeeps ==
  ASSUME Inv, Settle
  PROVE  Inv'
<1> DEFINE h == Of(Worker)
           j == IF job[h].status = "leased" THEN "done" ELSE job[h].status
<1>1. /\ tx[Worker].pc = "settle" /\ Worker \in Sessions /\ h \in States
      /\ run[h].status # "queued" /\ run \in [States -> Run] /\ job \in [States -> Job]
  <2>1. tx[Worker].pc = "settle" /\ Worker \in Sessions
    BY DEF Settle, At, Sessions
  <2>2. Fits(tx[Worker])
    BY <2>1, SessionTyped
  <2> QED BY <2>1, <2>2, Settles DEF Inv, Typed, Fits, Of
<1>2. /\ job' = [job EXCEPT ![h].status = j] /\ Step(Worker, Idle)
      /\ UNCHANGED <<state, run, snapshot, recs>>
  BY <1>1 DEF Settle
<1>3. /\ j \in {"none", "queued", "leased", "done", "failed"}
      /\ j = "done" \/ j = job[h].status
      /\ j = "none" => job[h].status = "none"
  BY <1>1 DEF Job
<1>4. h > state => job[h].status = "none"
  BY <1>1 DEF Inv, JobsSound
<1>5. ~ (h > state)
  BY <1>1, Settles, StateTyped
<1> HIDE DEF h, j
<1>6. /\ job' \in [States -> Job] /\ job'[h].status = j /\ job'[h].attempts = job[h].attempts
      /\ \A g \in States : g # h => job'[g] = job[g]
  BY <1>1, <1>2, <1>3 DEF Job
<1>7. /\ tx' \in [Sessions -> Tx] /\ tx'[Worker] = Idle
      /\ \A t \in Others(Worker) : tx'[t] = tx[t]
  BY <1>1, <1>2, IdleFits, Placed
<1>8. Typed'
  BY <1>2, <1>6, <1>7 DEF Inv, Typed
<1>9. JobsSound'
  BY <1>2, <1>3, <1>5, <1>6 DEF Inv, JobsSound
<1>10. Sound(Worker)'
  BY <1>7 DEF Sound, Fits, Idle, Ensured
<1>11. Env
  BY <1>2, StateTyped DEF Env
<1>12. SnapshotIsOfItsState'
  BY <1>2 DEF Inv, SnapshotIsOfItsState
<1>13. QueuedRunHasJob'
  BY <1>1, <1>2, <1>6 DEF Inv, QueuedRunHasJob
<1> QED BY <1>1, <1>7, <1>8, <1>9, <1>10, <1>11, <1>12, <1>13, Stepped

-----------------------------------------------------------------------------
(* Commits *)

LEMMA RewriteTyped ==
  ASSUME NEW r \in Rec
  PROVE  /\ Rewritten(r) \in Rec /\ Rewritten(r).of = r.of /\ Rewritten(r).state = r.state
         /\ Rewritten(r).version = r.version + 1
<1>1. r.version + 1 \in Nat \ {0}
  BY DEF Rec
<1> QED BY <1>1 DEF Rewritten, Rec

\* What a commit writes
LEMMA Persisted ==
  ASSUME Inv, NEW s \in Sessions, tx[s].pc \in Ensured, Committed(s)
  PROVE  /\ snapshot' \in [States -> 0..MaxState]
         /\ \A h \in States : snapshot[h] # 0 => snapshot'[h] # 0
         /\ \A h \in States : snapshot'[h] \in {0, h}
         /\ snapshot'[Of(s)] # 0
         /\ recs' \in Seq(Rec)
         /\ \A i \in DOMAIN recs :
              /\ i \in DOMAIN recs' /\ recs'[i].state = recs[i].state
              /\ recs'[i] = recs[i] \/ recs'[i].version = recs[i].version + 1
              /\ recs[i].state \notin Live => recs'[i] = recs[i]
         /\ \A i \in DOMAIN recs' : snapshot'[recs'[i].of] # 0
<1>1. /\ snapshot \in [States -> 0..MaxState] /\ recs \in Seq(Rec)
      /\ tx[s] \in Tx /\ Fits(tx[s]) /\ Of(s) \in States /\ Of(s) # 0
  BY SessionTyped DEF Inv, Typed, Ensured
<1>2. /\ \A h \in States : snapshot[h] \in {0, h} /\ h # 0 /\ h \in 0..MaxState
      /\ \A i \in DOMAIN recs : snapshot[recs[i].of] # 0 /\ recs[i] \in Rec
  BY <1>1, RecTyped, BoundsAssumption DEF Inv, SnapshotIsOfItsState, States
<1>3. /\ snapshot' = IF tx[s].inserted THEN [snapshot EXCEPT ![Of(s)] = tx[s].facts] ELSE snapshot
      /\ tx[s].inserted => tx[s].facts = Of(s)
      /\ tx[s].inserted \/ snapshot[Of(s)] # 0
  BY <1>1 DEF Committed, Fits, Of
<1>4. /\ snapshot' \in [States -> 0..MaxState]
      /\ \A h \in States : snapshot[h] # 0 => snapshot'[h] # 0
      /\ \A h \in States : snapshot'[h] \in {0, h}
      /\ snapshot'[Of(s)] # 0
  BY <1>1, <1>2, <1>3
<1>5. CASE tx[s].created
  <2> DEFINE new == Recommendation(s)
  <2>1. recs' = Append(recs, new)
    BY <1>5 DEF Committed
  <2>2. new \in Rec /\ new.of = Of(s)
    BY <1>1 DEF Recommendation, Rec, Live
  <2> HIDE DEF new
  <2>3. /\ recs' \in Seq(Rec) /\ Len(recs') = Len(recs) + 1
        /\ \A i \in 1..Len(recs) : recs'[i] = recs[i]
        /\ recs'[Len(recs) + 1] = new
    BY <1>1, <2>1, <2>2, AppendProperties
  <2>4. DOMAIN recs = 1..Len(recs) /\ DOMAIN recs' = 1..Len(recs') /\ Len(recs) \in Nat
    BY <1>1, <2>3, LenProperties
  <2>5. \A i \in DOMAIN recs : i \in DOMAIN recs' /\ recs'[i] = recs[i]
    BY <2>3, <2>4
  <2>6. \A i \in DOMAIN recs' : i \in DOMAIN recs \/ recs'[i] = new
    BY <2>3, <2>4
  <2>7. ASSUME NEW i \in DOMAIN recs' PROVE snapshot'[recs'[i].of] # 0
    <3>1. CASE i \in DOMAIN recs
      <4>1. recs[i].of \in States /\ snapshot[recs[i].of] # 0
        BY <1>2, <3>1 DEF Rec
      <4> QED BY <1>4, <2>5, <3>1, <4>1
    <3>2. CASE recs'[i] = new
      BY <1>4, <2>2, <3>2
    <3> QED BY <2>6, <3>1, <3>2
  <2> QED BY <1>4, <2>3, <2>5, <2>7
<1>6. CASE ~ tx[s].created
  <2> DEFINE n == tx[s].rec
             new == Rewritten(recs[n])
  <2>1. recs' = [i \in DOMAIN recs |-> IF Rewrites(s, i) THEN Rewritten(recs[i]) ELSE recs[i]]
    BY <1>6 DEF Committed
  <2>2. \A i \in DOMAIN recs :
          recs'[i] = recs[i] \/ (i = n /\ recs'[i] = new /\ recs[n].state \in Live)
    <3> SUFFICES ASSUME NEW i \in DOMAIN recs, Rewrites(s, i)
                 PROVE  i = n /\ recs'[i] = Rewritten(recs[i]) /\ recs[n].state \in Live
      BY <2>1
    <3>1. tx[s].narrated = "ai" /\ n = i /\ tx[s].seen # 0
      BY DEF Rewrites
    <3>2. recs[n].state \in Live
      BY <1>1, <3>1 DEF Fits
    <3> QED BY <2>1, <3>1, <3>2
  <2>3. \A i \in DOMAIN recs : Rewritten(recs[i]) \in Rec /\ Rewritten(recs[i]).of = recs[i].of
          /\ Rewritten(recs[i]).state = recs[i].state
          /\ Rewritten(recs[i]).version = recs[i].version + 1
    BY <1>2, RewriteTyped
  <2>4. DOMAIN recs = 1..Len(recs) /\ Len(recs) \in Nat /\ recs \in [1..Len(recs) -> Rec]
    BY <1>1, LenProperties
  <2> HIDE DEF n
  <2>5. DOMAIN recs' = DOMAIN recs
    BY <2>1
  <2>6. recs' \in Seq(Rec)
    <3>1. CASE \E i \in DOMAIN recs : recs'[i] # recs[i]
      <4>1. n \in 1..Len(recs) /\ recs'[n] = new /\ new \in Rec
        BY <2>2, <2>3, <2>4, <3>1
      <4> HIDE DEF new
      <4>2. recs' = [recs EXCEPT ![n] = new]
        BY <2>1, <2>2, <2>4, <4>1
      <4> QED BY <1>1, <4>1, <4>2, ExceptSeq
    <3>2. CASE \A i \in DOMAIN recs : recs'[i] = recs[i]
      <4>1. recs' = recs
        BY <2>1, <2>4, <3>2
      <4> QED BY <1>1, <4>1
    <3> QED BY <3>1, <3>2
  <2>7. \A i \in DOMAIN recs : /\ recs'[i].of = recs[i].of /\ recs'[i].state = recs[i].state
                               /\ recs'[i] = recs[i] \/ recs'[i].version = recs[i].version + 1
                               /\ recs[i].state \notin Live => recs'[i] = recs[i]
    BY <2>2, <2>3
  <2>8. ASSUME NEW i \in DOMAIN recs' PROVE snapshot'[recs'[i].of] # 0
    <3>1. recs[i].of \in States /\ snapshot[recs[i].of] # 0
      BY <1>2, <2>5 DEF Rec
    <3> QED BY <1>4, <2>5, <2>7, <3>1
  <2> QED BY <1>4, <2>5, <2>6, <2>7, <2>8
<1> QED BY <1>5, <1>6

\* A commit with what it writes on the run and the job of its state
LEMMA CommitKeeps ==
  ASSUME Inv, NEW s \in Sessions, tx[s].pc \in Ensured, Committed(s), UNCHANGED state,
         NEW r \in Tx, Step(s, r),
         r.pc = "idle" => r = Idle,
         r.pc # "idle" => r = Settling /\ s = Worker /\ run'[Of(s)].status # "queued",
         \A h \in States : h # Of(s) => run'[h] = run[h] /\ job'[h] = job[h],
         run' \in [States -> Run], job' \in [States -> Job],
         \/ run'[Of(s)] = run[Of(s)] /\ job'[Of(s)] = job[Of(s)]
         \/ /\ run'[Of(s)].status # "queued" /\ run'[Of(s)].snapshot = Of(s)
            /\ job'[Of(s)] = job[Of(s)] \/ job'[Of(s)].status = "done"
  PROVE  Inv'
<1>1. /\ snapshot' \in [States -> 0..MaxState]
      /\ \A h \in States : snapshot[h] # 0 => snapshot'[h] # 0
      /\ \A h \in States : snapshot'[h] \in {0, h}
      /\ snapshot'[Of(s)] # 0
      /\ recs' \in Seq(Rec)
      /\ \A i \in DOMAIN recs :
           /\ i \in DOMAIN recs' /\ recs'[i].state = recs[i].state
           /\ recs'[i] = recs[i] \/ recs'[i].version = recs[i].version + 1
      /\ \A i \in DOMAIN recs' : snapshot'[recs'[i].of] # 0
  BY Persisted
<1>2. /\ tx' \in [Sessions -> Tx] /\ tx'[s] = r
      /\ \A t \in Others(s) : tx'[t] = tx[t]
  BY Placed
<1>3. Of(s) \in States /\ Of(s) \in 1..state /\ tx[s].pc # "idle"
  BY SessionTyped DEF Ensured, Fits, Of
<1>4. Typed'
  BY <1>1, <1>2 DEF Inv, Typed
<1>5. Env
  BY <1>1, <1>3, StateTyped DEF Env
<1>6. JobsSound'
  <2>1. ~ (Of(s) > state)
    BY <1>3, StateTyped
  <2> QED BY <1>3, <2>1 DEF Inv, JobsSound
<1>7. SnapshotIsOfItsState'
  <2>1. ASSUME NEW h \in States, run'[h].snapshot # 0 PROVE snapshot'[run'[h].snapshot] # 0
    <3>1. CASE run'[h].snapshot = run[h].snapshot
      <4>1. snapshot[run[h].snapshot] # 0
        BY <2>1, <3>1 DEF Inv, SnapshotIsOfItsState
      <4>2. run[h].snapshot \in States
        BY <2>1, <3>1 DEF Inv, Typed, Run, States
      <4> QED BY <1>1, <3>1, <4>1, <4>2
    <3>2. CASE run'[h].snapshot = Of(s)
      BY <1>1, <3>2
    <3> QED BY <3>1, <3>2
  <2> QED BY <1>1, <2>1 DEF SnapshotIsOfItsState
<1>8. QueuedRunHasJob'
  BY <1>3 DEF Inv, QueuedRunHasJob
<1>9. Sound(s)'
  <2>1. CASE r = Idle
    BY <1>2, <2>1 DEF Sound, Fits, Idle, Ensured
  <2>2. CASE r.pc # "idle"
    <3>1. r.of = Of(s) /\ r.pc = "settle" /\ r.inserted = FALSE /\ r.created = FALSE
          /\ r.rec = 0 /\ r.seen = 0
      BY <1>3, <2>2, Settles
    <3> QED BY <1>2, <1>3, <2>2, <3>1 DEF Sound, Fits, Ensured
  <2> QED BY <2>1, <2>2
<1> QED BY <1>2, <1>4, <1>5, <1>6, <1>7, <1>8, <1>9, Stepped

LEMMA ViewCommitKeeps ==
  ASSUME Inv, NEW s \in Sessions, CommitView(s)
  PROVE  Inv'
<1>1. tx[s].pc \in Ensured /\ UNCHANGED <<state, run, job>> /\ Committed(s) /\ Step(s, Idle)
  BY DEF CommitView, At, Ensured
<1>2. Idle \in Tx /\ Idle.pc = "idle" /\ run \in [States -> Run] /\ job \in [States -> Job]
  BY IdleFits DEF Idle, Inv, Typed
<1> QED BY <1>1, <1>2, CommitKeeps

LEMMA InlineCommitKeeps ==
  ASSUME Inv, NEW s \in Sessions, CommitInline(s)
  PROVE  Inv'
<1> DEFINE h == Of(s)
<1>1. tx[s].pc \in Ensured /\ tx[s].pc # "idle" /\ Committed(s) /\ Step(s, Idle) /\ UNCHANGED state
  BY DEF CommitInline, At, Ensured
<1>2. /\ Idle \in Tx /\ Idle.pc = "idle" /\ run \in [States -> Run] /\ job \in [States -> Job]
      /\ h \in States /\ h \in 0..MaxState
  BY <1>1, IdleFits, SessionTyped, BoundsAssumption DEF Idle, Inv, Typed, States
<1>3. /\ run' = [run EXCEPT ![h] = [status |-> "completed", snapshot |-> h]]
      /\ job' = job \/ job' = [job EXCEPT ![h].status = "done"]
  BY DEF CommitInline
<1> HIDE DEF h
<1>4. /\ run' \in [States -> Run] /\ job' \in [States -> Job]
      /\ \A g \in States : g # h => run'[g] = run[g] /\ job'[g] = job[g]
      /\ run'[h].status = "completed" /\ run'[h].snapshot = h
      /\ job'[h] = job[h] \/ job'[h].status = "done"
  BY <1>2, <1>3 DEF Run, Job
<1> QED BY <1>1, <1>2, <1>4, CommitKeeps DEF h

LEMMA WorkerCommitKeeps ==
  ASSUME Inv, CommitWorker
  PROVE  Inv'
<1> DEFINE h == Of(Worker)
           q == IF tx[Worker].narrated = "failed" THEN "partial" ELSE "completed"
<1>1. /\ tx[Worker].pc \in Ensured /\ tx[Worker].pc # "idle" /\ Committed(Worker)
      /\ Step(Worker, Settling) /\ UNCHANGED <<state, job>>
      /\ run' = [run EXCEPT ![h] = [status |-> q, snapshot |-> h]]
  BY DEF CommitWorker, At, Ensured
<1>2. /\ Settling \in Tx /\ Settling.pc = "settle" /\ Worker \in Sessions /\ h \in States
      /\ run \in [States -> Run] /\ job \in [States -> Job] /\ h \in 0..MaxState
  <2>1. Settling \in Tx /\ Settling.pc = "settle" /\ Worker \in Sessions /\ h \in States
    BY <1>1, Settles
  <2> HIDE DEF h
  <2> QED BY <2>1, BoundsAssumption DEF Inv, Typed, States
<1>3. q \in {"partial", "completed"}
  OBVIOUS
<1> HIDE DEF h, q
<1>4. /\ run' \in [States -> Run]
      /\ \A g \in States : g # h => run'[g] = run[g]
      /\ run'[h].status = q /\ run'[h].snapshot = h
  BY <1>1, <1>2, <1>3 DEF Run
<1> QED BY <1>1, <1>2, <1>3, <1>4, CommitKeeps DEF h

-----------------------------------------------------------------------------
(* Decisions *)

LEMMA DecideKeeps ==
  ASSUME Inv, NEW i \in DOMAIN recs, NEW d \in DOMAIN Outcome, NEW v, NEW k \in Keys,
         Decide(i, d, v, k)
  PROVE  Inv'
<1> DEFINE new == [recs[i] EXCEPT !.state = Outcome[d], !.version = @ + 1]
<1>1. recs \in Seq(Rec) /\ recs[i] \in Rec /\ i \in 1..Len(recs) /\ DOMAIN recs = 1..Len(recs)
  BY RecTyped, LenProperties DEF Inv, Typed
<1>2. recs' = [recs EXCEPT ![i] = new] /\ UNCHANGED <<state, run, job, snapshot, tx>>
  BY <1>1 DEF Decide
<1>3. new \in Rec /\ new.of = recs[i].of /\ new.version = recs[i].version + 1
  <2>1. recs[i].version + 1 \in Nat \ {0}
    BY <1>1 DEF Rec
  <2>2. Outcome[d] \in Live \cup {"accepted", "dismissed"}
    BY DEF Outcome, Live
  <2> QED BY <1>1, <2>1, <2>2 DEF Rec
<1>4. \A s \in Sessions : ~ Rewrites(s, i)
  BY DEF Decide
<1> HIDE DEF new
<1>5. recs' \in Seq(Rec) /\ Len(recs') = Len(recs) /\ DOMAIN recs' = DOMAIN recs
  BY <1>1, <1>2, <1>3, ExceptSeq
<1>6. recs'[i] = new /\ \A j \in DOMAIN recs : j # i => recs'[j] = recs[j]
  BY <1>1, <1>2
<1>7. Env
  BY <1>2, <1>3, <1>4, <1>5, <1>6, StateTyped DEF Env
<1>8. \A s \in Sessions : Sound(s)'
  BY <1>2, <1>7, Undisturbed
<1>9. Typed' /\ JobsSound' /\ QueuedRunHasJob'
  BY <1>2, <1>5 DEF Inv, Typed, JobsSound, QueuedRunHasJob
<1>10. SnapshotIsOfItsState'
  <2>1. \A j \in DOMAIN recs : recs'[j].of = recs[j].of
    BY <1>3, <1>6
  <2> QED BY <1>2, <1>5, <2>1 DEF Inv, SnapshotIsOfItsState
<1> QED BY <1>8, <1>9, <1>10 DEF Inv

-----------------------------------------------------------------------------
(* The invariant and the theorems *)

LEMMA InvInit == Init => Inv
<1> SUFFICES ASSUME Init PROVE Inv
  OBVIOUS
<1>1. 0 \in 0..MaxState /\ 0 \in 0..MaxAttempts
  BY BoundsAssumption
<1>2. Idle \in Tx
  BY <1>1 DEF Idle, Tx, Pcs
<1>3. recs \in Seq(Rec) /\ DOMAIN recs = {}
  <2>1. recs = <<>>
    BY DEF Init
  <2> QED BY <2>1, EmptySeq, LenProperties
<1>4. Typed
  BY <1>1, <1>2, <1>3 DEF Init, Typed, Run, Job
<1>5. \A s \in Sessions : Sound(s)
  BY DEF Init, Sound, Fits, Idle, Ensured
<1>6. JobsSound
  BY BoundsAssumption DEF Init, JobsSound
<1>7. SnapshotIsOfItsState /\ QueuedRunHasJob
  BY <1>3 DEF Init, SnapshotIsOfItsState, QueuedRunHasJob
<1> QED BY <1>4, <1>5, <1>6, <1>7 DEF Inv

LEMMA AdvanceKeeps ==
  ASSUME Inv, NEW s \in Sessions, Advance(s)
  PROVE  Inv'
<1>1. ASSUME DeadlockDetected(s) PROVE Inv'
  <2>1. tx[s].pc # "idle"
    BY <1>1 DEF DeadlockDetected, WaitsFor, At
  <2> QED BY <1>1, <2>1, Aborted DEF DeadlockDetected
<1> QED BY <1>1, HashKeeps, LoadKeeps, InsertKeeps, SyncKeeps, CreateKeeps, NarrateKeeps,
           ViewCommitKeeps, InlineCommitKeeps DEF Advance

LEMMA InvStep == Inv /\ [Next]_vars => Inv'
<1> SUFFICES ASSUME Inv, [Next]_vars PROVE Inv'
  OBVIOUS
<1>1. CASE UNCHANGED vars
  BY <1>1 DEF vars, Inv, Typed, JobsSound, Sound, Fits, SnapshotIsOfItsState, QueuedRunHasJob
<1>2. ASSUME NEW c \in Clients, Mutate(c) \/ View(c) PROVE Inv'
  BY <1>2, MutateKeeps, ViewKeeps
<1>3. ASSUME NEW s \in Sessions, Advance(s) PROVE Inv'
  BY <1>3, AdvanceKeeps
<1>4. CASE Work
  BY <1>4, BeginKeeps, WorkerCommitKeeps, SettleKeeps, DeliverKeeps DEF Work
<1>5. CASE Crash
  <2>1. Worker \in Sessions
    BY DEF Sessions
  <2> QED BY <1>5, <2>1, Aborted DEF Crash, At
<1>6. CASE Decision
  <2>1. PICK i \in DOMAIN recs, d \in DOMAIN Outcome, v \in 1..MaxVersion, k \in Keys :
          Decide(i, d, v, k)
    BY <1>6 DEF Decision
  <2> QED BY <2>1, DecideKeeps
<1>7. CASE Done
  BY <1>1, <1>7 DEF Done
<1> QED BY <1>1, <1>2, <1>3, <1>4, <1>5, <1>6, <1>7 DEF Next

\* No row goes away, one that was accepted or dismissed stays, and only a
\* recorded decision changes what a row says
Final ==
  \A i \in DOMAIN recs :
    /\ i \in DOMAIN recs'
    /\ recs[i].state \notin Live => recs'[i] = recs[i]
    /\ recs'[i].state # recs[i].state =>
         \E k \in Keys : decided[k].rec = 0 /\ decided'[k].rec = i
                        /\ Outcome[decided'[k].decision] = recs'[i].state

Decided == [rec : 0..Len(recs), decision : DOMAIN Outcome \cup {"none"}]
KeysTyped == decided \in [Keys -> Decided]

LEMMA CommitFinal ==
  ASSUME Inv, NEW s \in Sessions, tx[s].pc \in Ensured, Committed(s)
  PROVE  Final
<1>1. \A i \in DOMAIN recs :
        /\ i \in DOMAIN recs' /\ recs'[i].state = recs[i].state
        /\ recs[i].state \notin Live => recs'[i] = recs[i]
  BY Persisted
<1> QED BY <1>1 DEF Final

LEMMA DecideFinal ==
  ASSUME Inv, KeysTyped, NEW i \in DOMAIN recs, NEW d \in DOMAIN Outcome, NEW v,
         NEW k \in Keys, Decide(i, d, v, k)
  PROVE  Final
<1>1. recs \in Seq(Rec) /\ recs[i] \in Rec /\ DOMAIN recs = 1..Len(recs)
  BY RecTyped, LenProperties DEF Inv, Typed
<1>2. /\ decided[k].rec = 0 /\ recs[i].state \in Live
      /\ decided' = [decided EXCEPT ![k] = [rec |-> i, decision |-> d]]
      /\ recs' = [recs EXCEPT ![i].state = Outcome[d], ![i].version = @ + 1]
  BY DEF Decide, Decidable
<1>3. /\ recs'[i].state = Outcome[d] /\ DOMAIN recs' = DOMAIN recs
      /\ \A j \in DOMAIN recs : j # i => recs'[j] = recs[j]
  BY <1>1, <1>2 DEF Rec
<1>4. decided'[k].rec = i /\ decided'[k].decision = d
  BY <1>2 DEF KeysTyped, Decided
<1> QED BY <1>2, <1>3, <1>4 DEF Final

LEMMA StepFinal == Inv /\ KeysTyped /\ [Next]_vars => [Final]_vars
<1> SUFFICES ASSUME Inv, KeysTyped, Next PROVE Final
  OBVIOUS
<1>1. ASSUME UNCHANGED recs PROVE Final
  BY <1>1 DEF Final
<1>2. ASSUME NEW s \in Sessions, CommitView(s) \/ CommitInline(s) PROVE Final
  BY <1>2, CommitFinal DEF CommitView, CommitInline, At, Ensured
<1>3. ASSUME NEW s \in Sessions, Advance(s) PROVE Final
  <2>1. CASE Hash(s) \/ Load(s) \/ Insert(s) \/ Sync(s)
    BY <1>1, <2>1 DEF Hash, Load, Insert, Sync, Abort
  <2>2. CASE Create(s) \/ Narrate(s) \/ DeadlockDetected(s)
    BY <1>1, <2>2 DEF Create, Narrate, DeadlockDetected, Abort
  <2> QED BY <1>2, <1>3, <2>1, <2>2 DEF Advance
<1>4. CASE Work
  <2>1. CASE Begin \/ Settle \/ \E h \in States : Deliver(h)
    BY <1>1, <2>1 DEF Begin, Settle, Deliver
  <2>2. CASE CommitWorker
    BY <2>2, CommitFinal DEF CommitWorker, At, Ensured, Sessions
  <2> QED BY <1>4, <2>1, <2>2 DEF Work
<1>5. CASE Decision
  <2>1. PICK i \in DOMAIN recs, d \in DOMAIN Outcome, v \in 1..MaxVersion, k \in Keys :
          Decide(i, d, v, k)
    BY <1>5 DEF Decision
  <2> QED BY <2>1, DecideFinal
<1>6. CASE Crash \/ Done \/ \E c \in Clients : Mutate(c) \/ View(c)
  BY <1>1, <1>6 DEF Crash, Done, Abort, Mutate, View, vars
<1> QED BY <1>3, <1>4, <1>5, <1>6 DEF Next

LEMMA KeysStep == Inv /\ KeysTyped /\ [Next]_vars => KeysTyped'
<1> SUFFICES ASSUME Inv, KeysTyped, [Next]_vars PROVE KeysTyped'
  OBVIOUS
<1>1. CASE UNCHANGED vars
  BY <1>1 DEF vars, KeysTyped, Decided
<1>2. CASE Next
  <2>1. recs \in Seq(Rec) /\ recs' \in Seq(Rec)
    BY InvStep DEF Inv, Typed
  <2>2. Len(recs) \in Nat /\ Len(recs') \in Nat /\ Len(recs) <= Len(recs')
    <3>1. /\ Len(recs) \in Nat /\ DOMAIN recs = 1..Len(recs)
          /\ Len(recs') \in Nat /\ DOMAIN recs' = 1..Len(recs')
      BY <2>1, LenProperties
    <3>2. \A i \in DOMAIN recs : i \in DOMAIN recs'
      <4>1. CASE UNCHANGED vars
        BY <4>1 DEF vars
      <4>2. CASE ~ UNCHANGED vars
        BY <1>2, <4>2, StepFinal DEF Final
      <4> QED BY <4>1, <4>2
    <3> QED BY <3>1, <3>2
  <2>3. \A k \in Keys : decided[k] \in Decided => decided[k] \in Decided'
    BY <2>2 DEF Decided
  <2>4. CASE UNCHANGED decided
    BY <2>3, <2>4 DEF KeysTyped
  <2>5. ASSUME NEW i \in DOMAIN recs, NEW d \in DOMAIN Outcome, NEW v, NEW k \in Keys,
               Decide(i, d, v, k)
        PROVE  KeysTyped'
    <3>1. i \in 1..Len(recs)
      BY <2>1, LenProperties
    <3>2. [rec |-> i, decision |-> d] \in Decided'
      BY <2>2, <3>1 DEF Decided
    <3>3. decided' = [decided EXCEPT ![k] = [rec |-> i, decision |-> d]]
      BY <2>5 DEF Decide
    <3> QED BY <2>3, <3>2, <3>3 DEF KeysTyped
  <2>6. CASE \E s \in Sessions : Advance(s)
    BY <2>4, <2>6 DEF Advance, Hash, Load, Insert, Sync, Create, Narrate, CommitView,
                     CommitInline, DeadlockDetected, Abort
  <2>7. CASE Work \/ Crash \/ Done \/ \E c \in Clients : Mutate(c) \/ View(c)
    BY <2>4, <2>7 DEF Work, Begin, CommitWorker, Settle, Deliver, Crash, Done, Abort, Mutate,
                     View, vars
  <2> QED BY <1>2, <2>5, <2>6, <2>7 DEF Next, Decision
<1> QED BY <1>1, <1>2

LEMMA KeysInit == Init => KeysTyped
<1> SUFFICES ASSUME Init PROVE KeysTyped
  OBVIOUS
<1>1. recs = <<>> /\ Len(recs) \in Nat
  BY EmptySeq DEF Init
<1> QED BY <1>1 DEF Init, KeysTyped, Decided

\* Every variable keeps its type, and no job is given more than max_attempts attempts.
THEOREM TypeCorrect == Spec => []TypeOK
<1>1. Inv /\ KeysTyped => TypeOK
  <2> SUFFICES ASSUME Inv, KeysTyped PROVE TypeOK
    OBVIOUS
  <2>1. recs \in Seq(Rec) /\ Len(recs) \in Nat /\ DOMAIN recs = 1..Len(recs)
    BY LenProperties DEF Inv, Typed
  <2>2. ASSUME NEW s \in Sessions PROVE tx[s].rec \in 0..Len(recs)
    BY <2>1, SessionTyped DEF Fits
  <2>3. tx \in [Sessions -> Tx]
    BY DEF Inv, Typed
  <2>4. \A s \in Sessions : tx[s] \in
          [pc : Pcs, kind : {"none", "inline", "view", "worker"}, of : 0..MaxState,
           facts : 0..MaxState, own : BOOLEAN, inserted : BOOLEAN, rec : 0..Len(recs),
           seen : Nat, created : BOOLEAN, narrated : {"none", "ai", "failed"},
           held : BOOLEAN]
    BY <2>2, <2>3 DEF Tx
  <2>5. tx \in [Sessions -> [pc : Pcs, kind : {"none", "inline", "view", "worker"},
           of : 0..MaxState, facts : 0..MaxState, own : BOOLEAN, inserted : BOOLEAN,
           rec : 0..Len(recs), seen : Nat, created : BOOLEAN,
           narrated : {"none", "ai", "failed"}, held : BOOLEAN]]
    BY <2>3, <2>4
  <2> QED BY <2>5 DEF Inv, Typed, KeysTyped, Decided, TypeOK, Run, Job, Pcs
<1> QED BY InvInit, InvStep, KeysInit, KeysStep, <1>1, PTL DEF Spec

\* Whatever commits between the two hashes of recalculate, a snapshot that is persisted
\* under a state was computed from the rows of that state, and what a run or a
\* recommendation refers to is persisted with it.
THEOREM SnapshotsHold == Spec => []SnapshotIsOfItsState
<1>1. Inv => SnapshotIsOfItsState
  BY DEF Inv
<1> QED BY InvInit, InvStep, <1>1, PTL DEF Spec

\* A monitoring run that is still to be done has a job somebody will be given, whoever
\* dies or is chosen as the victim of a deadlock.
THEOREM QueuedRunsHaveJobs == Spec => []QueuedRunHasJob
<1>1. Inv => QueuedRunHasJob
  BY DEF Inv
<1> QED BY InvInit, InvStep, <1>1, PTL DEF Spec

\* What the owner accepted or dismissed is not decided again, nor rewritten by a
\* narrative that enrich_with_ai asked for while it was open.
THEOREM DecisionsStay == Spec => DecisionIsFinal
<1>1. [Final]_vars => [\A i \in DOMAIN recs :
         /\ recs[i].state \notin Live => recs'[i] = recs[i]
         /\ recs'[i].state # recs[i].state =>
              \E k \in Keys : decided[k].rec = 0 /\ decided'[k].rec = i
                             /\ Outcome[decided'[k].decision] = recs'[i].state]_vars
  BY DEF Final
<1> QED BY InvInit, InvStep, KeysInit, KeysStep, StepFinal, <1>1, PTL DEF Spec, DecisionIsFinal
=============================================================================
