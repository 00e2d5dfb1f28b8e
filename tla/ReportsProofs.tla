---------------------------- MODULE ReportsProofs ----------------------------
(***************************************************************************)
(* Proofs about Reports: one report of equal facts, of which every settled *)
(* run tells the truth, settled runs that stay settled, and the quota that *)
(* the admission lock keeps, for any number of clients, workers and runs.  *)
(*                                                                         *)
(* The invariant adds to the properties what keeps a worker's look for a   *)
(* report true until its insert: the facts of its run do not change while  *)
(* it is at work (BusyHasRun, JobHasRun), and no report is ever removed    *)
(* (FoundIsThere).  QuotaInv says what the lock is for: one client holds   *)
(* it, and while it does there is room for the run it will insert.         *)
(***************************************************************************)
EXTENDS Reports, TLAPS, FiniteSetTheorems, WellFoundedInduction

Status == Active \cup Settled \cup {"none", "failed", "cancelled"}
JobStatus == {"none", "queued", "claimed", "completed", "failed", "cancelled"}
Tx == [pc : {"idle", "compute", "insert"}, key : Keys \cup {"none"}, of : States, new : BOOLEAN]
Run == [status : Status, facts : Facts, tokens : {0, Used}, alone : BOOLEAN]
Job == [status : JobStatus, attempts : 0..MaxAttempts, by : Workers \cup {"none"}]
Report == [facts : Facts, status : Settled]
Wk == [pc : {"idle", "begin", "narrate", "persist", "settle"}, key : Keys \cup {"none"},
       narrated : BOOLEAN, had : {0, Used}, found : BOOLEAN]

\* TypeOK with its record sets named
Typed ==
  /\ state \in States /\ snapshots \subseteq States /\ lock \subseteq Clients
  /\ tx \in [Clients -> Tx] /\ runs \in [Keys -> Run] /\ jobs \in [Keys -> Job]
  /\ reports \subseteq Report /\ wk \in [Workers -> Wk]

LEMMA Types == TypeOK <=> Typed
BY DEF TypeOK, Typed, Tx, Run, Job, Report, Wk, Status, JobStatus

\* Who is not idle has a key
KeysKnown ==
  /\ \A c \in Clients : tx[c].pc # "idle" => tx[c].key \in Keys
  /\ \A w \in Workers : wk[w].pc # "idle" => wk[w].key \in Keys

\* The run of a job is there
JobHasRun == \A k \in Keys : jobs[k].status # "none" => runs[k].status # "none"

\* .. and that of a delivery
BusyHasRun == \A w \in Workers : wk[w].pc # "idle" => runs[wk[w].key].status # "none"

\* What persist found is still there
FoundIsThere ==
  \A w \in Workers :
    wk[w].pc = "persist" /\ wk[w].found => ReportsOf(runs[wk[w].key].facts) # {}

Inv == Typed /\ KeysKnown /\ JobHasRun /\ BusyHasRun /\ FoundIsThere /\ RunsAgreeWithReport

-----------------------------------------------------------------------------
(* Types *)

LEMMA TypeInit == Init => Typed /\ KeysKnown
BY BoundsAssumption, UsedAssumption
   DEF Init, Typed, Tx, Run, Job, Wk, Report, Status, JobStatus, Settled, KeysKnown, NoRun, NoFacts, IdleClient, IdleWorker, States, Facts

\* A step of a client
LEMMA ClientTypes ==
  ASSUME Typed, KeysKnown, NEW c \in Clients, Request(c)
  PROVE  Typed' /\ KeysKnown'
<1> DEFINE k == tx[c].key
<1>1. /\ state \in States /\ snapshots \subseteq States /\ lock \subseteq Clients
      /\ tx \in [Clients -> Tx] /\ runs \in [Keys -> Run] /\ jobs \in [Keys -> Job]
      /\ reports \subseteq Report /\ wk \in [Workers -> Wk]
  BY DEF Typed
<1>2. IdleClient \in Tx
  BY BoundsAssumption DEF IdleClient, Tx, States
<1>3. ASSUME Leave(c) PROVE Typed' /\ KeysKnown'
  BY <1>1, <1>2, <1>3 DEF Typed, Leave, Step, KeysKnown, IdleClient
<1>4. ASSUME NEW q \in Keys, Start(c, q) PROVE Typed' /\ KeysKnown'
  <2>1. [IdleClient EXCEPT !.key = q, !.of = state,
           !.pc = IF state \in snapshots THEN "insert" ELSE "compute"] \in Tx
    BY <1>1 DEF IdleClient, Tx
  <2> QED BY <1>1, <1>4, <2>1 DEF Typed, Start, Step, KeysKnown, IdleClient
<1>5. ASSUME Compute(c) PROVE Typed' /\ KeysKnown'
  <2>1. CASE Leave(c)
    BY <1>3, <2>1
  <2>2. CASE ~ Leave(c)
    <3> DEFINE late == tx[c].of \in snapshots
    <3> DEFINE rec == [tx[c] EXCEPT !.pc = "insert", !.new = ~ late]
    <3>1. rec \in Tx /\ rec.key = tx[c].key
      BY <1>1 DEF Tx
    <3>2. tx' = [tx EXCEPT ![c] = rec] /\ tx[c].key \in Keys
      BY <1>5, <2>2 DEF Compute, Step, KeysKnown
    <3>3. /\ lock' \subseteq lock
          /\ UNCHANGED <<state, snapshots, runs, jobs, reports, wk>>
      BY <1>5, <2>2 DEF Compute
    <3> HIDE DEF rec
    <3> QED BY <1>1, <3>1, <3>2, <3>3 DEF Typed, KeysKnown
  <2> QED BY <2>1, <2>2
<1>6. ASSUME Insert(c) PROVE Typed' /\ KeysKnown'
  <2>1. CASE runs[k].status # "none"
    BY <1>3, <1>6, <2>1 DEF Insert
  <2>2. CASE runs[k].status = "none"
    <3>1. k \in Keys /\ tx[c] \in Tx
      BY <1>1, <1>6 DEF Insert, KeysKnown
    <3>2. [NoRun EXCEPT !.status = "queued", !.facts = [of |-> tx[c].of, rows |-> state],
                        !.alone = c \in lock] \in Run
      <4>1. [of |-> tx[c].of, rows |-> state] \in Facts
        BY <1>1, <3>1 DEF Facts, Tx
      <4>2. (c \in lock) \in BOOLEAN
        OBVIOUS
      <4> QED BY <4>1, <4>2 DEF NoRun, Run, Status, Active
    <3>3. [jobs[k] EXCEPT !.status = "queued"] \in Job
      BY <1>1, <3>1 DEF Job, JobStatus
    <3>4. /\ runs' = [runs EXCEPT ![k] =
                        [NoRun EXCEPT !.status = "queued",
                           !.facts = [of |-> tx[c].of, rows |-> state], !.alone = c \in lock]]
          /\ jobs' = [jobs EXCEPT ![k].status = "queued"]
          /\ snapshots' = IF tx[c].new THEN snapshots \cup {tx[c].of} ELSE snapshots
          /\ tx' = [tx EXCEPT ![c] = IdleClient] /\ lock' = lock \ {c}
          /\ UNCHANGED <<state, reports, wk>>
      BY <1>6, <2>2 DEF Insert, Step
    <3>5. runs' \in [Keys -> Run] /\ jobs' \in [Keys -> Job]
      BY <1>1, <3>1, <3>2, <3>3, <3>4
    <3>6. snapshots' \subseteq States
      BY <1>1, <3>1, <3>4 DEF Tx
    <3> HIDE DEF k
    <3> QED BY <1>1, <1>2, <3>4, <3>5, <3>6 DEF Typed, KeysKnown, IdleClient
  <2> QED BY <2>1, <2>2
<1> QED BY <1>4, <1>5, <1>6 DEF Request

\* A job that fails
LEMMA FailedTypes ==
  ASSUME runs \in [Keys -> Run], jobs \in [Keys -> Job], NEW k \in Keys, FailJob(k)
  PROVE  runs' \in [Keys -> Run] /\ jobs' \in [Keys -> Job]
<1>1. [jobs[k] EXCEPT !.status = "failed", !.by = "none"] \in Job
  BY DEF Job, JobStatus
<1>2. \A s \in Status : [runs[k] EXCEPT !.status = s] \in Run
  BY DEF Run
<1>3. (IF runs[k].status \in Active THEN "failed" ELSE runs[k].status) \in Status
  BY DEF Run, Status
<1> QED BY <1>1, <1>2, <1>3 DEF FailJob

\* The report that persist found is one of the reports
LEMMA FoundNow ==
  ASSUME FoundIsThere, NEW w \in Workers, wk[w].pc = "persist", wk[w].found
  PROVE  /\ (CHOOSE x \in ReportsOf(runs[wk[w].key].facts) : TRUE) \in reports
         /\ (CHOOSE x \in ReportsOf(runs[wk[w].key].facts) : TRUE).facts = runs[wk[w].key].facts
BY DEF FoundIsThere, ReportsOf

\* A step of a worker
LEMMA WorkerTypes ==
  ASSUME Typed, KeysKnown, FoundIsThere, NEW w \in Workers, Work(w)
  PROVE  Typed' /\ KeysKnown'
<1> DEFINE k == wk[w].key
<1>1. /\ state \in States /\ snapshots \subseteq States /\ lock \subseteq Clients
      /\ tx \in [Clients -> Tx] /\ runs \in [Keys -> Run] /\ jobs \in [Keys -> Job]
      /\ reports \subseteq Report /\ wk \in [Workers -> Wk]
  BY DEF Typed
<1>2. IdleWorker \in Wk /\ wk[w] \in Wk
  BY <1>1 DEF IdleWorker, Wk
<1>3. wk[w].pc # "idle" => k \in Keys
  BY DEF KeysKnown
<1>4. wk[w].pc # "idle" => Settling(w) \in Wk /\ Settling(w).key \in Keys
  BY <1>2, <1>3 DEF Settling, IdleWorker, Wk, Key
<1>5. ASSUME NEW q \in Keys, Deliver(w, q) PROVE Typed' /\ KeysKnown'
  <2>1. jobs[q].attempts + 1 \in 0..MaxAttempts
    <3>1. jobs[q].attempts \in 0..MaxAttempts /\ jobs[q].attempts < MaxAttempts
      BY <1>1, <1>5 DEF Deliver, Claimable, Job
    <3> QED BY <3>1, BoundsAssumption
  <2>2. [status |-> "claimed", attempts |-> jobs[q].attempts + 1, by |-> w] \in Job
    BY <2>1 DEF Job, JobStatus
  <2>3. jobs' = [jobs EXCEPT ![q] =
                  [status |-> "claimed", attempts |-> jobs[q].attempts + 1, by |-> w]]
    BY <1>5 DEF Deliver
  <2>4. jobs' \in [Keys -> Job]
    BY <1>1, <2>2, <2>3
  <2>5. [IdleWorker EXCEPT !.pc = "begin", !.key = q] \in Wk
    BY <1>2 DEF IdleWorker, Wk
  <2>6. wk' \in [Workers -> Wk]
    BY <1>1, <1>5, <2>5 DEF Deliver
  <2>7. \A v \in Workers : wk'[v].pc # "idle" => wk'[v].key \in Keys
    BY <1>5 DEF Deliver, KeysKnown, IdleWorker
  <2> QED BY <1>1, <1>5, <2>4, <2>6, <2>7 DEF Typed, Deliver, KeysKnown
<1>6. ASSUME NEW record \in Wk, Do(w, record), record.pc # "idle" => record.key \in Keys
      PROVE  /\ wk' \in [Workers -> Wk]
             /\ \A v \in Workers : wk'[v].pc # "idle" => wk'[v].key \in Keys
  BY <1>1, <1>6 DEF Do, KeysKnown
<1>7. IdleWorker.pc = "idle"
  BY DEF IdleWorker
<1>8. ASSUME Begin(w) PROVE Typed' /\ KeysKnown'
  <2>1. k \in Keys
    BY <1>3, <1>8 DEF Begin, At
  <2>2. [wk[w] EXCEPT !.pc = "narrate", !.had = runs[k].tokens] \in Wk
    BY <1>1, <1>2, <2>1 DEF Wk, Run
  <2>3. \A b \in BOOLEAN : [runs[k] EXCEPT !.status = "running", !.alone = b] \in Run
    BY <1>1, <2>1 DEF Run, Status, Active
  <2>4. (runs[k].alone /\ ~ Revives(k)) \in BOOLEAN
    OBVIOUS
  <2>5. runs' \in [Keys -> Run]
    BY <1>1, <1>8, <2>1, <2>3, <2>4 DEF Begin, Key
  <2>6. /\ wk' \in [Workers -> Wk]
        /\ \A v \in Workers : wk'[v].pc # "idle" => wk'[v].key \in Keys
    <3>1. CASE Reopens(k)
      <4>1. [wk[w] EXCEPT !.pc = "narrate", !.had = runs[k].tokens].key \in Keys
        BY <1>2, <2>1 DEF Wk
      <4> QED BY <1>6, <1>8, <2>2, <3>1, <4>1 DEF Begin, Key
    <3>2. CASE ~ Reopens(k)
      BY <1>4, <1>6, <1>8, <3>2 DEF Begin, Key, At
    <3> QED BY <3>1, <3>2
  <2> QED BY <1>1, <1>8, <2>5, <2>6 DEF Typed, Begin, KeysKnown
<1>9. ASSUME Narrate(w) PROVE Typed' /\ KeysKnown'
  <2>1. PICK n \in IF Provider THEN BOOLEAN ELSE {FALSE} :
          Do(w, [wk[w] EXCEPT !.pc = "persist", !.narrated = n,
                   !.found = ReportsOf(runs[k].facts) # {}])
    BY <1>9 DEF Narrate, Key
  <2>2. n \in BOOLEAN /\ k \in Keys
    BY <1>3, <1>9, <2>1 DEF Narrate, At
  <2> DEFINE rec == [wk[w] EXCEPT !.pc = "persist", !.narrated = n,
                       !.found = ReportsOf(runs[k].facts) # {}]
  <2>3. rec \in Wk /\ rec.key = k
    BY <1>2, <2>2 DEF Wk
  <2> HIDE DEF rec
  <2>4. /\ wk' \in [Workers -> Wk]
        /\ \A v \in Workers : wk'[v].pc # "idle" => wk'[v].key \in Keys
    BY <1>6, <2>1, <2>2, <2>3 DEF rec
  <2> QED BY <1>1, <1>9, <2>4 DEF Typed, Narrate, KeysKnown
<1>10. ASSUME Persist(w) PROVE Typed' /\ KeysKnown'
  <2>1. k \in Keys
    BY <1>3, <1>10 DEF Persist, At
  <2> DEFINE r == IF wk[w].found THEN CHOOSE x \in ReportsOf(runs[k].facts) : TRUE
                  ELSE Written(w)
  <2>2. /\ wk[w].found \/ ReportsOf(runs[k].facts) = {}
        /\ reports' = reports \cup {r}
        /\ runs' = [runs EXCEPT ![k].status = r.status,
                                ![k].tokens = IF Cost(w) = wk[w].had THEN @ ELSE Cost(w),
                                ![k].alone = @ /\ ~ Revives(k)]
        /\ Do(w, Settling(w))
        /\ UNCHANGED <<state, snapshots, lock, tx, jobs>>
    BY <1>10 DEF Persist, Key, Outcome
  <2>3. Written(w) \in Report
    BY <1>1, <2>1 DEF Written, Report, Run, Settled, Key
  <2>4. wk[w].found => r \in reports
    BY <1>10, FoundNow DEF Persist, At
  <2>5. r \in Report
    BY <1>1, <2>3, <2>4
  <2> HIDE DEF r
  <2>6. (IF Cost(w) = wk[w].had THEN runs[k].tokens ELSE Cost(w)) \in {0, Used}
    BY <1>1, <2>1 DEF Cost, Run
  <2>7. \A s \in Status, n \in {0, Used}, b \in BOOLEAN :
          [runs[k] EXCEPT !.status = s, !.tokens = n, !.alone = b] \in Run
    BY <1>1, <2>1 DEF Run
  <2>8. runs' \in [Keys -> Run]
    <3>1. r.status \in Status
      BY <2>5 DEF Report, Status
    <3>2. (runs[k].alone /\ ~ Revives(k)) \in BOOLEAN
      OBVIOUS
    <3> QED BY <1>1, <2>1, <2>2, <2>6, <2>7, <3>1, <3>2
  <2>9. /\ wk' \in [Workers -> Wk]
        /\ \A v \in Workers : wk'[v].pc # "idle" => wk'[v].key \in Keys
    BY <1>4, <1>6, <1>10, <2>2 DEF Persist, At
  <2> QED BY <1>1, <2>2, <2>5, <2>8, <2>9 DEF Typed, KeysKnown
<1>11. ASSUME Settle(w) PROVE Typed' /\ KeysKnown'
  <2>1. wk' \in [Workers -> Wk] /\ \A v \in Workers : wk'[v].pc # "idle" => wk'[v].key \in Keys
    BY <1>2, <1>6, <1>7, <1>11 DEF Settle
  <2>2. k \in Keys
    BY <1>3, <1>11 DEF Settle, At
  <2>3. [jobs[k] EXCEPT !.status = "completed", !.by = "none"] \in Job
    BY <1>1, <2>2 DEF Job, JobStatus
  <2>4. jobs' \in [Keys -> Job]
    BY <1>1, <1>11, <2>2, <2>3 DEF Settle, Key
  <2> QED BY <1>1, <1>11, <2>1, <2>4 DEF Typed, Settle, KeysKnown
<1>12. ASSUME Fail(w) PROVE Typed' /\ KeysKnown'
  <2>1. wk' \in [Workers -> Wk] /\ \A v \in Workers : wk'[v].pc # "idle" => wk'[v].key \in Keys
    BY <1>2, <1>6, <1>7, <1>12 DEF Fail
  <2>2. k \in Keys
    BY <1>3, <1>12 DEF Fail
  <2>3. [jobs[k] EXCEPT !.status = "queued", !.by = "none"] \in Job
    BY <1>1, <2>2 DEF Job, JobStatus
  <2>4. runs' \in [Keys -> Run] /\ jobs' \in [Keys -> Job]
    BY <1>1, <1>12, <2>2, <2>3, FailedTypes DEF Fail, Key
  <2> QED BY <1>1, <1>12, <2>1, <2>4 DEF Typed, Fail, KeysKnown
<1>13. ASSUME Crash(w) PROVE Typed' /\ KeysKnown'
  <2>1. wk' \in [Workers -> Wk] /\ \A v \in Workers : wk'[v].pc # "idle" => wk'[v].key \in Keys
    BY <1>2, <1>6, <1>7, <1>13 DEF Crash
  <2> QED BY <1>1, <1>13, <2>1 DEF Typed, Crash, KeysKnown
<1> QED BY <1>5, <1>8, <1>9, <1>10, <1>11, <1>12, <1>13 DEF Work

\* The plan, the owner's cancel and the reconciliation of a job
LEMMA OtherTypes ==
  ASSUME Typed, KeysKnown,
         Mutate \/ Board \/ \E k \in Keys : Cancel(k) \/ Reconcile(k)
  PROVE  Typed' /\ KeysKnown'
<1>1. /\ state \in States /\ snapshots \subseteq States /\ lock \subseteq Clients
      /\ tx \in [Clients -> Tx] /\ runs \in [Keys -> Run] /\ jobs \in [Keys -> Job]
      /\ reports \subseteq Report /\ wk \in [Workers -> Wk]
  BY DEF Typed
<1>2. ASSUME Mutate PROVE Typed' /\ KeysKnown'
  <2>1. state' \in States
    BY <1>1, <1>2, BoundsAssumption DEF Mutate, States
  <2> QED BY <1>1, <1>2, <2>1 DEF Typed, Mutate, KeysKnown
<1>3. ASSUME Board PROVE Typed' /\ KeysKnown'
  BY <1>1, <1>3 DEF Typed, Board, KeysKnown
<1>4. ASSUME NEW k \in Keys, Cancel(k) PROVE Typed' /\ KeysKnown'
  <2>1. [runs[k] EXCEPT !.status = "cancelled"] \in Run
    BY <1>1 DEF Run, Status
  <2>2. [jobs[k] EXCEPT !.status = "cancelled", !.by = "none"] \in Job
    BY <1>1 DEF Job, JobStatus
  <2>3. runs' \in [Keys -> Run] /\ jobs' \in [Keys -> Job]
    BY <1>1, <1>4, <2>1, <2>2 DEF Cancel
  <2> QED BY <1>1, <1>4, <2>3 DEF Typed, Cancel, KeysKnown
<1>5. ASSUME NEW k \in Keys, Reconcile(k) PROVE Typed' /\ KeysKnown'
  <2>1. runs' \in [Keys -> Run] /\ jobs' \in [Keys -> Job]
    BY <1>1, <1>5, FailedTypes DEF Reconcile
  <2> QED BY <1>1, <1>5, <2>1 DEF Typed, Reconcile, KeysKnown
<1> QED BY <1>2, <1>3, <1>4, <1>5

-----------------------------------------------------------------------------
(* Runs, jobs and deliveries *)

\* What every step keeps: a run once inserted is there with its facts, and no
\* report goes away
Kept ==
  /\ \A k \in Keys : runs[k].status # "none" =>
       runs'[k].status # "none" /\ runs'[k].facts = runs[k].facts
  /\ reports \subseteq reports'

\* A job or a delivery of a run is there only when the run is
Based ==
  /\ \A k \in Keys : jobs'[k].status # "none" =>
       jobs[k].status # "none" \/ runs'[k].status # "none"
  /\ \A w \in Workers : wk'[w].pc # "idle" =>
       \/ wk[w].pc # "idle" /\ wk'[w].key = wk[w].key
       \/ wk'[w].key \in Keys /\ runs[wk'[w].key].status # "none"
  /\ \A w \in Workers : wk'[w].pc = "persist" /\ wk'[w].found =>
       \/ wk'[w] = wk[w]
       \/ wk[w].pc # "idle" /\ wk'[w].key = wk[w].key
          /\ ReportsOf(runs[wk[w].key].facts) # {}

\* A run is settled by the step only with what a report says of its facts
Settles ==
  \A k \in Keys : runs'[k].status \in Settled =>
    \/ runs[k].status = runs'[k].status
    \/ [facts |-> runs'[k].facts, status |-> runs'[k].status] \in reports'

\* .. and reports stay one for each facts
OneReport == \A r, q \in reports : r.facts = q.facts => r = q

\* A settled run stays, unless its owner cancels a partial one
Stays ==
  \A k \in Keys : runs[k].status \in Settled =>
    \/ runs'[k].status = runs[k].status
    \/ runs[k].status = "partial" /\ runs'[k].status = "cancelled"

Effect == Kept /\ Based /\ Settles /\ OneReport' /\ Stays

LEMMA FailedEffect ==
  ASSUME Inv, NEW k \in Keys, FailJob(k), jobs[k].status # "none",
         UNCHANGED reports,
         \A w \in Workers : wk'[w] = wk[w] \/ wk'[w].pc = "idle"
  PROVE  Effect
<1>1. runs \in [Keys -> Run] /\ jobs \in [Keys -> Job]
  BY DEF Inv, Typed
<1>2. \A q \in Keys : /\ runs'[q].facts = runs[q].facts
                      /\ \/ runs'[q].status = runs[q].status
                         \/ runs[q].status \in Active /\ runs'[q].status = "failed"
  BY <1>1 DEF FailJob, Run
<1>3. \A q \in Keys : jobs'[q].status # "none" => jobs[q].status # "none"
  BY <1>1 DEF FailJob, Job
<1>4. Kept
  BY <1>2 DEF Kept
<1>5. Based
  BY <1>3 DEF Based
<1>6. Settles /\ Stays
  BY <1>2 DEF Settles, Stays, Settled, Active
<1>7. OneReport'
  BY DEF Inv, RunsAgreeWithReport, OneReport
<1> QED BY <1>4, <1>5, <1>6, <1>7 DEF Effect

LEMMA ClientEffect ==
  ASSUME Inv, NEW c \in Clients, Request(c)
  PROVE  Effect
<1>1. runs \in [Keys -> Run] /\ jobs \in [Keys -> Job]
  BY DEF Inv, Typed
<1>2. ASSUME UNCHANGED <<runs, jobs, reports, wk>> PROVE Effect
  BY <1>2 DEF Effect, Kept, Based, Settles, OneReport, Stays, Inv, RunsAgreeWithReport
<1>3. ASSUME NEW k \in Keys, Start(c, k) PROVE Effect
  BY <1>2, <1>3 DEF Start
<1>4. ASSUME Compute(c) PROVE Effect
  BY <1>2, <1>4 DEF Compute, Leave
<1>5. ASSUME Insert(c) PROVE Effect
  <2> DEFINE k == tx[c].key
  <2>1. CASE runs[k].status # "none"
    BY <1>2, <1>5, <2>1 DEF Insert, Leave
  <2>2. CASE runs[k].status = "none"
    <3>1. k \in Keys
      BY <1>5 DEF Insert, Inv, KeysKnown
    <3>2. UNCHANGED <<reports, wk>>
      BY <1>5, <2>2 DEF Insert
    <3>3. \A q \in Keys : q # k => runs'[q] = runs[q] /\ jobs'[q] = jobs[q]
      BY <1>1, <1>5, <2>2, <3>1 DEF Insert
    <3>4. runs'[k].status = "queued"
      BY <1>1, <1>5, <2>2, <3>1 DEF Insert, NoRun
    <3>5. runs[k].status \notin Settled /\ runs'[k].status \notin Settled
      BY <2>2, <3>4 DEF Settled
    <3> HIDE DEF k
    <3>6. Kept
      BY <2>2, <3>2, <3>3 DEF Kept
    <3>7. Based
      BY <3>2, <3>3, <3>4 DEF Based
    <3>8. Settles /\ Stays
      BY <3>3, <3>5 DEF Settles, Stays
    <3>9. OneReport'
      BY <3>2 DEF Inv, RunsAgreeWithReport, OneReport
    <3> QED BY <3>6, <3>7, <3>8, <3>9 DEF Effect
  <2> QED BY <2>1, <2>2
<1> QED BY <1>3, <1>4, <1>5 DEF Request

LEMMA Done ==
  ASSUME wk \in [Workers -> Wk], NEW w \in Workers, NEW record, Do(w, record)
  PROVE  wk'[w] = record /\ \A v \in Workers : v # w => wk'[v] = wk[v]
BY DEF Do

LEMMA WorkerEffect ==
  ASSUME Inv, NEW w \in Workers, Work(w)
  PROVE  Effect
<1> DEFINE k == wk[w].key
<1>1. /\ runs \in [Keys -> Run] /\ jobs \in [Keys -> Job] /\ wk \in [Workers -> Wk]
      /\ wk[w].pc # "idle" => k \in Keys /\ runs[k].status # "none"
  BY DEF Inv, Typed, KeysKnown, BusyHasRun
<1>2. OneReport
  BY DEF Inv, RunsAgreeWithReport, OneReport
<1>3. ASSUME NEW q \in Keys, Deliver(w, q) PROVE Effect
  <2>1. jobs[q].status # "none" /\ runs[q].status # "none"
    BY <1>3 DEF Deliver, Claimable, Inv, JobHasRun
  <2>2. \A p \in Keys : jobs'[p].status # "none" => jobs[p].status # "none"
    BY <1>1, <1>3, <2>1 DEF Deliver
  <2>3. \A v \in Workers : wk'[v] = wk[v] \/ (wk'[v].pc = "begin" /\ wk'[v].key = q)
    <3> DEFINE rec == [IdleWorker EXCEPT !.pc = "begin", !.key = q]
    <3>1. rec.pc = "begin" /\ rec.key = q
      BY DEF IdleWorker
    <3>2. wk' = [v \in Workers |-> IF v = w THEN rec ELSE wk[v]]
      BY <1>3 DEF Deliver
    <3> HIDE DEF rec
    <3> QED BY <3>1, <3>2
  <2>4. UNCHANGED <<runs, reports>>
    BY <1>3 DEF Deliver
  <2>5. Based
    BY <2>1, <2>2, <2>3 DEF Based
  <2> QED BY <1>2, <2>4, <2>5 DEF Effect, Kept, Settles, OneReport, Stays
<1>4. ASSUME Begin(w) PROVE Effect
  <2>1. k \in Keys /\ runs[k].status # "none" /\ UNCHANGED <<jobs, reports>>
    BY <1>1, <1>4 DEF Begin, At
  <2>2. \A q \in Keys : runs'[q].facts = runs[q].facts
                        /\ \/ runs'[q].status = runs[q].status
                           \/ q = k /\ Reopens(k) /\ runs'[q].status = "running"
    <3>1. CASE Reopens(k)
      <4>1. runs' = [runs EXCEPT ![k] = [runs[k] EXCEPT !.status = "running",
                                           !.alone = @ /\ ~ Revives(k)]]
        BY <1>1, <1>4, <2>1, <3>1 DEF Begin, Key
      <4> DEFINE run == [runs[k] EXCEPT !.status = "running", !.alone = @ /\ ~ Revives(k)]
      <4>2. run.facts = runs[k].facts /\ run.status = "running"
        BY <1>1, <2>1 DEF Run
      <4> HIDE DEF run
      <4>3. runs' = [runs EXCEPT ![k] = run]
        BY <4>1 DEF run
      <4> HIDE DEF k
      <4> QED BY <1>1, <2>1, <3>1, <4>2, <4>3
    <3>2. CASE ~ Reopens(k)
      BY <1>4, <3>2 DEF Begin, Key
    <3> QED BY <3>1, <3>2
  <2>3. \A v \in Workers : wk'[v] = wk[v] \/ (v = w /\ wk'[v].pc # "persist" /\ wk'[v].key = k)
    <3>1. CASE Reopens(k)
      <4> DEFINE rec == [wk[w] EXCEPT !.pc = "narrate", !.had = runs[k].tokens]
      <4>1. rec.pc = "narrate" /\ rec.key = k
        BY <1>1 DEF Wk
      <4>2. Do(w, rec)
        BY <1>4, <3>1 DEF Begin, Key
      <4> HIDE DEF rec
      <4> QED BY <1>1, <4>1, <4>2, Done
    <3>2. CASE ~ Reopens(k)
      <4>1. Settling(w).pc = "settle" /\ Settling(w).key = k
        BY DEF Settling, IdleWorker, Key
      <4>2. Do(w, Settling(w))
        BY <1>4, <3>2 DEF Begin, Key
      <4> QED BY <1>1, <4>1, <4>2, Done
    <3> QED BY <3>1, <3>2
  <2>4. Kept
    BY <2>1, <2>2 DEF Kept
  <2>5. Based
    BY <1>4, <2>1, <2>3 DEF Based, Begin, At
  <2>6. Settles /\ Stays
    BY <2>2 DEF Settles, Stays, Settled, Reopens
  <2> QED BY <1>2, <2>1, <2>4, <2>5, <2>6 DEF Effect, OneReport
<1>5. ASSUME Narrate(w) PROVE Effect
  <2>1. UNCHANGED <<runs, jobs, reports>> /\ k \in Keys /\ runs[k].status # "none"
    BY <1>1, <1>5 DEF Narrate, At
  <2>2. PICK n : Do(w, [wk[w] EXCEPT !.pc = "persist", !.narrated = n,
                          !.found = ReportsOf(runs[k].facts) # {}])
    BY <1>5 DEF Narrate, Key
  <2> DEFINE rec == [wk[w] EXCEPT !.pc = "persist", !.narrated = n,
                       !.found = ReportsOf(runs[k].facts) # {}]
  <2>3. rec.key = k /\ rec.found = (ReportsOf(runs[k].facts) # {})
    BY <1>1 DEF Wk
  <2>4. Do(w, rec)
    BY <2>2
  <2> HIDE DEF rec
  <2>5. Based
    <3>1. \A v \in Workers : wk'[v] # wk[v] =>
            v = w /\ wk'[v].key = k /\ wk'[v].found = (ReportsOf(runs[k].facts) # {})
      BY <1>1, <2>3, <2>4, Done
    <3>2. wk[w].pc = "narrate"
      BY <1>5 DEF Narrate, At
    <3> QED BY <2>1, <3>1, <3>2 DEF Based
  <2> QED BY <1>2, <2>1, <2>5 DEF Effect, Kept, Settles, OneReport, Stays
<1>6. ASSUME Persist(w) PROVE Effect
  <2> DEFINE r == IF wk[w].found THEN CHOOSE x \in ReportsOf(runs[k].facts) : TRUE
                  ELSE Written(w)
  <2>1. k \in Keys /\ runs[k].status # "none" /\ wk[w].pc = "persist" /\ UNCHANGED jobs
    BY <1>1, <1>6 DEF Persist, At
  <2>2. /\ reports' = reports \cup {r}
        /\ wk[w].found \/ ReportsOf(runs[k].facts) = {}
        /\ Do(w, Settling(w))
    BY <1>6 DEF Persist, Key
  <2>3. r.facts = runs[k].facts /\ (wk[w].found => r \in reports)
    <3>1. CASE wk[w].found
      BY <2>1, <3>1, FoundNow DEF Inv
    <3>2. CASE ~ wk[w].found
      BY <3>2 DEF Written, Key
    <3> QED BY <3>1, <3>2
  <2>4. \A x \in reports' : x.facts = runs[k].facts => x = r
    <3>1. CASE wk[w].found
      BY <1>2, <2>2, <2>3, <3>1 DEF OneReport
    <3>2. CASE ~ wk[w].found
      <4>1. \A x \in reports : x.facts # runs[k].facts
        BY <2>2, <3>2 DEF ReportsOf
      <4> HIDE DEF r
      <4> QED BY <2>2, <4>1
    <3> QED BY <3>1, <3>2
  <2>5. r = [facts |-> r.facts, status |-> r.status]
    <3>1. CASE wk[w].found
      <4>1. r \in Report
        BY <2>3, <3>1 DEF Inv, Typed
      <4> HIDE DEF r
      <4> QED BY <4>1 DEF Report
    <3>2. CASE ~ wk[w].found
      BY <3>2 DEF Written
    <3> QED BY <3>1, <3>2
  <2>6. \A q \in Keys : runs'[q].facts = runs[q].facts
                        /\ runs'[q].status = IF q = k THEN r.status ELSE runs[q].status
    <3> DEFINE run == [runs[k] EXCEPT !.status = r.status,
                         !.tokens = IF Cost(w) = wk[w].had THEN @ ELSE Cost(w),
                         !.alone = @ /\ ~ Revives(k)]
    <3>1. runs' = [runs EXCEPT ![k] = run]
      <4>1. runs' = [runs EXCEPT ![k].status = r.status,
                                 ![k].tokens = IF Cost(w) = wk[w].had THEN @ ELSE Cost(w),
                                 ![k].alone = @ /\ ~ Revives(k)]
        BY <1>6 DEF Persist, Key, Outcome
      <4> HIDE DEF r
      <4> QED BY <1>1, <2>1, <4>1
    <3>2. run.facts = runs[k].facts /\ run.status = r.status
      <4> HIDE DEF r
      <4> QED BY <1>1, <2>1 DEF Run
    <3> HIDE DEF run, r, k
    <3> QED BY <1>1, <2>1, <3>1, <3>2
  <2> HIDE DEF r
  <2>7. OneReport'
    <3> SUFFICES ASSUME NEW x \in reports', NEW y \in reports', x.facts = y.facts PROVE x = y
      BY DEF OneReport
    <3>1. CASE x = r \/ y = r
      BY <2>3, <2>4, <3>1
    <3>2. CASE x # r /\ y # r
      BY <1>2, <2>2, <3>2 DEF OneReport
    <3> QED BY <3>1, <3>2
  <2>8. Kept
    <3>1. runs'[k].status # "none"
      <4>1. r \in reports'
        BY <2>2
      <4>2. r.status \in Settled
        <5>1. CASE wk[w].found
          BY <2>3, <5>1 DEF Inv, Typed, Report
        <5>2. CASE ~ wk[w].found
          BY <5>2 DEF r, Written, Settled
        <5> QED BY <5>1, <5>2
      <4> QED BY <2>1, <2>6, <4>2 DEF Settled
    <3> QED BY <2>2, <2>6, <3>1 DEF Kept
  <2>9. Based
    <3>1. \A v \in Workers : wk'[v] = wk[v] \/ (v = w /\ wk'[v].pc = "settle" /\ wk'[v].key = k)
      <4>1. Settling(w).pc = "settle" /\ Settling(w).key = k
        BY DEF Settling, IdleWorker, Key
      <4> QED BY <1>1, <2>2, <4>1, Done
    <3> QED BY <2>1, <3>1 DEF Based
  <2>10. Settles
    BY <2>2, <2>3, <2>5, <2>6 DEF Settles
  <2>11. Stays
    <3>1. runs[k].status \in Settled => runs[k].status = r.status
      <4>1. runs[k].status \in Settled =>
              [facts |-> runs[k].facts, status |-> runs[k].status] \in reports
        BY <2>1 DEF Inv, RunsAgreeWithReport
      <4>2. runs[k].status \in Settled =>
              [facts |-> runs[k].facts, status |-> runs[k].status] = r
        BY <2>2, <2>4, <4>1
      <4> QED BY <4>2
    <3> QED BY <2>6, <3>1 DEF Stays
  <2> QED BY <2>7, <2>8, <2>9, <2>10, <2>11 DEF Effect
<1>7. ASSUME UNCHANGED <<runs, reports>>,
             \A v \in Workers : wk'[v] = wk[v] \/ wk'[v].pc = "idle",
             \A q \in Keys : jobs'[q].status # "none" => jobs[q].status # "none"
      PROVE  Effect
  <2>1. Based
    BY <1>7 DEF Based
  <2> QED BY <1>2, <1>7, <2>1 DEF Effect, Kept, Settles, OneReport, Stays
<1>8. ASSUME Do(w, IdleWorker)
      PROVE  \A v \in Workers : wk'[v] = wk[v] \/ wk'[v].pc = "idle"
  BY <1>1, <1>8 DEF Do, IdleWorker
<1>9. ASSUME Settle(w) PROVE Effect
  <2>1. \A q \in Keys : jobs'[q].status # "none" => jobs[q].status # "none"
    BY <1>1, <1>9 DEF Settle, Mine
  <2> QED BY <1>7, <1>8, <1>9, <2>1 DEF Settle
<1>10. ASSUME Fail(w) PROVE Effect
  <2>1. Do(w, IdleWorker) /\ UNCHANGED reports /\ k \in Keys
    BY <1>1, <1>10 DEF Fail
  <2>2. CASE FailJob(k) /\ Mine(w)
    BY <1>8, <2>1, <2>2, FailedEffect DEF Mine, Key
  <2>3. CASE UNCHANGED <<jobs, runs>>
    BY <1>7, <1>8, <2>1, <2>3
  <2>4. CASE /\ UNCHANGED runs /\ Mine(w)
             /\ jobs' = [jobs EXCEPT ![k].status = "queued", ![k].by = "none"]
    <3>1. \A q \in Keys : jobs'[q].status # "none" => jobs[q].status # "none"
      BY <1>1, <2>1, <2>4 DEF Mine, Key
    <3> QED BY <1>7, <1>8, <2>1, <2>4, <3>1
  <2> QED BY <1>10, <2>2, <2>3, <2>4 DEF Fail, Key
<1>11. ASSUME Crash(w) PROVE Effect
  BY <1>7, <1>8, <1>11 DEF Crash
<1> QED BY <1>3, <1>4, <1>5, <1>6, <1>9, <1>10, <1>11 DEF Work

LEMMA OtherEffect ==
  ASSUME Inv, Mutate \/ Board \/ \E k \in Keys : Cancel(k) \/ Reconcile(k)
  PROVE  Effect
<1>1. runs \in [Keys -> Run] /\ jobs \in [Keys -> Job] /\ OneReport
  BY DEF Inv, Typed, RunsAgreeWithReport, OneReport
<1>2. CASE Mutate \/ Board
  BY <1>1, <1>2 DEF Mutate, Board, Effect, Kept, Based, Settles, OneReport, Stays
<1>3. ASSUME NEW k \in Keys, Cancel(k) PROVE Effect
  <2>1. \A q \in Keys : /\ runs'[q].facts = runs[q].facts
                        /\ \/ runs'[q].status = runs[q].status
                           \/ runs[q].status \in {"queued", "partial"} /\ runs'[q].status = "cancelled"
    BY <1>1, <1>3 DEF Cancel, Run
  <2>2. \A q \in Keys : jobs'[q].status # "none" => jobs[q].status # "none"
    BY <1>1, <1>3 DEF Cancel, Job
  <2>3. UNCHANGED <<reports, wk>>
    BY <1>3 DEF Cancel
  <2>4. Kept
    BY <2>1, <2>3 DEF Kept
  <2>5. Based
    BY <2>2, <2>3 DEF Based
  <2>6. Settles /\ Stays
    BY <2>1 DEF Settles, Stays, Settled
  <2> QED BY <1>1, <2>3, <2>4, <2>5, <2>6 DEF Effect, OneReport
<1>4. ASSUME NEW k \in Keys, Reconcile(k) PROVE Effect
  BY <1>4, FailedEffect DEF Reconcile
<1> QED BY <1>2, <1>3, <1>4

-----------------------------------------------------------------------------
(* The invariant and the theorems *)

LEMMA InvInit == Init => Inv
<1> SUFFICES ASSUME Init PROVE Inv
  OBVIOUS
<1>1. Typed /\ KeysKnown
  BY TypeInit
<1>2. /\ \A k \in Keys : jobs[k].status = "none" /\ runs[k].status = "none"
      /\ \A w \in Workers : wk[w].pc = "idle"
      /\ reports = {}
  BY DEF Init, NoRun, IdleWorker
<1> QED BY <1>1, <1>2 DEF Inv, JobHasRun, BusyHasRun, FoundIsThere, RunsAgreeWithReport, Settled

LEMMA StepEffect ==
  ASSUME Inv, Next
  PROVE  Typed' /\ KeysKnown' /\ Effect
<1>1. Typed /\ KeysKnown /\ FoundIsThere
  BY DEF Inv
<1>2. ASSUME NEW c \in Clients, Request(c) PROVE Typed' /\ KeysKnown' /\ Effect
  BY <1>1, <1>2, ClientTypes, ClientEffect
<1>3. ASSUME NEW w \in Workers, Work(w) PROVE Typed' /\ KeysKnown' /\ Effect
  BY <1>1, <1>3, WorkerTypes, WorkerEffect
<1>4. CASE Mutate \/ Board \/ \E k \in Keys : Cancel(k) \/ Reconcile(k)
  BY <1>1, <1>4, OtherTypes, OtherEffect
<1> QED BY <1>2, <1>3, <1>4 DEF Next

LEMMA InvStep == Inv /\ [Next]_vars => Inv'
<1> SUFFICES ASSUME Inv, [Next]_vars PROVE Inv'
  OBVIOUS
<1>1. CASE UNCHANGED vars
  BY <1>1 DEF vars, Inv, Typed, KeysKnown, JobHasRun, BusyHasRun, FoundIsThere, ReportsOf,
              RunsAgreeWithReport
<1>2. CASE Next
  <2>1. Typed' /\ KeysKnown' /\ Kept /\ Based /\ Settles /\ OneReport'
    BY <1>2, StepEffect DEF Effect
  <2>2. JobHasRun'
    BY <2>1 DEF Inv, JobHasRun, Kept, Based
  <2>3. BusyHasRun'
    <3> SUFFICES ASSUME NEW w \in Workers, wk'[w].pc # "idle"
                 PROVE  runs'[wk'[w].key].status # "none"
      BY DEF BusyHasRun
    <3>1. wk'[w].key \in Keys
      BY <2>1 DEF KeysKnown
    <3>2. runs[wk'[w].key].status # "none"
      BY <2>1 DEF Inv, BusyHasRun, Based
    <3> QED BY <2>1, <3>1, <3>2 DEF Kept
  <2>4. FoundIsThere'
    <3> SUFFICES ASSUME NEW w \in Workers, wk'[w].pc = "persist", wk'[w].found
                 PROVE  ReportsOf(runs[wk[w].key].facts)' # {}
      BY DEF FoundIsThere
    <3>1. wk[w].pc # "idle" /\ wk'[w].key = wk[w].key /\ ReportsOf(runs[wk[w].key].facts) # {}
      BY <2>1 DEF Inv, FoundIsThere, Based
    <3>2. wk[w].key \in Keys /\ runs[wk[w].key].status # "none"
      BY <3>1 DEF Inv, KeysKnown, BusyHasRun
    <3>3. runs'[wk[w].key].facts = runs[wk[w].key].facts /\ reports \subseteq reports'
      BY <2>1, <3>2 DEF Kept
    <3> QED BY <3>1, <3>3 DEF ReportsOf
  <2>5. RunsAgreeWithReport'
    <3>1. ASSUME NEW k \in Keys, runs'[k].status \in Settled
          PROVE  [facts |-> runs'[k].facts, status |-> runs'[k].status] \in reports'
      <4>1. CASE runs[k].status = runs'[k].status
        <5>1. [facts |-> runs[k].facts, status |-> runs[k].status] \in reports
          BY <3>1, <4>1 DEF Inv, RunsAgreeWithReport
        <5>2. runs'[k].facts = runs[k].facts /\ reports \subseteq reports'
          BY <2>1, <3>1, <4>1 DEF Kept, Settled
        <5> QED BY <4>1, <5>1, <5>2
      <4>2. CASE [facts |-> runs'[k].facts, status |-> runs'[k].status] \in reports'
        BY <4>2
      <4> QED BY <2>1, <3>1, <4>1, <4>2 DEF Settles
    <3> QED BY <2>1, <3>1 DEF RunsAgreeWithReport, OneReport
  <2> QED BY <2>1, <2>2, <2>3, <2>4, <2>5 DEF Inv
<1> QED BY <1>1, <1>2

\* Every variable keeps its type.
THEOREM TypeCorrect == Spec => []TypeOK
<1>1. Inv => TypeOK
  BY Types DEF Inv
<1> QED BY InvInit, InvStep, <1>1, PTL DEF Spec

\* There is one report of equal facts, and every settled run says of it what it is,
\* however many deliveries of however many runs overlap in ReportingWorkflow.
THEOREM OneReportHolds == Spec => []RunsAgreeWithReport
<1>1. Inv => RunsAgreeWithReport
  BY DEF Inv
<1> QED BY InvInit, InvStep, <1>1, PTL DEF Spec

\* No delivery takes a settled run back; RunService.cancel may withdraw a partial one.
THEOREM SettledStays == Spec => SettledRunStays
<1>1. Inv /\ [Next]_vars => [Stays]_vars
  BY StepEffect DEF Effect
<1>2. [Stays]_vars => [\A k \in Keys : runs[k].status \in Settled =>
         runs'[k].status = runs[k].status \/ (runs[k].status = "partial"
                                              /\ runs'[k].status = "cancelled")]_vars
  BY DEF Stays
<1> QED BY InvInit, InvStep, <1>1, <1>2, PTL DEF Spec, SettledRunStays
-----------------------------------------------------------------------------
(* Sums over the runs *)

\* A set with 0 and the successor of each of its numbers has every number.
LEMMA EveryNumber ==
  ASSUME NEW A, 0 \in A, \A n \in Nat : n \in A => n + 1 \in A
  PROVE  Nat \subseteq A
<1> DEFINE R == OpToRel(<, Nat)
<1> DEFINE T == {n \in Nat : n \notin A}
<1>1. SUFFICES ASSUME T # {} PROVE FALSE
  OBVIOUS
<1>2. IsWellFoundedOn(R, Nat)
  BY NatLessThanWellFounded
<1>3. PICK n \in T : \A m \in T : ~ (<<m, n>> \in R)
  <2>1. T \subseteq Nat
    OBVIOUS
  <2> HIDE DEF R, T
  <2> QED BY <1>1, <1>2, <2>1, WFMin
<1>4. n - 1 \in Nat /\ (n - 1) + 1 = n /\ <<n - 1, n>> \in R
  BY <1>3 DEF OpToRel
<1> QED BY <1>3, <1>4

Pick(s) == CHOOSE x \in s : TRUE

\* What the empty set has, and a set as soon as it has one element less, every
\* set of runs has.
LEMMA Shrinking ==
  ASSUME NEW A, {} \in A,
         \A s \in SUBSET Keys : s # {} /\ s \ {Pick(s)} \in A => s \in A
  PROVE  \A s \in SUBSET Keys : s \in A
<1> DEFINE R == StrictSubsetOrdering(Keys)
<1> DEFINE T == {s \in SUBSET Keys : s \notin A}
<1>1. IsWellFoundedOn(R, SUBSET Keys)
  BY KeysAssumption, FS_StrictSubsetOrderingWellFounded, FS_FiniteSubsetsOfFinite
<1>2. SUFFICES ASSUME T # {} PROVE FALSE
  OBVIOUS
<1>3. PICK s \in T : \A y \in T : ~ (<<y, s>> \in R)
  <2>1. T \subseteq SUBSET Keys
    OBVIOUS
  <2> HIDE DEF R, T
  <2> QED BY <1>1, <1>2, <2>1, WFMin
<1> DEFINE x == Pick(s)
<1>4. s # {} /\ x \in s
  <2>1. s # {}
    BY <1>3
  <2> QED BY <2>1 DEF Pick
<1>5. s \ {x} \in SUBSET Keys /\ <<s \ {x}, s>> \in R
  BY <1>3, <1>4 DEF StrictSubsetOrdering
<1>6. s \ {x} \in A
  BY <1>3, <1>5
<1> QED BY <1>3, <1>4, <1>6

\* F[s] is the sum of f over s
Sums(F, f) ==
  F = [s \in SUBSET Keys |-> IF s = {} THEN 0 ELSE f[Pick(s)] + F[s \ {Pick(s)}]]

\* There is a sum of every function.
LEMMA SumExists ==
  ASSUME NEW f \in [Keys -> Nat]
  PROVE  \E F : Sums(F, f)
<1> DEFINE Upto(n) == {s \in SUBSET Keys : Cardinality(s) <= n}
<1> DEFINE Part(F, n) ==
      F = [s \in Upto(n) |-> IF s = {} THEN 0 ELSE f[Pick(s)] + F[s \ {Pick(s)}]]
<1>1. \A s \in SUBSET Keys : Cardinality(s) \in Nat /\ (s # {} => Pick(s) \in s)
  BY KeysAssumption, FS_Subset, FS_CardinalityType DEF Pick
<1>2. \A s \in SUBSET Keys : s # {} =>
        s \ {Pick(s)} \in SUBSET Keys /\ Cardinality(s \ {Pick(s)}) = Cardinality(s) - 1
  BY <1>1, KeysAssumption, FS_Subset, FS_RemoveElement
<1>3. \E F : Part(F, 0)
  <2> DEFINE F == [s \in Upto(0) |-> 0]
  <2>1. \A s \in Upto(0) : s = {}
    BY KeysAssumption, FS_Subset, FS_EmptySet, <1>1
  <2>2. Part(F, 0)
    BY <2>1
  <2> QED BY <2>2
<1>4. ASSUME NEW n \in Nat, \E F : Part(F, n) PROVE \E F : Part(F, n + 1)
  <2>1. PICK F : Part(F, n)
    BY <1>4
  <2> DEFINE G == [s \in Upto(n + 1) |->
                     IF s = {} THEN 0 ELSE f[Pick(s)] + F[s \ {Pick(s)}]]
  <2>2. \A s \in Upto(n) : G[s] = F[s]
    <3>1. \A s \in Upto(n) : s \in Upto(n + 1)
      BY <1>1
    <3>2. \A s \in Upto(n) : F[s] = IF s = {} THEN 0 ELSE f[Pick(s)] + F[s \ {Pick(s)}]
      <4> HIDE DEF Upto
      <4> QED BY <2>1
    <3> HIDE DEF Upto
    <3> QED BY <3>1, <3>2
  <2>3. \A s \in Upto(n + 1) : s # {} => s \ {Pick(s)} \in Upto(n)
    BY <1>1, <1>2
  <2>4. \A s \in Upto(n + 1) :
          G[s] = IF s = {} THEN 0 ELSE f[Pick(s)] + G[s \ {Pick(s)}]
    BY <2>2, <2>3
  <2>5. DOMAIN G = Upto(n + 1) /\ G = [s \in Upto(n + 1) |-> G[s]]
    OBVIOUS
  <2> HIDE DEF G, Upto
  <2>6. Part(G, n + 1)
    BY <2>4, <2>5
  <2> QED BY <2>6
<1> DEFINE N == {n \in Nat : \E F : Part(F, n)}
<1>5. 0 \in N /\ \A n \in N : n + 1 \in N
  <2> HIDE DEF Part
  <2> QED BY <1>3, <1>4
<1>6. Cardinality(Keys) \in N
  <2> HIDE DEF N
  <2>1. Nat \subseteq N
    BY <1>5, EveryNumber
  <2> QED BY <2>1, KeysAssumption, FS_CardinalityType
<1>7. Upto(Cardinality(Keys)) = SUBSET Keys
  BY KeysAssumption, FS_Subset
<1> QED BY <1>6, <1>7 DEF Sums

\* A sum is a number.
LEMMA SumType ==
  ASSUME NEW f \in [Keys -> Nat], NEW F, Sums(F, f)
  PROVE  \A s \in SUBSET Keys : F[s] \in Nat
<1> DEFINE A == {s \in SUBSET Keys : F[s] \in Nat}
<1>1. \A s \in SUBSET Keys : F[s] = IF s = {} THEN 0 ELSE f[Pick(s)] + F[s \ {Pick(s)}]
  BY DEF Sums
<1>2. {} \in A
  BY <1>1
<1>3. ASSUME NEW s \in SUBSET Keys, s # {}, s \ {Pick(s)} \in A PROVE s \in A
  <2>1. Pick(s) \in Keys
    BY <1>3 DEF Pick
  <2>2. f[Pick(s)] \in Nat /\ F[s \ {Pick(s)}] \in Nat
    BY <1>3, <2>1
  <2>3. F[s] = f[Pick(s)] + F[s \ {Pick(s)}]
    BY <1>1, <1>3
  <2>4. F[s] \in Nat
    BY <2>2, <2>3
  <2> QED BY <2>4
<1> HIDE DEF A
<1>4. \A s \in SUBSET Keys : s \in A
  BY <1>2, <1>3, Shrinking
<1> QED BY <1>4 DEF A

\* A sum exceeds another by no more than b, if each term of the one exceeds the
\* term of the other by no more than what it adds to b.
LEMMA SumBound ==
  ASSUME NEW f \in [Keys -> Nat], NEW g \in [Keys -> Nat], NEW F, NEW G,
         Sums(F, f), Sums(G, g), NEW b \in [SUBSET Keys -> Nat],
         \A s \in SUBSET Keys, x \in Keys : x \in s => f[x] + b[s \ {x}] <= g[x] + b[s]
  PROVE  F[Keys] <= G[Keys] + b[Keys]
<1> DEFINE A == {s \in SUBSET Keys : F[s] <= G[s] + b[s]}
<1>1. /\ \A s \in SUBSET Keys : F[s] = IF s = {} THEN 0 ELSE f[Pick(s)] + F[s \ {Pick(s)}]
      /\ \A s \in SUBSET Keys : G[s] = IF s = {} THEN 0 ELSE g[Pick(s)] + G[s \ {Pick(s)}]
  BY DEF Sums
<1>2. {} \in A
  <2>1. F[{}] = 0 /\ G[{}] = 0 /\ b[{}] \in Nat
    BY <1>1
  <2> QED BY <2>1
<1>3. ASSUME NEW s \in SUBSET Keys, s # {}, s \ {Pick(s)} \in A PROVE s \in A
  <2> DEFINE x == Pick(s)
  <2> DEFINE r == s \ {x}
  <2>1. x \in s /\ x \in Keys /\ r \in SUBSET Keys
    BY <1>3 DEF Pick
  <2>2. F[s] = f[x] + F[r] /\ G[s] = g[x] + G[r]
    BY <1>1, <1>3
  <2>3. F[r] <= G[r] + b[r]
    BY <1>3
  <2>4. f[x] + b[r] <= g[x] + b[s]
    BY <2>1
  <2>5. F[r] \in Nat /\ G[r] \in Nat
    BY <2>1, SumType
  <2>6. b[r] \in Nat /\ b[s] \in Nat /\ f[x] \in Nat /\ g[x] \in Nat
    BY <2>1
  <2> HIDE DEF x, r
  <2>7. F[s] <= G[s] + b[s]
    BY <2>2, <2>3, <2>4, <2>5, <2>6
  <2> QED BY <2>7
<1> HIDE DEF A
<1>4. Keys \in A
  BY <1>2, <1>3, Shrinking
<1> QED BY <1>4 DEF A


SumOf(f) == (CHOOSE F : Sums(F, f))[Keys]

\* The same for the sums of all runs.
LEMMA SumOfBound ==
  ASSUME NEW f \in [Keys -> Nat], NEW g \in [Keys -> Nat], NEW b \in [SUBSET Keys -> Nat],
         \A s \in SUBSET Keys, x \in Keys : x \in s => f[x] + b[s \ {x}] <= g[x] + b[s]
  PROVE  SumOf(f) \in Nat /\ SumOf(g) \in Nat /\ SumOf(f) <= SumOf(g) + b[Keys]
<1>1. PICK F : F = (CHOOSE H : Sums(H, f))
  OBVIOUS
<1>2. PICK G : G = (CHOOSE H : Sums(H, g))
  OBVIOUS
<1>3. Sums(F, f) /\ Sums(G, g)
  BY <1>1, <1>2, SumExists
<1>4. F[Keys] \in Nat /\ G[Keys] \in Nat
  BY <1>3, SumType
<1>5. F[Keys] <= G[Keys] + b[Keys]
  BY <1>3, SumBound
<1> QED BY <1>1, <1>2, <1>4, <1>5 DEF SumOf

\* A sum with no greater terms is no greater.
LEMMA SumMonotone ==
  ASSUME NEW f \in [Keys -> Nat], NEW g \in [Keys -> Nat], \A x \in Keys : f[x] <= g[x]
  PROVE  SumOf(f) \in Nat /\ SumOf(g) \in Nat /\ SumOf(f) <= SumOf(g)
<1> DEFINE b == [s \in SUBSET Keys |-> 0]
<1>1. b \in [SUBSET Keys -> Nat] /\ b[Keys] = 0
  OBVIOUS
<1>2. \A s \in SUBSET Keys, x \in Keys : x \in s => f[x] + b[s \ {x}] <= g[x] + b[s]
  OBVIOUS
<1> HIDE DEF b
<1>3. SumOf(f) \in Nat /\ SumOf(g) \in Nat /\ SumOf(f) <= SumOf(g) + b[Keys]
  BY <1>1, <1>2, SumOfBound
<1> QED BY <1>1, <1>3

\* .. and one with a single greater term exceeds it by no more than that.
LEMMA SumOneMore ==
  ASSUME NEW f \in [Keys -> Nat], NEW g \in [Keys -> Nat], NEW k \in Keys, NEW d \in Nat,
         f[k] <= g[k] + d, \A x \in Keys : x # k => f[x] <= g[x]
  PROVE  SumOf(f) \in Nat /\ SumOf(g) \in Nat /\ SumOf(f) <= SumOf(g) + d
<1> DEFINE b == [s \in SUBSET Keys |-> IF k \in s THEN d ELSE 0]
<1>1. b \in [SUBSET Keys -> Nat] /\ b[Keys] = d
  OBVIOUS
<1>2. ASSUME NEW s \in SUBSET Keys, NEW x \in Keys, x \in s
      PROVE  f[x] + b[s \ {x}] <= g[x] + b[s]
  <2>1. s \ {x} \in SUBSET Keys
    OBVIOUS
  <2>2. CASE x = k
    <3>1. b[s \ {x}] = 0 /\ b[s] = d
      BY <1>2, <2>1, <2>2
    <3> QED BY <2>2, <3>1
  <2>3. CASE x # k
    <3>1. b[s \ {x}] = b[s] /\ b[s] \in Nat
      BY <2>1, <2>3
    <3>2. f[x] <= g[x]
      BY <2>3
    <3> HIDE DEF b
    <3> QED BY <3>1, <3>2
  <2> QED BY <2>2, <2>3
<1> HIDE DEF b
<1>3. SumOf(f) \in Nat /\ SumOf(g) \in Nat /\ SumOf(f) <= SumOf(g) + b[Keys]
  BY <1>1, <1>2, SumOfBound
<1> QED BY <1>1, <1>3

-----------------------------------------------------------------------------
(* The quota *)

\* What each run counts, and what a run counts that went in under the lock
CountedBy == [k \in Keys |-> Counted(k)]
AloneCount == [k \in Keys |-> IF runs[k].alone THEN Counted(k) ELSE 0]

\* No run counts more than it reserves.
LEMMA CountType ==
  ASSUME runs \in [Keys -> Run]
  PROVE  /\ CountedBy \in [Keys -> Nat] /\ AloneCount \in [Keys -> Nat]
         /\ \A k \in Keys : CountedBy[k] <= Reserve
<1>1. \A k \in Keys : Counted(k) \in Nat /\ Counted(k) <= Reserve
  BY BoundsAssumption, UsedAssumption DEF Counted, Run
<1> QED BY <1>1 DEF CountedBy, AloneCount

\* What budgets.py adds up is a sum of what the runs count.
LEMMA QuotaIsSum ==
  ASSUME runs \in [Keys -> Run]
  PROVE  \E F : Sums(F, CountedBy) /\ ReservedOrUsed = F[Keys]
<1>1. CountedBy \in [Keys -> Nat]
  BY CountType
<1> DEFINE P(F) == F = [s \in SUBSET Keys |-> IF s = {} THEN 0
                          ELSE Counted(CHOOSE x \in s : TRUE) + F[s \ {CHOOSE x \in s : TRUE}]]
<1>2. PICK G : Sums(G, CountedBy)
  BY <1>1, SumExists
<1>3. ASSUME NEW F PROVE Sums(F, CountedBy) <=> P(F)
  <2>1. \A s \in SUBSET Keys : s # {} => CountedBy[Pick(s)] = Counted(CHOOSE x \in s : TRUE)
    BY DEF CountedBy, Pick
  <2> HIDE DEF CountedBy
  <2>2. [s \in SUBSET Keys |-> IF s = {} THEN 0 ELSE CountedBy[Pick(s)] + F[s \ {Pick(s)}]]
        = [s \in SUBSET Keys |-> IF s = {} THEN 0
                          ELSE Counted(CHOOSE x \in s : TRUE) + F[s \ {CHOOSE x \in s : TRUE}]]
    BY <2>1 DEF Pick
  <2> QED BY <2>2 DEF Sums
<1> DEFINE H == CHOOSE F : P(F)
<1>4. P(H)
  <2> HIDE DEF P
  <2> QED BY <1>2, <1>3
<1>5. ReservedOrUsed = H[Keys]
  BY DEF ReservedOrUsed, MapThenSumSet, MapThenFoldSet
<1> HIDE DEF P, H
<1> QED BY <1>3, <1>4, <1>5


\* The lock has one holder, and what the runs count that went in under it leaves
\* room for one more while it is held
QuotaInv ==
  /\ \A c, d \in lock : c = d
  /\ SumOf(AloneCount) <= Budget
  /\ lock # {} => SumOf(AloneCount) + Reserve <= Budget

\* What a step does to the quota: nothing is added, or the lock is taken while there
\* is room, or its holder adds a run and gives it up
Lowers == lock' \subseteq lock /\ \A k \in Keys : AloneCount'[k] <= AloneCount[k]
Takes ==
  /\ lock = {} /\ UNCHANGED runs /\ \E c \in Clients : lock' = {c}
  /\ ReservedOrUsed + Reserve <= Budget
Adds ==
  /\ \E c \in lock : lock' = lock \ {c}
  /\ \E k \in Keys : /\ AloneCount'[k] <= AloneCount[k] + Reserve
                     /\ \A q \in Keys : q # k => AloneCount'[q] <= AloneCount[q]
QuotaEffect == Lowers \/ Takes \/ Adds

\* A run that is not written counts what it did.
LEMMA SameCount ==
  ASSUME NEW k \in Keys, runs'[k] = runs[k]
  PROVE  AloneCount'[k] = AloneCount[k]
BY DEF AloneCount, Counted

\* A write that keeps a run what it was, or settles it, adds nothing to the quota.
LEMMA WriteLowers ==
  ASSUME runs \in [Keys -> Run], runs' \in [Keys -> Run], NEW k \in Keys,
         \A q \in Keys : q # k => runs'[q] = runs[q],
         runs'[k].alone => runs[k].alone,
         runs'[k].alone => \/ runs[k].status \in Active
                           \/ /\ runs'[k].status \notin Active
                              /\ runs'[k].tokens = runs[k].tokens,
         lock' \subseteq lock
  PROVE  Lowers
<1>1. Reserve \in Nat /\ Used \in Nat /\ Used <= Reserve
  BY BoundsAssumption, UsedAssumption
<1>2. /\ AloneCount[k] = IF runs[k].alone THEN Counted(k) ELSE 0
      /\ AloneCount'[k] = IF runs'[k].alone THEN Counted(k)' ELSE 0
  BY DEF AloneCount
<1>3. /\ runs[k].tokens \in {0, Used} /\ runs'[k].tokens \in {0, Used}
      /\ runs[k].alone \in BOOLEAN /\ runs'[k].alone \in BOOLEAN
  BY DEF Run
<1>4. AloneCount[k] \in Nat /\ AloneCount[k] <= Reserve
  BY <1>1, <1>2, <1>3 DEF Counted
<1>5. AloneCount'[k] <= AloneCount[k]
  <2>1. CASE ~ runs'[k].alone
    BY <1>2, <1>4, <2>1
  <2>2. CASE runs'[k].alone /\ runs[k].status \in Active
    <3>1. AloneCount[k] = Reserve
      BY <1>2, <2>2 DEF Counted
    <3>2. AloneCount'[k] \in {Reserve, 0, Used}
      BY <1>2, <1>3, <2>2 DEF Counted
    <3> QED BY <1>1, <3>1, <3>2
  <2>3. CASE runs'[k].alone /\ runs[k].status \notin Active
    <3>1. AloneCount'[k] = AloneCount[k]
      BY <1>2, <2>3 DEF Counted
    <3> QED BY <1>4, <3>1
  <2> QED BY <1>3, <2>1, <2>2, <2>3
<1>6. \A q \in Keys : q # k => AloneCount'[q] = AloneCount[q] /\ AloneCount[q] \in Nat
  BY SameCount, CountType
<1> QED BY <1>5, <1>6 DEF Lowers

\* A step that writes no run and takes no lock adds nothing.
LEMMA IdleLowers ==
  ASSUME runs \in [Keys -> Run], UNCHANGED runs, lock' \subseteq lock
  PROVE  QuotaEffect
<1>1. \A k \in Keys : AloneCount'[k] = AloneCount[k] /\ AloneCount[k] \in Nat
  BY SameCount, CountType
<1> QED BY <1>1 DEF QuotaEffect, Lowers

\* A job that fails takes its run out of the active ones.
LEMMA FailedLowers ==
  ASSUME runs \in [Keys -> Run], runs' \in [Keys -> Run], NEW k \in Keys, FailJob(k),
         UNCHANGED lock
  PROVE  QuotaEffect
<1>1. \A q \in Keys : q # k => runs'[q] = runs[q]
  BY DEF FailJob
<1>2. runs'[k] = [runs[k] EXCEPT !.status = IF @ \in Active THEN "failed" ELSE @]
  BY DEF FailJob
<1>3. /\ runs'[k].alone = runs[k].alone /\ runs'[k].tokens = runs[k].tokens
      /\ runs'[k].status = IF runs[k].status \in Active THEN "failed" ELSE runs[k].status
  BY <1>2 DEF Run
<1> QED BY <1>1, <1>3, WriteLowers DEF QuotaEffect, Active

\* A step of a client.
LEMMA ClientQuota ==
  ASSUME Inv, NEW c \in Clients, Request(c)
  PROVE  QuotaEffect
<1>1. runs \in [Keys -> Run] /\ tx \in [Clients -> Tx]
  BY DEF Inv, Typed
<1>2. ASSUME Leave(c) PROVE QuotaEffect
  BY <1>1, <1>2, IdleLowers DEF Leave
<1>3. ASSUME NEW k \in Keys, Start(c, k) PROVE QuotaEffect
  BY <1>3 DEF Start, LockFree, QuotaEffect, Takes
<1>4. ASSUME Compute(c) PROVE QuotaEffect
  <2>1. CASE Leave(c)
    BY <1>2, <2>1
  <2>2. CASE ~ Leave(c)
    <3>1. UNCHANGED runs /\ lock' \subseteq lock
      BY <1>4, <2>2 DEF Compute
    <3> QED BY <1>1, <3>1, IdleLowers
  <2> QED BY <2>1, <2>2
<1>5. ASSUME Insert(c) PROVE QuotaEffect
  <2> DEFINE k == tx[c].key
  <2>1. CASE runs[k].status # "none"
    BY <1>2, <1>5, <2>1 DEF Insert
  <2>2. CASE runs[k].status = "none"
    <3> DEFINE run == [NoRun EXCEPT !.status = "queued",
                         !.facts = [of |-> tx[c].of, rows |-> state], !.alone = c \in lock]
    <3>1. k \in Keys /\ runs' = [runs EXCEPT ![k] = run] /\ lock' = lock \ {c}
      BY <1>5, <2>2 DEF Insert, Inv, KeysKnown
    <3>2. run.status = "queued" /\ run.alone = (c \in lock)
      BY DEF NoRun
    <3> HIDE DEF run, k
    <3>3. runs'[k] = run /\ \A q \in Keys : q # k => runs'[q] = runs[q]
      BY <1>1, <3>1
    <3>4. AloneCount'[k] = IF c \in lock THEN Reserve ELSE 0
      BY <3>1, <3>2, <3>3 DEF AloneCount, Counted, Active
    <3>5. \A q \in Keys : q # k => AloneCount'[q] = AloneCount[q]
      BY <3>3, SameCount
    <3>6. (\A q \in Keys : AloneCount[q] \in Nat) /\ Reserve \in Nat
      BY <1>1, CountType, BoundsAssumption
    <3>7. \A q \in Keys : q # k => AloneCount'[q] <= AloneCount[q]
      BY <3>5, <3>6
    <3>8. CASE c \in lock
      <4>1. AloneCount'[k] <= AloneCount[k] + Reserve
        BY <3>1, <3>4, <3>6, <3>8
      <4> QED BY <3>1, <3>7, <3>8, <4>1 DEF QuotaEffect, Adds
    <3>9. CASE c \notin lock
      <4>1. AloneCount'[k] <= AloneCount[k]
        BY <3>1, <3>4, <3>6, <3>9
      <4> QED BY <3>1, <3>7, <4>1 DEF QuotaEffect, Lowers
    <3> QED BY <3>8, <3>9
  <2> QED BY <2>1, <2>2
<1> QED BY <1>3, <1>4, <1>5 DEF Request

\* A step of a worker: a run it takes out of failed or cancelled is no longer alone.
LEMMA WorkerQuota ==
  ASSUME Inv, NEW w \in Workers, Work(w)
  PROVE  QuotaEffect
<1> DEFINE k == wk[w].key
<1>1. /\ runs \in [Keys -> Run] /\ runs' \in [Keys -> Run]
      /\ wk[w].pc # "idle" => k \in Keys /\ runs[k].status # "none"
  BY WorkerTypes DEF Inv, Typed, KeysKnown, BusyHasRun
<1>2. UNCHANGED lock
  BY DEF Work, Deliver, Begin, Narrate, Persist, Settle, Fail, Crash
<1>3. ASSUME UNCHANGED runs PROVE QuotaEffect
  BY <1>1, <1>2, <1>3, IdleLowers
<1>4. ASSUME NEW q \in Keys, Deliver(w, q) PROVE QuotaEffect
  BY <1>3, <1>4 DEF Deliver
<1>5. ASSUME Begin(w) PROVE QuotaEffect
  <2>1. CASE ~ Reopens(k)
    BY <1>3, <1>5, <2>1 DEF Begin, Key
  <2>2. CASE Reopens(k)
    <3>1. k \in Keys /\ runs[k].status # "none"
      BY <1>1, <1>5 DEF Begin, At
    <3> DEFINE run == [runs[k] EXCEPT !.status = "running", !.alone = @ /\ ~ Revives(k)]
    <3>2. runs' = [runs EXCEPT ![k] = run]
      BY <1>1, <1>5, <2>2, <3>1 DEF Begin, Key
    <3>3. run.alone = (runs[k].alone /\ ~ Revives(k))
      BY <1>1, <3>1 DEF Run
    <3> HIDE DEF run, k
    <3>4. runs'[k] = run /\ \A q \in Keys : q # k => runs'[q] = runs[q]
      BY <1>1, <3>1, <3>2
    <3>5. runs'[k].alone => runs[k].alone /\ runs[k].status \in Active
      BY <3>1, <3>3, <3>4 DEF Revives
    <3> QED BY <1>1, <1>2, <3>1, <3>4, <3>5, WriteLowers DEF QuotaEffect
  <2> QED BY <2>1, <2>2
<1>6. ASSUME Narrate(w) PROVE QuotaEffect
  BY <1>3, <1>6 DEF Narrate
<1>7. ASSUME Persist(w) PROVE QuotaEffect
  <2>1. k \in Keys /\ runs[k].status # "none"
    BY <1>1, <1>7 DEF Persist, At
  <2>2. PICK s, n : runs' = [runs EXCEPT ![k].status = s, ![k].tokens = n,
                                         ![k].alone = @ /\ ~ Revives(k)]
    BY <1>7 DEF Persist, Key
  <2> DEFINE run == [runs[k] EXCEPT !.status = s, !.tokens = n, !.alone = @ /\ ~ Revives(k)]
  <2>3. runs' = [runs EXCEPT ![k] = run]
    BY <1>1, <2>1, <2>2
  <2>4. run.alone = (runs[k].alone /\ ~ Revives(k))
    BY <1>1, <2>1 DEF Run
  <2> HIDE DEF run, k
  <2>5. runs'[k] = run /\ \A q \in Keys : q # k => runs'[q] = runs[q]
    BY <1>1, <2>1, <2>3
  <2>6. runs'[k].alone => runs[k].alone /\ runs[k].status \in Active
    BY <2>1, <2>4, <2>5 DEF Revives
  <2> QED BY <1>1, <1>2, <2>1, <2>5, <2>6, WriteLowers DEF QuotaEffect
<1>8. ASSUME Settle(w) PROVE QuotaEffect
  BY <1>3, <1>8 DEF Settle
<1>9. ASSUME Fail(w) PROVE QuotaEffect
  <2>1. k \in Keys
    BY <1>1, <1>9 DEF Fail
  <2>2. CASE FailJob(k)
    BY <1>1, <1>2, <2>1, <2>2, FailedLowers
  <2>3. CASE ~ FailJob(k)
    BY <1>3, <1>9, <2>3 DEF Fail, Key
  <2> QED BY <2>2, <2>3
<1>10. ASSUME Crash(w) PROVE QuotaEffect
  BY <1>3, <1>10 DEF Crash
<1> QED BY <1>4, <1>5, <1>6, <1>7, <1>8, <1>9, <1>10 DEF Work

\* The plan, the owner's cancel and the reconciliation of a job.
LEMMA OtherQuota ==
  ASSUME Inv, Mutate \/ Board \/ \E k \in Keys : Cancel(k) \/ Reconcile(k)
  PROVE  QuotaEffect
<1>1. runs \in [Keys -> Run] /\ runs' \in [Keys -> Run]
  BY OtherTypes DEF Inv, Typed
<1>2. CASE Mutate \/ Board
  BY <1>1, <1>2, IdleLowers DEF Mutate, Board
<1>3. ASSUME NEW k \in Keys, Cancel(k) PROVE QuotaEffect
  <2>1. UNCHANGED lock /\ runs' = [runs EXCEPT ![k].status = "cancelled"]
    BY <1>3 DEF Cancel
  <2>2. \A q \in Keys : q # k => runs'[q] = runs[q]
    BY <1>1, <2>1
  <2>3. /\ runs'[k].status = "cancelled" /\ runs'[k].tokens = runs[k].tokens
        /\ runs'[k].alone = runs[k].alone
    BY <1>1, <2>1 DEF Run
  <2> QED BY <1>1, <2>1, <2>2, <2>3, WriteLowers DEF QuotaEffect, Active
<1>4. ASSUME NEW k \in Keys, Reconcile(k) PROVE QuotaEffect
  BY <1>1, <1>4, FailedLowers DEF Reconcile
<1> QED BY <1>2, <1>3, <1>4

\* Nothing is counted at the start.
LEMMA QuotaInit == Init => QuotaInv
<1> SUFFICES ASSUME Init PROVE QuotaInv
  OBVIOUS
<1>1. lock = {} /\ runs \in [Keys -> Run] /\ Budget \in Nat
  BY TypeInit, BoundsAssumption DEF Init, Typed
<1> DEFINE zero == [k \in Keys |-> 0]
<1>2. AloneCount = zero
  BY DEF Init, AloneCount, Counted, NoRun, Active
<1>3. SumOf(zero) = 0
  <2>1. zero \in [Keys -> Nat]
    OBVIOUS
  <2>2. Sums([s \in SUBSET Keys |-> 0], zero)
    BY DEF Sums, Pick
  <2>3. PICK F : Sums(F, zero) /\ SumOf(zero) = F[Keys]
    BY <2>2 DEF SumOf
  <2> DEFINE A == {s \in SUBSET Keys : F[s] = 0}
  <2>4. \A s \in SUBSET Keys : F[s] = IF s = {} THEN 0 ELSE zero[Pick(s)] + F[s \ {Pick(s)}]
    BY <2>3 DEF Sums
  <2>5. {} \in A
    BY <2>4
  <2>6. ASSUME NEW s \in SUBSET Keys, s # {}, s \ {Pick(s)} \in A PROVE s \in A
    <3>1. Pick(s) \in Keys
      BY <2>6 DEF Pick
    <3>2. F[s] = zero[Pick(s)] + F[s \ {Pick(s)}]
      BY <2>4, <2>6
    <3> QED BY <2>6, <3>1, <3>2
  <2> HIDE DEF A
  <2>7. Keys \in A
    BY <2>5, <2>6, Shrinking
  <2> QED BY <2>3, <2>7 DEF A
<1> HIDE DEF zero
<1> QED BY <1>1, <1>2, <1>3 DEF QuotaInv

\* The quota of the runs that went in under the lock is kept by every step.
LEMMA QuotaStep == Inv /\ QuotaInv /\ [Next]_vars => QuotaInv'
<1> SUFFICES ASSUME Inv, QuotaInv, [Next]_vars PROVE QuotaInv'
  OBVIOUS
<1>1. /\ runs \in [Keys -> Run] /\ runs' \in [Keys -> Run]
      /\ Budget \in Nat /\ Reserve \in Nat
  BY InvStep, BoundsAssumption DEF Inv, Typed
<1>2. AloneCount \in [Keys -> Nat] /\ AloneCount' \in [Keys -> Nat]
  BY <1>1, CountType, BoundsAssumption, UsedAssumption DEF AloneCount, Counted, Run
<1>3. SumOf(AloneCount) \in Nat
  BY <1>2, SumMonotone
<1>4. QuotaEffect
  <2>1. CASE Next
    <3>1. ASSUME NEW c \in Clients, Request(c) PROVE QuotaEffect
      BY <3>1, ClientQuota
    <3>2. ASSUME NEW w \in Workers, Work(w) PROVE QuotaEffect
      BY <3>2, WorkerQuota
    <3> QED BY <2>1, <3>1, <3>2, OtherQuota DEF Next
  <2>2. CASE UNCHANGED vars
    BY <1>1, <2>2, IdleLowers DEF vars
  <2> QED BY <2>1, <2>2
<1>5. SumOf(AloneCount)' = SumOf(AloneCount')
  BY DEF SumOf, Sums
<1>6. CASE Lowers
  <2>1. SumOf(AloneCount') \in Nat /\ SumOf(AloneCount') <= SumOf(AloneCount)
    BY <1>2, <1>6, SumMonotone DEF Lowers
  <2>2. /\ \A c, d \in lock' : c = d
        /\ lock' # {} => SumOf(AloneCount) + Reserve <= Budget
    BY <1>6 DEF Lowers, QuotaInv
  <2>3. SumOf(AloneCount) <= Budget
    BY DEF QuotaInv
  <2> QED BY <1>1, <1>3, <1>5, <2>1, <2>2, <2>3 DEF QuotaInv
<1>7. CASE Takes
  <2>1. SumOf(AloneCount) + Reserve <= Budget
    <3>1. PICK F : Sums(F, CountedBy) /\ ReservedOrUsed = F[Keys]
      BY <1>1, QuotaIsSum
    <3>2. CountedBy \in [Keys -> Nat] /\ \A k \in Keys : AloneCount[k] <= CountedBy[k]
      BY <1>1, CountType DEF AloneCount, CountedBy
    <3>3. PICK G : Sums(G, AloneCount) /\ SumOf(AloneCount) = G[Keys]
      BY <1>2, SumExists DEF SumOf
    <3> DEFINE b == [s \in SUBSET Keys |-> 0]
    <3>4. b \in [SUBSET Keys -> Nat] /\ b[Keys] = 0
      OBVIOUS
    <3>5. \A s \in SUBSET Keys, x \in Keys :
            x \in s => AloneCount[x] + b[s \ {x}] <= CountedBy[x] + b[s]
      BY <1>2, <3>2
    <3> HIDE DEF b
    <3>6. G[Keys] <= F[Keys] + b[Keys]
      BY <1>2, <3>1, <3>2, <3>3, <3>4, <3>5, SumBound
    <3>7. F[Keys] \in Nat
      BY <3>1, <3>2, SumType
    <3> QED BY <1>1, <1>3, <1>7, <3>1, <3>3, <3>4, <3>6, <3>7 DEF Takes
  <2>2. AloneCount' = AloneCount /\ \A c, d \in lock' : c = d
    BY <1>7 DEF Takes, AloneCount, Counted
  <2> QED BY <1>1, <1>3, <1>5, <2>1, <2>2 DEF QuotaInv
<1>8. CASE Adds
  <2>1. PICK k \in Keys : /\ AloneCount'[k] <= AloneCount[k] + Reserve
                          /\ \A q \in Keys : q # k => AloneCount'[q] <= AloneCount[q]
    BY <1>8 DEF Adds
  <2>2. SumOf(AloneCount') \in Nat /\ SumOf(AloneCount') <= SumOf(AloneCount) + Reserve
    BY <1>1, <1>2, <2>1, SumOneMore
  <2>3. lock # {} /\ lock' = {}
    BY <1>8 DEF Adds, QuotaInv
  <2>4. SumOf(AloneCount) + Reserve <= Budget
    BY <2>3 DEF QuotaInv
  <2> QED BY <1>1, <1>3, <1>5, <2>2, <2>3, <2>4 DEF QuotaInv
<1> QED BY <1>4, <1>6, <1>7, <1>8 DEF QuotaEffect

\* What the runs count exceeds what those alone do by at most a reservation each.
LEMMA QuotaOfAll == Inv /\ QuotaInv => BudgetKept
<1> SUFFICES ASSUME Inv, QuotaInv PROVE BudgetKept
  OBVIOUS
<1> DEFINE Late == {k \in Keys : ~ runs[k].alone}
<1> DEFINE b == [s \in SUBSET Keys |-> Reserve * Cardinality(s \cap Late)]
<1>1. runs \in [Keys -> Run] /\ Budget \in Nat /\ Reserve \in Nat
  BY BoundsAssumption DEF Inv, Typed
<1>2. /\ CountedBy \in [Keys -> Nat] /\ AloneCount \in [Keys -> Nat]
      /\ \A k \in Keys : CountedBy[k] <= Reserve
  BY <1>1, CountType
<1>3. \A s \in SUBSET Keys : IsFiniteSet(s \cap Late) /\ Cardinality(s \cap Late) \in Nat
  <2>1. \A s \in SUBSET Keys : s \cap Late \in SUBSET Keys
    OBVIOUS
  <2> HIDE DEF Late
  <2> QED BY <2>1, KeysAssumption, FS_Subset, FS_CardinalityType
<1>4. \A n \in Nat : Reserve * n \in Nat /\ Reserve * (n + 1) = Reserve * n + Reserve
  BY <1>1
<1>5. b \in [SUBSET Keys -> Nat] /\ b[Keys] = Reserve * Cardinality(Late)
  <2>1. Keys \cap Late = Late
    OBVIOUS
  <2> HIDE DEF Late
  <2> QED BY <1>3, <1>4, <2>1
<1>6. ASSUME NEW s \in SUBSET Keys, NEW x \in Keys, x \in s
      PROVE  CountedBy[x] + b[s \ {x}] <= AloneCount[x] + b[s]
  <2>1. s \ {x} \in SUBSET Keys /\ b[s \ {x}] \in Nat /\ b[s] \in Nat
    BY <1>5
  <2>2. CASE runs[x].alone
    <3>1. (s \ {x}) \cap Late = s \cap Late
      BY <2>2
    <3>2. b[s \ {x}] = b[s]
      BY <2>1, <3>1
    <3>3. CountedBy[x] = AloneCount[x]
      BY <2>2 DEF CountedBy, AloneCount
    <3> HIDE DEF b
    <3> QED BY <1>2, <2>1, <3>2, <3>3
  <2>3. CASE ~ runs[x].alone
    <3>1. (s \ {x}) \cap Late = (s \cap Late) \ {x} /\ x \in s \cap Late
      BY <1>6, <2>3
    <3>2. Cardinality((s \ {x}) \cap Late) + 1 = Cardinality(s \cap Late)
      <4> HIDE DEF Late
      <4>1. Cardinality((s \cap Late) \ {x}) = Cardinality(s \cap Late) - 1
        BY <1>3, <3>1, FS_RemoveElement
      <4>2. Cardinality((s \ {x}) \cap Late) = Cardinality((s \cap Late) \ {x})
        BY <3>1
      <4>3. Cardinality(s \cap Late) \in Nat
        BY <1>3
      <4> QED BY <4>1, <4>2, <4>3
    <3>3. b[s] = b[s \ {x}] + Reserve
      <4>1. /\ b[s] = Reserve * Cardinality(s \cap Late)
            /\ b[s \ {x}] = Reserve * Cardinality((s \ {x}) \cap Late)
        BY <2>1
      <4>2. Cardinality((s \ {x}) \cap Late) \in Nat
        BY <1>3, <2>1
      <4> HIDE DEF b, Late
      <4> QED BY <1>4, <3>2, <4>1, <4>2
    <3>4. CountedBy[x] <= Reserve /\ CountedBy[x] \in Nat /\ AloneCount[x] \in Nat
      BY <1>2
    <3> HIDE DEF b
    <3> QED BY <1>1, <2>1, <3>3, <3>4
  <2> QED BY <2>2, <2>3
<1>7. PICK F : Sums(F, CountedBy) /\ ReservedOrUsed = F[Keys]
  BY <1>1, QuotaIsSum
<1>8. PICK G : Sums(G, AloneCount) /\ SumOf(AloneCount) = G[Keys]
  BY <1>2, SumExists DEF SumOf
<1> HIDE DEF b
<1>9. F[Keys] <= G[Keys] + b[Keys]
  BY <1>2, <1>5, <1>6, <1>7, <1>8, SumBound
<1>10. F[Keys] \in Nat /\ G[Keys] \in Nat /\ b[Keys] \in Nat
  BY <1>2, <1>5, <1>7, <1>8, SumType
<1>11. F[Keys] <= Budget + b[Keys]
  BY <1>1, <1>8, <1>9, <1>10 DEF QuotaInv
<1> QED BY <1>5, <1>7, <1>11 DEF BudgetKept

\* The admission lock of budgets.py makes the quota hold, but for the runs that went in
\* without it or that a worker took out of failed or cancelled.
THEOREM QuotaHolds == Spec => []BudgetKept
<1>1. Init => Inv /\ QuotaInv
  BY InvInit, QuotaInit
<1>2. (Inv /\ QuotaInv) /\ [Next]_vars => (Inv /\ QuotaInv)'
  BY InvStep, QuotaStep
<1>3. Inv /\ QuotaInv => BudgetKept
  BY QuotaOfAll
<1> QED BY <1>1, <1>2, <1>3, PTL DEF Spec
=============================================================================
