--------------------------- MODULE PlanLifecycle ---------------------------
(***************************************************************************)
(* The versions of one project's plan, from the draft the agent writes to  *)
(* the active plan the project executes: PlanService, ApprovalService, and *)
(* the risk and regeneration requests of AdvancedPlanningService.          *)
(*                                                                         *)
(* A reader gets a version with several SELECTs, the plan_versions row     *)
(* first and the rows of its content (milestones, tasks, ..) after it, and *)
(* sends back the row_version, for an approval also the content_hash, that *)
(* it was shown.                                                           *)
(*                                                                         *)
(* Every writer locks the row of the project, most of them joined with the *)
(* version's row, before it reads what it decides on, so a request is one  *)
(* action.  What a request reads before it has the lock is an action of    *)
(* its own: approve_and_activate loads the version, and its second, locked *)
(* SELECT returns the object the session holds, attributes unchanged;      *)
(* propose_regeneration takes no lock; decide_regeneration loads the       *)
(* proposal first.  plan_versions and regeneration_proposals have a        *)
(* version_id_col: UPDATE .. WHERE row_version = <the one loaded>.         *)
(*                                                                         *)
(* The UPDATEs of a row in one transaction count as one.  A transaction    *)
(* that the database aborts (approve locks the project and then the        *)
(* version, every other request the other way round: a deadlock) has no    *)
(* effect: Leave.                                                          *)
(***************************************************************************)
EXTENDS Naturals

CONSTANTS
  Versions,       \* rows of plan_versions
  Proposals,      \* rows of regeneration_proposals
  Sessions,       \* readers, each with one request at a time
  Bodies,         \* what a plan's items may say, their dates apart
  Facts,          \* what the project's intake and calendar may say
  Sound,          \* <<body, facts>> without a must-fix issue
  None,
  MaxRowVersion   \* bound: row_version of a plan

ASSUME SoundAssumption == Sound \subseteq Bodies \X Facts
ASSUME FactsAssumption == "old" \notin Facts
ASSUME NoneAssumption ==
  None \notin Versions \cup Proposals \cup Bodies \cup Facts
ASSUME BoundAssumption == MaxRowVersion \in Nat

VARIABLES
  project,    \* [status, facts]
  plans,      \* version -> its row: [state, quality, hash, rowv]
  content,    \* version -> its items: [body, dates]
  approvals,  \* rows of plan_approvals: [version, decision, hash], and what was shown
  executed,   \* versions with an execution projection of each task
  proposals,  \* proposal -> [status, version, base, hash, body]
  ss          \* session -> what it was shown and what its open request has read

vars == <<project, plans, content, approvals, executed, proposals, ss>>

States == {"absent", "draft", "under_review", "active", "superseded", "archived"}

\* dates: the facts the dates of the items were calculated from, or "old" when
\* an item has changed since
Content == [body : Bodies \cup {None}, dates : Facts \cup {"old"}]

\* A content hash: typed is TRUE when it was taken of values as a request gave
\* them (effort "5"), FALSE of values as the database returns them ("5.00")
Hash == [of : Content, typed : BOOLEAN]

PlanRow == [state : States, quality : {"passed", "failed"}, hash : Hash, rowv : Nat]

NoContent == [body |-> None, dates |-> "old"]
NoPlan == [state |-> "absent", quality |-> "failed", rowv |-> 0,
           hash |-> [of |-> NoContent, typed |-> FALSE]]
NoProposal == [status |-> "absent", version |-> None, base |-> NoContent,
               hash |-> NoPlan.hash, body |-> None]
Closed == [pc |-> "closed", version |-> None, row |-> NoPlan, content |-> NoContent,
           copy |-> NoPlan, proposal |-> None]

Init ==
  /\ project \in [status : {"active"}, facts : Facts]
  /\ plans = [v \in Versions |-> NoPlan]
  /\ content = [v \in Versions |-> NoContent]
  /\ approvals = {}
  /\ executed = {}
  /\ proposals = [p \in Proposals |-> NoProposal]
  /\ ss = [s \in Sessions |-> Closed]

-----------------------------------------------------------------------------
(* Rows and hashes *)

\* persisted_content_hash of rows loaded from the database
Recorded(c) == [of |-> c, typed |-> FALSE]

\* The report of validate_persisted_plan
Passes(c) == <<c.body, project.facts>> \in Sound

\* WHERE row_version = the one loaded
Current(v, row) == plans[v].rowv = row.rowv

\* Bounds the steps that leave a version a draft or make it one again
Bounded(v) == plans[v].rowv < MaxRowVersion

\* An UPDATE of the row with its next row_version
Update(v, new) == plans' = [plans EXCEPT ![v] = [new EXCEPT !.rowv = plans[v].rowv + 1]]

\* _invalidate: new content fails until it is validated again
Invalidated(row, c, typed) ==
  [row EXCEPT !.quality = "failed", !.hash = [of |-> c, typed |-> typed]]

-----------------------------------------------------------------------------
(* The project, and the agent's drafts *)

\* ProjectService: intake, constraints or calendar change
ProjectUpdate ==
  /\ project.status = "active"
  /\ \E f \in Facts : project' = [project EXCEPT !.facts = f]
  /\ UNCHANGED <<plans, content, approvals, executed, proposals, ss>>

ProjectArchive ==
  /\ project.status = "active"
  /\ project' = [project EXCEPT !.status = "archived"]
  /\ UNCHANGED <<plans, content, approvals, executed, proposals, ss>>

\* persist_validated_draft, whatever the status of the project: the candidates
\* passed the gate under the facts the run had read
PersistDraft(v) ==
  /\ plans[v].state = "absent"
  /\ \E b \in Bodies, f \in Facts, typed \in BOOLEAN :
       LET c == [body |-> b, dates |-> f] IN
         /\ <<b, f>> \in Sound
         /\ content' = [content EXCEPT ![v] = c]
         /\ plans' = [plans EXCEPT ![v] = [state |-> "draft", quality |-> "passed", rowv |-> 1,
                                           hash |-> [of |-> c, typed |-> typed]]]
  /\ UNCHANGED <<project, approvals, executed, proposals, ss>>

-----------------------------------------------------------------------------
(* Readers *)

\* graph: the row of the version
OpenRow(s, v) ==
  /\ ss[s].pc = "closed" /\ project.status = "active" /\ plans[v].state # "absent"
  /\ ss' = [ss EXCEPT ![s] = [Closed EXCEPT !.pc = "opening", !.version = v, !.row = plans[v]]]
  /\ UNCHANGED <<project, plans, content, approvals, executed, proposals>>

\* _graph: its content
OpenContent(s) ==
  /\ ss[s].pc = "opening"
  /\ ss' = [ss EXCEPT ![s] = [@ EXCEPT !.pc = "viewing", !.content = content[ss[s].version]]]
  /\ UNCHANGED <<project, plans, content, approvals, executed, proposals>>

\* The reader gives up, or its request is refused or aborted
Leave(s) ==
  /\ ss[s].pc # "closed"
  /\ ss' = [ss EXCEPT ![s] = Closed]
  /\ UNCHANGED <<project, plans, content, approvals, executed, proposals>>

\* Mutant: If-Match is not compared
MutRequireVersion(s) == ss[s].pc = "viewing"

\* require_version: the request quotes the row_version its reader was shown
RequireVersion(s) == ss[s].pc = "viewing" /\ ss[s].row.rowv = plans[ss[s].version].rowv

\* A request of the reader that finds the version in one of these states
Request(s, states) ==
  /\ project.status = "active"
  /\ RequireVersion(s)
  /\ plans[ss[s].version].state \in states
  /\ ss' = [ss EXCEPT ![s] = Closed]

-----------------------------------------------------------------------------
(* Drafts *)

\* Mutant: no require_state
MutMutableDraft(s) == Request(s, States)

MutableDraft(s) == Request(s, {"draft"})

\* Every change of a milestone, task, dependency, risk or of the metadata
Edit(s) ==
  LET v == ss[s].version IN
  /\ MutableDraft(s) /\ Bounded(v)
  /\ \E b \in Bodies, typed \in BOOLEAN :
       LET c == IF b = content[v].body THEN content[v] ELSE [body |-> b, dates |-> "old"] IN
         /\ content' = [content EXCEPT ![v] = c]
         /\ Update(v, Invalidated(plans[v], c, typed))
  /\ UNCHANGED <<project, approvals, executed, proposals>>

\* apply_calculations: priorities and dates of every task
Calculated(c) == [c EXCEPT !.dates = project.facts]

\* Mutant: the hash is taken before the rows are flushed
MutValidated(v, c) ==
  [plans[v] EXCEPT !.quality = IF Passes(c) THEN "passed" ELSE "failed",
                   !.hash = [of |-> c, typed |-> TRUE]]

\* The version's row as validate_persisted_plan leaves it
Validated(v, c) ==
  [plans[v] EXCEPT !.quality = IF Passes(c) THEN "passed" ELSE "failed", !.hash = Recorded(c)]

\* validate: an issue may prevent the calculation.  Of the report only the verdict
\* is kept: a row that looks the same here may still be updated with new warnings.
Validate(s) ==
  LET v == ss[s].version IN
  /\ MutableDraft(s) /\ Bounded(v)
  /\ \E c \in {Calculated(content[v])} \cup
              (IF Passes(content[v]) THEN {} ELSE {content[v]}) :
       /\ content' = [content EXCEPT ![v] = c]
       /\ \/ Update(v, Validated(v, c))
          \/ Validated(v, c) = plans[v] /\ UNCHANGED plans
  /\ UNCHANGED <<project, approvals, executed, proposals>>

\* submit_review: a report that does not pass rolls everything back
SubmitReview(s) ==
  LET v == ss[s].version
      c == Calculated(content[v])
  IN
  /\ MutableDraft(s)
  /\ Passes(c)
  /\ content' = [content EXCEPT ![v] = c]
  /\ Update(v, [Validated(v, c) EXCEPT !.state = "under_review"])
  /\ UNCHANGED <<project, approvals, executed, proposals>>

Archive(s) ==
  /\ Request(s, {"draft", "superseded"})
  /\ Update(ss[s].version, [plans[ss[s].version] EXCEPT !.state = "archived"])
  /\ UNCHANGED <<project, content, approvals, executed, proposals>>

-----------------------------------------------------------------------------
(* Review *)

Decision(s, decision) ==
  [version |-> ss[s].version, decision |-> decision,
   hash |-> plans[ss[s].version].hash, shown |-> ss[s].content]

\* request_changes
RequestChanges(s) ==
  LET v == ss[s].version IN
  /\ Request(s, {"under_review"}) /\ Bounded(v)
  /\ plans[v].hash = Recorded(content[v])
  /\ approvals' = approvals \cup {Decision(s, "changes_requested")}
  /\ Update(v, [plans[v] EXCEPT !.state = "draft"])
  /\ UNCHANGED <<project, content, executed, proposals>>

\* approve_and_activate loads the version and waits for the project's row
ApproveRead(s) ==
  /\ ss[s].pc = "viewing" /\ project.status = "active"
  /\ ss' = [ss EXCEPT ![s] = [@ EXCEPT !.pc = "approving", !.copy = plans[ss[s].version]]]
  /\ UNCHANGED <<project, plans, content, approvals, executed, proposals>>

\* Mutants: the request's version and hash are not compared; the recorded quality
\* is trusted
MutReviewed(s) ==
  /\ ss[s].copy.state = "under_review"
  /\ ss[s].copy.hash = Recorded(content[ss[s].version])
  /\ Passes(content[ss[s].version])
MutTrustQuality(s) ==
  /\ ss[s].row.rowv = ss[s].copy.rowv
  /\ ss[s].copy.state = "under_review"
  /\ ss[s].copy.hash = Recorded(content[ss[s].version])
  /\ ss[s].row.hash = Recorded(content[ss[s].version])
  /\ ss[s].copy.quality = "passed"

\* What approve_and_activate checks under its locks: the row as the session has
\* it, the content as it is
Reviewed(s) ==
  /\ ss[s].row.rowv = ss[s].copy.rowv
  /\ ss[s].copy.state = "under_review"
  /\ ss[s].copy.hash = Recorded(content[ss[s].version])
  /\ ss[s].row.hash = Recorded(content[ss[s].version])
  /\ Passes(content[ss[s].version])

\* The previous active version, if there is one, as superseded
Superseded(v) ==
  [u \in Versions |->
     IF u # v /\ plans[u].state = "active"
       THEN [plans[u] EXCEPT !.state = "superseded", !.rowv = @ + 1] ELSE plans[u]]

\* approve_and_activate with initialize_active_plan, which creates the
\* projections of a version once
Approve(s) ==
  LET v == ss[s].version IN
  /\ ss[s].pc = "approving" /\ project.status = "active"
  /\ Reviewed(s)
  /\ Current(v, ss[s].copy)
  /\ plans' = [Superseded(v) EXCEPT ![v].state = "active", ![v].rowv = @ + 1]
  /\ approvals' = approvals \cup {Decision(s, "approved")}
  /\ executed' = executed \cup {v}
  /\ ss' = [ss EXCEPT ![s] = Closed]
  /\ UNCHANGED <<project, content, proposals>>

-----------------------------------------------------------------------------
(* Regeneration proposals: a replacement of some items *)

\* propose_regeneration: the row of a draft, unlocked
ProposeRead(s, v) ==
  /\ ss[s].pc = "closed" /\ project.status = "active" /\ plans[v].state = "draft"
  /\ ss' = [ss EXCEPT ![s] = [Closed EXCEPT !.pc = "proposing", !.version = v, !.copy = plans[v]]]
  /\ UNCHANGED <<project, plans, content, approvals, executed, proposals>>

\* The content of the draft, and the proposal
Propose(s, p) ==
  /\ ss[s].pc = "proposing" /\ proposals[p].status = "absent"
  /\ \E b \in Bodies :
       proposals' = [proposals EXCEPT ![p] =
         [status |-> "pending", version |-> ss[s].version, base |-> content[ss[s].version],
          hash |-> ss[s].copy.hash, body |-> b]]
  /\ ss' = [ss EXCEPT ![s] = Closed]
  /\ UNCHANGED <<project, plans, content, approvals, executed>>

\* decide_regeneration: the proposal, unlocked
DecideRead(s, p) ==
  /\ ss[s].pc = "closed" /\ proposals[p].status = "pending"
  /\ ss' = [ss EXCEPT ![s] = [Closed EXCEPT !.pc = "deciding", !.proposal = p,
                                            !.version = proposals[p].version]]
  /\ UNCHANGED <<project, plans, content, approvals, executed, proposals>>

\* Under the lock: the version is a draft, and the UPDATE of the proposal finds
\* the row that was loaded as pending
Decidable(s) ==
  /\ ss[s].pc = "deciding" /\ project.status = "active"
  /\ plans[ss[s].version].state = "draft"
  /\ proposals[ss[s].proposal].status = "pending"

Decide(s, status) ==
  /\ proposals' = [proposals EXCEPT ![ss[s].proposal].status = status]
  /\ ss' = [ss EXCEPT ![s] = Closed]

\* Mutant: the baseline is not compared
MutOnBaseline(s) == TRUE

OnBaseline(s) == plans[ss[s].version].hash = proposals[ss[s].proposal].hash

\* An approved proposal; on another content than its base, its replacements give
\* some other content
DecideApprove(s) ==
  LET v == ss[s].version
      p == proposals[ss[s].proposal]
  IN
  /\ Decidable(s) /\ OnBaseline(s)
  /\ Bounded(v)
  /\ \E b \in IF content[v].body = p.base.body THEN {p.body} ELSE Bodies, typed \in BOOLEAN :
       LET c == IF b = content[v].body THEN content[v] ELSE [body |-> b, dates |-> "old"] IN
         /\ content' = [content EXCEPT ![v] = c]
         /\ Update(v, Invalidated(plans[v], c, typed))
  /\ Decide(s, "approved")
  /\ UNCHANGED <<project, approvals, executed>>

DecideReject(s) ==
  /\ Decidable(s)
  /\ Decide(s, "rejected")
  /\ UNCHANGED <<project, plans, content, approvals, executed>>

DecideStale(s) ==
  /\ Decidable(s) /\ ~OnBaseline(s)
  /\ Decide(s, "stale")
  /\ UNCHANGED <<project, plans, content, approvals, executed>>

-----------------------------------------------------------------------------
SessionStep(s) ==
  \/ \E v \in Versions : OpenRow(s, v) \/ ProposeRead(s, v)
  \/ \E p \in Proposals : Propose(s, p) \/ DecideRead(s, p)
  \/ OpenContent(s) \/ Leave(s)
  \/ Edit(s) \/ Validate(s) \/ SubmitReview(s) \/ Archive(s)
  \/ RequestChanges(s) \/ ApproveRead(s) \/ Approve(s)
  \/ DecideApprove(s) \/ DecideReject(s) \/ DecideStale(s)

Next ==
  \/ ProjectUpdate \/ ProjectArchive
  \/ \E v \in Versions : PersistDraft(v)
  \/ \E s \in Sessions : SessionStep(s)

Spec == Init /\ [][Next]_vars

-----------------------------------------------------------------------------
(* Properties *)

TypeOK ==
  /\ project \in [status : {"active", "archived"}, facts : Facts]
  /\ plans \in [Versions -> PlanRow]
  /\ content \in [Versions -> Content]
  /\ approvals \subseteq [version : Versions, decision : {"approved", "changes_requested"},
                          hash : Hash, shown : Content]
  /\ executed \subseteq Versions
  /\ proposals \in [Proposals -> [status : {"absent", "pending", "approved", "rejected", "stale"},
                                   version : Versions \cup {None}, base : Content, hash : Hash,
                                   body : Bodies \cup {None}]]
  /\ ss \in [Sessions -> [pc : {"closed", "opening", "viewing", "approving", "proposing",
                                "deciding"},
                          version : Versions \cup {None}, row : PlanRow, content : Content,
                          copy : PlanRow, proposal : Proposals \cup {None}]]

\* The project executes one plan: an approval supersedes the plan before it in the
\* same transaction.
OneActive ==
  \A u, v \in Versions : plans[u].state = "active" /\ plans[v].state = "active" => u = v

\* "activates one immutable version": what is active, or was, is word for word what
\* was on the screen of the reader who approved it, although it was read with
\* several SELECTs while others edited.
ActiveWasShown ==
  \A v \in Versions :
    plans[v].state \in {"active", "superseded"} =>
      \E a \in approvals : /\ a.version = v /\ a.decision = "approved"
                           /\ a.shown = content[v] /\ a.hash = Recorded(content[v])

\* "rechecks hash/version in the transaction": a version becomes active only while
\* the database has it under review.  The check in Python looks at the attributes
\* of an older read, so this rests on WHERE row_version alone.
ActivatedFromReview ==
  [][\A v \in Versions :
       plans'[v].state = "active" /\ plans[v].state # "active"
         => plans[v].state = "under_review"]_vars

\* A version that becomes active passes the gate under the intake and calendar the
\* project has at that moment, not those it was submitted under.
ActivatedPlanPasses ==
  [][\A v \in Versions :
       plans'[v].state = "active" /\ plans[v].state # "active" => Passes(content[v])]_vars

\* The dates of a plan under review or active were calculated from its items: an
\* edit, a validation and a submission in any order leave no older dates behind.
DatesAreCalculated ==
  \A v \in Versions :
    plans[v].state \in {"under_review", "active"} => content[v].dates # "old"

\* Once a version has left draft nothing in it changes, unless changes are
\* requested: no edit and no regeneration decided late reaches it.
ReviewedContentFrozen ==
  [][\A v \in Versions :
       plans[v].state \notin {"absent", "draft"} => content'[v] = content[v]]_vars

\* "Optimistic row_version protects edits": a reader's request takes effect only on
\* the content its reader was shown.
NoLostUpdate ==
  [][\A s \in Sessions :
       ss[s].pc = "viewing" /\ ss'[s].pc = "closed" /\ plans' # plans
         => ss[s].content = content[ss[s].version]]_vars

\* A regeneration is applied only to the content whose hash was recorded when it was
\* proposed, and a proposal is decided once, by whichever request is first.
RegeneratedOnBaseline ==
  [][\A p \in Proposals :
       proposals[p].status = "pending" /\ proposals'[p].status = "approved"
         => content[proposals[p].version] = proposals[p].hash.of]_vars

DecidedOnce ==
  [][\A p \in Proposals :
       proposals[p].status \in {"approved", "rejected", "stale"}
         => proposals'[p] = proposals[p]]_vars

\* A version under review can always be approved or sent back as far as its hash is
\* concerned: _require_unchanged, in both, compares it with the hash of the rows as
\* the database returns them, and nothing else ends a review.
ReviewCanEnd ==
  \A v \in Versions :
    plans[v].state = "under_review" => plans[v].hash = Recorded(content[v])

-----------------------------------------------------------------------------
(* What execution and monitoring rely on: an approved baseline *)

Approved(v) == \E a \in approvals : a.version = v /\ a.decision = "approved"

baseline == [v \in Versions |-> IF Approved(v) THEN content[v] ELSE NoContent]

current ==
  IF \E v \in Versions : plans[v].state = "active"
    THEN CHOOSE v \in Versions : plans[v].state = "active" ELSE None

Baseline == INSTANCE ApprovedBaseline

\* The approved content of every version is fixed for good when the version becomes
\* current; another version may become current, none becomes so twice, and there is
\* no way back to none.
BaselineHolds == Baseline!Spec
=============================================================================
