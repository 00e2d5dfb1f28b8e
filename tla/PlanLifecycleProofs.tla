------------------------ MODULE PlanLifecycleProofs ------------------------
(***************************************************************************)
(* Theorems about PlanLifecycle, for any number of versions, proposals,    *)
(* readers, contents and states of the intake, and any bound on the row    *)
(* versions.                                                               *)
(***************************************************************************)
EXTENDS PlanLifecycle, TLAPS

Session == [pc : {"closed", "opening", "viewing", "approving", "proposing", "deciding"},
            version : Versions \cup {None}, row : PlanRow, content : Content,
            copy : PlanRow, proposal : Proposals \cup {None}]

Proposal == [status : {"absent", "pending", "approved", "rejected", "stale"},
             version : Versions \cup {None}, base : Content, hash : Hash,
             body : Bodies \cup {None}]

Approval == [version : Versions, decision : {"approved", "changes_requested"},
             hash : Hash, shown : Content]

\* What an open request works on exists.
OnVersion(s) ==
  /\ ss[s].pc # "closed" => ss[s].version \in Versions
  /\ ss[s].pc = "deciding" =>
       /\ ss[s].proposal \in Proposals
       /\ proposals[ss[s].proposal].status # "absent"
       /\ proposals[ss[s].proposal].version = ss[s].version

ProposalOnVersion(p) == proposals[p].status # "absent" => proposals[p].version \in Versions

TypeInv ==
  /\ TypeOK
  /\ \A s \in Sessions : OnVersion(s)
  /\ \A p \in Proposals : ProposalOnVersion(p)

-----------------------------------------------------------------------------
(* What the helpers return *)

LEMMA RecordTypes ==
  /\ NoContent \in Content /\ NoPlan \in PlanRow /\ Closed \in Session /\ NoProposal \in Proposal
  /\ \A c \in Content : Recorded(c) \in Hash
BY DEF NoContent, Content, NoPlan, PlanRow, Hash, States, Closed, Session, NoProposal, Proposal,
       Recorded

\* Rows with a new verdict and hash, or in a new state, are rows.
LEMMA RowTypes ==
  ASSUME TypeOK, NEW v \in Versions, NEW c \in Content, NEW typed \in BOOLEAN, NEW st \in States
  PROVE  /\ Invalidated(plans[v], c, typed) \in PlanRow
         /\ Validated(v, c) \in PlanRow
         /\ [Validated(v, c) EXCEPT !.state = st] \in PlanRow
         /\ [plans[v] EXCEPT !.state = st] \in PlanRow
<1>1. plans[v] \in PlanRow
  BY DEF TypeOK
<1>2. [of |-> c, typed |-> typed] \in Hash /\ Recorded(c) \in Hash
  BY DEF Hash, Recorded
<1>3. [plans[v] EXCEPT !.state = st] \in PlanRow
  BY <1>1 DEF PlanRow
<1>4. Invalidated(plans[v], c, typed) \in PlanRow
  BY <1>1, <1>2 DEF PlanRow, Invalidated
<1>5. Validated(v, c) \in PlanRow
  <2>1. (IF Passes(c) THEN "passed" ELSE "failed") \in {"passed", "failed"}
    OBVIOUS
  <2> QED BY <1>1, <1>2, <2>1 DEF PlanRow, Validated
<1>6. [Validated(v, c) EXCEPT !.state = st] \in PlanRow
  BY <1>5 DEF PlanRow
<1> QED BY <1>3, <1>4, <1>5, <1>6

\* Update gives a version its next row_version and leaves the others alone.
LEMMA UpdateRow ==
  ASSUME TypeOK, NEW v \in Versions, NEW new \in PlanRow, Update(v, new)
  PROVE  /\ plans' \in [Versions -> PlanRow]
         /\ plans'[v] = [new EXCEPT !.rowv = plans[v].rowv + 1]
         /\ \A u \in Versions \ {v} : plans'[u] = plans[u]
BY DEF TypeOK, PlanRow, Update

-----------------------------------------------------------------------------
(* Versions *)

\* A version is absent or its hash is of its content; while it is under review the
\* hash is one the database gives, and its dates are calculated.
VersionInv ==
  \A v \in Versions :
    /\ plans[v].state = "absent" => plans[v].rowv = 0
    /\ plans[v].hash.of = content[v]
    /\ plans[v].state = "under_review" => plans[v].hash = Recorded(content[v])
    /\ plans[v].state \in {"under_review", "active"} => content[v].dates # "old"

\* What a reader was shown, and what its approval has loaded, is not newer than the
\* version; with the row_version the version has now it is the version.
ReadsInv ==
  \A s \in Sessions :
    /\ ss[s].pc \in {"opening", "viewing", "approving"} =>
         ss[s].row.rowv <= plans[ss[s].version].rowv
    /\ ss[s].pc \in {"viewing", "approving"} /\ ss[s].row.rowv = plans[ss[s].version].rowv =>
         ss[s].content = content[ss[s].version]
    /\ ss[s].pc = "approving" =>
         /\ ss[s].copy.rowv <= plans[ss[s].version].rowv
         /\ ss[s].copy.rowv = plans[ss[s].version].rowv => ss[s].copy = plans[ss[s].version]

\* What a step may do to one version.
Same(v) == plans'[v] = plans[v] /\ content'[v] = content[v]

Created(v) ==
  /\ plans[v].state = "absent" /\ plans'[v].state = "draft" /\ plans'[v].rowv = 1
  /\ plans'[v].hash.of = content'[v]

Revised(v) ==
  /\ plans[v].state = "draft" /\ plans'[v].state \in {"draft", "under_review"}
  /\ plans'[v].rowv = plans[v].rowv + 1
  /\ plans'[v].hash.of = content'[v]
  /\ plans'[v].state = "under_review" =>
       plans'[v].hash = Recorded(content'[v]) /\ content'[v].dates # "old"

Moves == {<<"draft", "archived">>, <<"superseded", "archived">>, <<"under_review", "draft">>}

Moved(v) ==
  /\ <<plans[v].state, plans'[v].state>> \in Moves
  /\ plans'[v].rowv = plans[v].rowv + 1
  /\ plans'[v].hash = plans[v].hash /\ content'[v] = content[v]

Retired(v) ==
  /\ plans[v].state = "active" /\ plans'[v].state = "superseded"
  /\ plans'[v].rowv = plans[v].rowv + 1
  /\ plans'[v].hash = plans[v].hash /\ content'[v] = content[v]

Activated(v) ==
  /\ plans[v].state = "under_review" /\ plans'[v].state = "active"
  /\ plans'[v].rowv = plans[v].rowv + 1
  /\ plans'[v].hash = plans[v].hash /\ content'[v] = content[v]

ByApproval(v) ==
  \E s \in Sessions :
    /\ Approve(s)
    /\ IF v = ss[s].version THEN Activated(v) ELSE Retired(v)

VersionStep(v) == Same(v) \/ Created(v) \/ Revised(v) \/ Moved(v) \/ ByApproval(v)

\* Types of both tables after a step, and what it did to each version.
VersionsStep ==
  /\ plans' \in [Versions -> PlanRow]
  /\ content' \in [Versions -> Content]
  /\ \A v \in Versions : VersionStep(v)

\* A draft with new content.
LEMMA RevisedDraft ==
  ASSUME TypeOK, NEW v \in Versions, plans[v].state = "draft",
         NEW c \in Content, NEW typed \in BOOLEAN,
         content' = [content EXCEPT ![v] = c],
         Update(v, Invalidated(plans[v], c, typed))
  PROVE  VersionsStep
<1>1. Invalidated(plans[v], c, typed) \in PlanRow
  BY RowTypes DEF States
<1>2. /\ plans' \in [Versions -> PlanRow]
      /\ plans'[v] = [Invalidated(plans[v], c, typed) EXCEPT !.rowv = plans[v].rowv + 1]
      /\ \A u \in Versions \ {v} : plans'[u] = plans[u]
  BY <1>1, UpdateRow
<1>3. plans[v] \in PlanRow
  BY DEF TypeOK
<1>4. Revised(v)
  BY <1>2, <1>3 DEF Revised, Invalidated, PlanRow, TypeOK
<1>5. \A u \in Versions \ {v} : Same(u)
  BY <1>2 DEF Same, TypeOK
<1>6. content' \in [Versions -> Content]
  BY DEF TypeOK
<1> QED BY <1>2, <1>4, <1>5, <1>6 DEF VersionsStep, VersionStep

\* A version in another state, its content as it was.
LEMMA MovedVersion ==
  ASSUME TypeOK, NEW v \in Versions, NEW st \in States, <<plans[v].state, st>> \in Moves,
         content' = content, Update(v, [plans[v] EXCEPT !.state = st])
  PROVE  VersionsStep
<1>1. [plans[v] EXCEPT !.state = st] \in PlanRow
  BY RowTypes DEF TypeOK, Content, PlanRow, Hash
<1>2. /\ plans' \in [Versions -> PlanRow]
      /\ plans'[v] = [[plans[v] EXCEPT !.state = st] EXCEPT !.rowv = plans[v].rowv + 1]
      /\ \A u \in Versions \ {v} : plans'[u] = plans[u]
  BY <1>1, UpdateRow
<1>3. plans[v] \in PlanRow
  BY DEF TypeOK
<1>4. Moved(v)
  BY <1>2, <1>3 DEF Moved, PlanRow
<1>5. \A u \in Versions \ {v} : Same(u)
  BY <1>2 DEF Same
<1> QED BY <1>2, <1>4, <1>5 DEF VersionsStep, VersionStep, TypeOK

\* An approval finds the version as it loaded it: under review.  It changes the
\* version, and supersedes the others that were active.
LEMMA ApprovalStep ==
  ASSUME TypeInv, ReadsInv, NEW s \in Sessions, Approve(s)
  PROVE  /\ plans' \in [Versions -> PlanRow] /\ content' = content /\ content \in [Versions -> Content]
         /\ ss[s].version \in Versions
         /\ Activated(ss[s].version)
         /\ plans[ss[s].version].hash = Recorded(content[ss[s].version])
         /\ ss[s].content = content[ss[s].version]
         /\ \A u \in Versions \ {ss[s].version} :
              IF plans[u].state = "active" THEN Retired(u) ELSE Same(u)
<1> DEFINE v == ss[s].version
<1>1. /\ v \in Versions /\ plans \in [Versions -> PlanRow] /\ content \in [Versions -> Content]
      /\ content' = content
  BY DEF Approve, TypeInv, OnVersion, TypeOK
<1>2. /\ ss[s].copy = plans[v] /\ plans[v].state = "under_review"
      /\ plans[v].hash = Recorded(content[v])
  BY DEF Approve, Current, Reviewed, ReadsInv
<1>3. ss[s].content = content[v]
  BY <1>2 DEF Approve, Reviewed, ReadsInv
<1>4. Superseded(v) \in [Versions -> PlanRow]
  <2>1. ASSUME NEW u \in Versions
        PROVE  [plans[u] EXCEPT !.state = "superseded", !.rowv = plans[u].rowv + 1] \in PlanRow
    <3>1. plans[u] \in PlanRow /\ plans[u].rowv + 1 \in Nat
      BY <1>1 DEF PlanRow
    <3> QED BY <3>1 DEF PlanRow, States
  <2> QED BY <1>1, <2>1 DEF Superseded
<1>5. plans' = [Superseded(v) EXCEPT ![v].state = "active", ![v].rowv = @ + 1]
  BY DEF Approve
<1>6. Superseded(v)[v] = plans[v]
  BY <1>1 DEF Superseded
<1>7. plans' \in [Versions -> PlanRow]
  BY <1>1, <1>4, <1>5 DEF PlanRow, States
<1>8. Activated(v)
  BY <1>1, <1>2, <1>4, <1>5, <1>6 DEF Activated, PlanRow
<1>9. ASSUME NEW u \in Versions \ {v}
      PROVE  IF plans[u].state = "active" THEN Retired(u) ELSE Same(u)
  <2>1. plans'[u] = Superseded(v)[u]
    BY <1>4, <1>5
  <2> QED BY <1>1, <2>1 DEF Superseded, Retired, Same, PlanRow
<1> QED BY <1>1, <1>2, <1>3, <1>7, <1>8, <1>9

\* What each request does to the versions.
LEMMA VersionsNext ==
  ASSUME TypeInv, VersionInv, ReadsInv, Next
  PROVE  VersionsStep
<1> USE DEF TypeInv
<1>0. ASSUME UNCHANGED <<plans, content>> PROVE VersionsStep
  BY <1>0 DEF VersionsStep, VersionStep, Same, TypeOK
<1>1. CASE ProjectUpdate \/ ProjectArchive
  BY <1>0, <1>1 DEF ProjectUpdate, ProjectArchive
<1>2. ASSUME NEW v \in Versions, PersistDraft(v) PROVE VersionsStep
  <2>1. PICK b \in Bodies, f \in Facts, typed \in BOOLEAN :
          /\ content' = [content EXCEPT ![v] = [body |-> b, dates |-> f]]
          /\ plans' = [plans EXCEPT ![v] =
               [state |-> "draft", quality |-> "passed", rowv |-> 1,
                hash |-> [of |-> [body |-> b, dates |-> f], typed |-> typed]]]
    BY <1>2 DEF PersistDraft
  <2>2. [body |-> b, dates |-> f] \in Content
    BY DEF Content
  <2>3. [state |-> "draft", quality |-> "passed", rowv |-> 1,
         hash |-> [of |-> [body |-> b, dates |-> f], typed |-> typed]] \in PlanRow
    BY <2>2 DEF PlanRow, Hash, States
  <2>4. plans' \in [Versions -> PlanRow] /\ content' \in [Versions -> Content]
    BY <2>1, <2>2, <2>3 DEF TypeOK
  <2>5. Created(v)
    BY <1>2, <2>1 DEF Created, TypeOK, PersistDraft
  <2>6. \A u \in Versions \ {v} : Same(u)
    BY <2>1 DEF Same, TypeOK
  <2> QED BY <2>4, <2>5, <2>6 DEF VersionsStep, VersionStep
<1>3. ASSUME NEW s \in Sessions, SessionStep(s) PROVE VersionsStep
  <2> DEFINE v == ss[s].version
  <2>a. MutableDraft(s) => v \in Versions /\ plans[v].state = "draft"
    BY DEF MutableDraft, Request, RequireVersion, OnVersion
  <2>b. Request(s, {"under_review"}) => v \in Versions /\ plans[v].state = "under_review"
    BY DEF Request, RequireVersion, OnVersion
  <2>c. Request(s, {"draft", "superseded"}) =>
          v \in Versions /\ plans[v].state \in {"draft", "superseded"}
    BY DEF Request, RequireVersion, OnVersion
  <2>d. Decidable(s) => v \in Versions /\ plans[v].state = "draft"
    BY DEF Decidable, OnVersion
  <2>1. ASSUME NEW u \in Versions, OpenRow(s, u) \/ ProposeRead(s, u) PROVE VersionsStep
    BY <1>0, <2>1 DEF OpenRow, ProposeRead
  <2>2. ASSUME NEW p \in Proposals, Propose(s, p) \/ DecideRead(s, p) PROVE VersionsStep
    BY <1>0, <2>2 DEF Propose, DecideRead
  <2>3. CASE OpenContent(s) \/ Leave(s) \/ ApproveRead(s) \/ DecideReject(s) \/ DecideStale(s)
    BY <1>0, <2>3 DEF OpenContent, Leave, ApproveRead, DecideReject, DecideStale
  <2>4. CASE Edit(s) \/ DecideApprove(s)
    <3>1. v \in Versions /\ plans[v].state = "draft"
      BY <2>4, <2>a, <2>d DEF Edit, DecideApprove
    <3>2. PICK b \in Bodies \cup {None}, typed \in BOOLEAN :
            LET c == IF b = content[v].body THEN content[v] ELSE [body |-> b, dates |-> "old"] IN
              /\ content' = [content EXCEPT ![v] = c]
              /\ Update(v, Invalidated(plans[v], c, typed))
      <4>1. CASE Edit(s)
        BY <4>1 DEF Edit
      <4>2. CASE DecideApprove(s)
        <5>1. proposals[ss[s].proposal].body \in Bodies \cup {None}
          BY <4>2 DEF TypeOK, DecideApprove, Decidable, OnVersion
        <5> QED BY <4>2, <5>1 DEF DecideApprove
      <4> QED BY <2>4, <4>1, <4>2
    <3> DEFINE c == IF b = content[v].body THEN content[v] ELSE [body |-> b, dates |-> "old"]
    <3>3. c \in Content
      BY <3>1 DEF Content, TypeOK
    <3> QED BY <3>1, <3>2, <3>3, RevisedDraft
  <2>5. CASE Validate(s)
    <3>1. v \in Versions /\ plans[v].state = "draft" /\ plans[v] \in PlanRow
      BY <2>5, <2>a DEF Validate, TypeOK
    <3>2. PICK c \in {Calculated(content[v])} \cup {content[v]} :
            /\ content' = [content EXCEPT ![v] = c]
            /\ \/ Update(v, Validated(v, c))
               \/ Validated(v, c) = plans[v] /\ UNCHANGED plans
      BY <2>5 DEF Validate
    <3>3. c \in Content
      BY <3>1 DEF Content, TypeOK, Calculated
    <3>4. Validated(v, c) \in PlanRow /\ Validated(v, c).hash.of = c
          /\ Validated(v, c).state = plans[v].state
      <4>1. Validated(v, c) \in PlanRow
        BY <3>1, <3>3, RowTypes DEF States
      <4> QED BY <3>1, <4>1 DEF Validated, Recorded, PlanRow
    <3>5. CASE Update(v, Validated(v, c))
      <4>1. /\ plans' \in [Versions -> PlanRow]
            /\ plans'[v] = [Validated(v, c) EXCEPT !.rowv = plans[v].rowv + 1]
            /\ \A u \in Versions \ {v} : plans'[u] = plans[u]
        BY <3>1, <3>4, <3>5, UpdateRow
      <4>2. Revised(v)
        BY <3>1, <3>2, <3>4, <4>1 DEF Revised, PlanRow, TypeOK
      <4>3. \A u \in Versions \ {v} : Same(u)
        BY <3>2, <4>1 DEF Same, TypeOK
      <4>4. content' \in [Versions -> Content]
        BY <3>2, <3>3 DEF TypeOK
      <4> QED BY <4>1, <4>2, <4>3, <4>4 DEF VersionsStep, VersionStep
    <3>6. CASE Validated(v, c) = plans[v] /\ UNCHANGED plans
      <4>1. c = content[v]
        BY <3>1, <3>4, <3>6 DEF VersionInv
      <4>2. content' = content
        BY <3>1, <3>2, <4>1 DEF TypeOK
      <4> QED BY <1>0, <3>6, <4>2
    <3> QED BY <3>2, <3>5, <3>6
  <2>6. CASE SubmitReview(s)
    <3> DEFINE c == Calculated(content[v])
               new == [Validated(v, c) EXCEPT !.state = "under_review"]
    <3>1. /\ v \in Versions /\ plans[v].state = "draft" /\ plans[v] \in PlanRow
          /\ content' = [content EXCEPT ![v] = c]
          /\ Update(v, new)
      BY <2>6, <2>a DEF SubmitReview, TypeOK
    <3>2. c \in Content /\ c.dates # "old"
      <4>1. content[v] \in Content /\ project.facts \in Facts
        BY <3>1 DEF TypeOK
      <4> QED BY <4>1, FactsAssumption DEF Content, Calculated
    <3>3. Validated(v, c) \in PlanRow /\ new \in PlanRow
      BY <3>1, <3>2, RowTypes DEF States
    <3>4. new.hash = Recorded(c) /\ new.state = "under_review" /\ Recorded(c).of = c
      BY <3>1, <3>3 DEF Validated, PlanRow, Recorded
    <3> HIDE DEF new, c
    <3>5. /\ plans' \in [Versions -> PlanRow]
          /\ plans'[v] = [new EXCEPT !.rowv = plans[v].rowv + 1]
          /\ \A u \in Versions \ {v} : plans'[u] = plans[u]
      BY <3>1, <3>3, UpdateRow
    <3>6. /\ plans'[v].rowv = plans[v].rowv + 1 /\ plans'[v].state = "under_review"
          /\ plans'[v].hash = Recorded(c)
      BY <3>3, <3>4, <3>5 DEF PlanRow
    <3>7. content'[v] = c /\ content' \in [Versions -> Content]
      BY <3>1, <3>2 DEF TypeOK
    <3>8. Revised(v)
      BY <3>1, <3>2, <3>4, <3>6, <3>7 DEF Revised
    <3>9. \A u \in Versions \ {v} : Same(u)
      BY <3>1, <3>5 DEF Same, TypeOK
    <3> QED BY <3>5, <3>7, <3>8, <3>9 DEF VersionsStep, VersionStep
  <2>7. CASE Archive(s)
    BY <2>7, <2>c, MovedVersion DEF Archive, States, Moves
  <2>8. CASE RequestChanges(s)
    BY <2>8, <2>b, MovedVersion DEF RequestChanges, States, Moves
  <2>9. CASE Approve(s)
    BY <2>9, ApprovalStep DEF VersionsStep, VersionStep, ByApproval
  <2> QED BY <1>3, <2>1, <2>2, <2>3, <2>4, <2>5, <2>6, <2>7, <2>8, <2>9 DEF SessionStep
<1> QED BY <1>1, <1>2, <1>3 DEF Next
-----------------------------------------------------------------------------
(* Type correctness *)

\* A session's new record, a proposal's new record and a decision have their types.
LEMMA SessionsNext ==
  ASSUME TypeInv, ReadsInv, Next
  PROVE  ss' \in [Sessions -> Session]
<1> USE RecordTypes
<1>0. ss \in [Sessions -> Session]
  BY DEF TypeInv, TypeOK, Session
<1>1. CASE ProjectUpdate \/ ProjectArchive \/ \E v \in Versions : PersistDraft(v)
  BY <1>0, <1>1 DEF ProjectUpdate, ProjectArchive, PersistDraft
<1>2. ASSUME NEW s \in Sessions, SessionStep(s) PROVE ss' \in [Sessions -> Session]
  <2>1. ASSUME NEW v \in Versions, OpenRow(s, v) PROVE ss' \in [Sessions -> Session]
    <3>1. [Closed EXCEPT !.pc = "opening", !.version = v, !.row = plans[v]] \in Session
      BY DEF Session, TypeInv, TypeOK
    <3> QED BY <1>0, <2>1, <3>1 DEF OpenRow
  <2>2. ASSUME NEW v \in Versions, ProposeRead(s, v) PROVE ss' \in [Sessions -> Session]
    <3>1. [Closed EXCEPT !.pc = "proposing", !.version = v, !.copy = plans[v]] \in Session
      BY DEF Session, TypeInv, TypeOK
    <3> QED BY <1>0, <2>2, <3>1 DEF ProposeRead
  <2>3. ASSUME NEW p \in Proposals, DecideRead(s, p) PROVE ss' \in [Sessions -> Session]
    <3>1. [Closed EXCEPT !.pc = "deciding", !.proposal = p, !.version = proposals[p].version]
            \in Session
      BY DEF Session, TypeInv, TypeOK
    <3> QED BY <1>0, <2>3, <3>1 DEF DecideRead
  <2>4. CASE OpenContent(s)
    <3>1. [ss[s] EXCEPT !.pc = "viewing", !.content = content[ss[s].version]] \in Session
      <4>1. ss[s] \in Session /\ content[ss[s].version] \in Content
        BY <1>0, <2>4 DEF OpenContent, TypeInv, TypeOK, OnVersion
      <4> QED BY <4>1 DEF Session
    <3> QED BY <1>0, <2>4, <3>1 DEF OpenContent
  <2>5. CASE ApproveRead(s)
    <3>1. [ss[s] EXCEPT !.pc = "approving", !.copy = plans[ss[s].version]] \in Session
      <4>1. ss[s] \in Session /\ plans[ss[s].version] \in PlanRow
        BY <1>0, <2>5 DEF ApproveRead, TypeInv, TypeOK, OnVersion
      <4> QED BY <4>1 DEF Session
    <3> QED BY <1>0, <2>5, <3>1 DEF ApproveRead
  <2>6. CASE ss' = [ss EXCEPT ![s] = Closed]
    BY <1>0, <2>6
  <2>7. ASSUME NEW p \in Proposals, Propose(s, p) PROVE ss' = [ss EXCEPT ![s] = Closed]
    BY <2>7 DEF Propose
  <2>8. CASE Leave(s) \/ Edit(s) \/ Validate(s) \/ SubmitReview(s) \/ Archive(s)
             \/ RequestChanges(s) \/ Approve(s) \/ DecideApprove(s) \/ DecideReject(s)
             \/ DecideStale(s)
    BY <2>6, <2>8 DEF Leave, Edit, Validate, SubmitReview, Archive, RequestChanges, Approve,
      DecideApprove, DecideReject, DecideStale, Decide, Request, MutableDraft
  <2> QED BY <1>2, <2>1, <2>2, <2>3, <2>4, <2>5, <2>6, <2>7, <2>8 DEF SessionStep
<1> QED BY <1>1, <1>2 DEF Next

\* What a step may do to one proposal: it stays, is made, or is decided.
ProposalStep(p) ==
  \/ proposals'[p] = proposals[p]
  \/ proposals[p].status = "absent" /\ proposals'[p].status = "pending"
     /\ proposals'[p].version \in Versions
  \/ /\ proposals[p].status = "pending"
     /\ \E st \in {"approved", "rejected", "stale"} :
          proposals'[p] = [proposals[p] EXCEPT !.status = st]

LEMMA ProposalsNext ==
  ASSUME TypeInv, Next
  PROVE  proposals' \in [Proposals -> Proposal] /\ \A p \in Proposals : ProposalStep(p)
<1>0. proposals \in [Proposals -> Proposal]
  BY DEF TypeInv, TypeOK, Proposal
<1>1. ASSUME UNCHANGED proposals
      PROVE  proposals' \in [Proposals -> Proposal] /\ \A p \in Proposals : ProposalStep(p)
  BY <1>0, <1>1 DEF ProposalStep
<1>2. CASE ProjectUpdate \/ ProjectArchive \/ \E v \in Versions : PersistDraft(v)
  BY <1>1, <1>2 DEF ProjectUpdate, ProjectArchive, PersistDraft
<1>3. ASSUME NEW s \in Sessions, SessionStep(s)
      PROVE  proposals' \in [Proposals -> Proposal] /\ \A p \in Proposals : ProposalStep(p)
  <2>1. CASE \/ \E v \in Versions : OpenRow(s, v) \/ ProposeRead(s, v)
             \/ \E p \in Proposals : DecideRead(s, p)
             \/ OpenContent(s) \/ Leave(s) \/ Edit(s) \/ Validate(s) \/ SubmitReview(s)
             \/ Archive(s) \/ RequestChanges(s) \/ ApproveRead(s) \/ Approve(s)
    BY <1>1, <2>1 DEF OpenRow, ProposeRead, DecideRead, OpenContent, Leave, Edit, Validate,
      SubmitReview, Archive, RequestChanges, ApproveRead, Approve
  <2>2. ASSUME NEW p \in Proposals, Propose(s, p)
        PROVE  proposals' \in [Proposals -> Proposal] /\ \A q \in Proposals : ProposalStep(q)
    <3>1. PICK b \in Bodies : proposals' = [proposals EXCEPT ![p] =
            [status |-> "pending", version |-> ss[s].version, base |-> content[ss[s].version],
             hash |-> ss[s].copy.hash, body |-> b]]
      BY <2>2 DEF Propose
    <3>2. ss[s].version \in Versions /\ content[ss[s].version] \in Content
          /\ ss[s].copy.hash \in Hash /\ proposals[p].status = "absent"
      BY <2>2 DEF Propose, TypeInv, TypeOK, OnVersion, PlanRow
    <3>3. proposals'[p] \in Proposal
      BY <1>0, <3>1, <3>2 DEF Proposal
    <3> QED BY <1>0, <3>1, <3>2, <3>3 DEF ProposalStep
  <2>3. ASSUME NEW st \in {"approved", "rejected", "stale"}, Decidable(s), Decide(s, st)
        PROVE  proposals' \in [Proposals -> Proposal] /\ \A p \in Proposals : ProposalStep(p)
    <3> DEFINE p == ss[s].proposal
    <3>1. p \in Proposals /\ proposals[p].status = "pending"
      BY <2>3 DEF Decidable, TypeInv, OnVersion
    <3>2. [proposals[p] EXCEPT !.status = st] \in Proposal
      BY <1>0, <3>1 DEF Proposal
    <3>3. proposals' = [proposals EXCEPT ![p] = [proposals[p] EXCEPT !.status = st]]
      BY <2>3 DEF Decide
    <3> QED BY <1>0, <3>1, <3>2, <3>3 DEF ProposalStep
  <2>4. CASE DecideApprove(s) \/ DecideReject(s) \/ DecideStale(s)
    BY <2>3, <2>4 DEF DecideApprove, DecideReject, DecideStale
  <2> QED BY <1>3, <2>1, <2>2, <2>4 DEF SessionStep
<1> QED BY <1>2, <1>3 DEF Next

\* The rest of the type invariant.
LEMMA OtherTypesNext ==
  ASSUME TypeInv, Next
  PROVE  /\ project' \in [status : {"active", "archived"}, facts : Facts]
         /\ approvals' \subseteq Approval
         /\ executed' \subseteq Versions
<1> USE DEF TypeInv, TypeOK, Approval
<1>1. ASSUME UNCHANGED <<project, approvals, executed>>
      PROVE  /\ project' \in [status : {"active", "archived"}, facts : Facts]
             /\ approvals' \subseteq Approval
             /\ executed' \subseteq Versions
  BY <1>1
<1>2. CASE ProjectUpdate \/ ProjectArchive
  BY <1>2 DEF ProjectUpdate, ProjectArchive
<1>3. CASE \E v \in Versions : PersistDraft(v)
  BY <1>1, <1>3 DEF PersistDraft
<1>4. ASSUME NEW s \in Sessions, SessionStep(s)
      PROVE  /\ project' \in [status : {"active", "archived"}, facts : Facts]
             /\ approvals' \subseteq Approval
             /\ executed' \subseteq Versions
  <2>1. ASSUME RequestChanges(s) \/ Approve(s)
        PROVE  /\ Decision(s, "changes_requested") \in Approval
               /\ Decision(s, "approved") \in Approval
               /\ ss[s].version \in Versions
    <3>1. ss[s].version \in Versions /\ ss[s].content \in Content
          /\ plans[ss[s].version] \in PlanRow
      BY <2>1 DEF RequestChanges, Approve, Request, RequireVersion, OnVersion
    <3> QED BY <3>1 DEF Decision, PlanRow
  <2>2. CASE RequestChanges(s)
    BY <2>1, <2>2 DEF RequestChanges
  <2>3. CASE Approve(s)
    BY <2>1, <2>3 DEF Approve
  <2>4. CASE ~(RequestChanges(s) \/ Approve(s))
    BY <1>1, <1>4, <2>4 DEF SessionStep, OpenRow, ProposeRead, Propose, DecideRead, OpenContent,
      Leave, Edit, Validate, SubmitReview, Archive, ApproveRead, DecideApprove, DecideReject,
      DecideStale
  <2> QED BY <2>2, <2>3, <2>4
<1> QED BY <1>2, <1>3, <1>4 DEF Next

\* What a step may do to one session: nothing, close it, or let it read.
Reads(s) ==
  \/ \E v \in Versions : OpenRow(s, v) \/ ProposeRead(s, v)
  \/ \E p \in Proposals : DecideRead(s, p)
  \/ OpenContent(s) \/ ApproveRead(s)

LEMMA SessionNext ==
  ASSUME TypeInv, Next, NEW s \in Sessions
  PROVE  ss'[s] = ss[s] \/ ss'[s].pc = "closed" \/ Reads(s)
<1>0. ss \in [Sessions -> Session] /\ Closed.pc = "closed"
  BY DEF TypeInv, TypeOK, Session, Closed
<1>1. CASE ProjectUpdate \/ ProjectArchive \/ \E v \in Versions : PersistDraft(v)
  BY <1>1 DEF ProjectUpdate, ProjectArchive, PersistDraft
<1>2. ASSUME NEW t \in Sessions, SessionStep(t)
      PROVE  ss'[s] = ss[s] \/ ss'[s].pc = "closed" \/ Reads(s)
  <2>1. CASE Reads(t)
    <3>1. s # t => ss'[s] = ss[s]
      BY <1>0, <2>1 DEF Reads, OpenRow, ProposeRead, DecideRead, OpenContent, ApproveRead
    <3> QED BY <2>1, <3>1
  <2>2. CASE ~Reads(t)
    <3>1. ss' = [ss EXCEPT ![t] = Closed]
      BY <1>2, <2>2 DEF Reads, SessionStep, Propose, Leave, Edit, Validate, SubmitReview, Archive,
        RequestChanges, Approve, DecideApprove, DecideReject, DecideStale, Decide, Request,
        MutableDraft
    <3> QED BY <1>0, <3>1
  <2> QED BY <2>1, <2>2
<1> QED BY <1>1, <1>2 DEF Next

LEMMA TypeInvNext ==
  ASSUME TypeInv, VersionInv, ReadsInv, Next
  PROVE  TypeInv'
<1>1. TypeOK'
  <2>1. ss' \in [Sessions -> Session]
    BY SessionsNext
  <2>2. proposals' \in [Proposals -> Proposal]
    BY ProposalsNext
  <2>3. plans' \in [Versions -> PlanRow] /\ content' \in [Versions -> Content]
    BY VersionsNext DEF VersionsStep
  <2> QED BY <2>1, <2>2, <2>3, OtherTypesNext DEF TypeOK, Session, Proposal, Approval
<1>2. ASSUME NEW p \in Proposals PROVE ProposalOnVersion(p)'
  <2>1. ProposalStep(p) /\ proposals[p] \in Proposal
    BY ProposalsNext DEF TypeInv, TypeOK, Proposal
  <2> QED BY <2>1 DEF ProposalStep, Proposal, TypeInv, ProposalOnVersion
<1>3. ASSUME NEW s \in Sessions PROVE OnVersion(s)'
  <2>1. CASE ss'[s] = ss[s]
    <3>1. OnVersion(s)
      BY DEF TypeInv
    <3>2. \A p \in Proposals :
            proposals[p].status # "absent" =>
              proposals'[p].status # "absent" /\ proposals'[p].version = proposals[p].version
      <4>1. ASSUME NEW p \in Proposals, proposals[p].status # "absent"
            PROVE  proposals'[p].status # "absent" /\ proposals'[p].version = proposals[p].version
        <5>1. ProposalStep(p) /\ proposals[p] \in Proposal
          BY ProposalsNext DEF TypeInv, TypeOK, Proposal
        <5> QED BY <4>1, <5>1 DEF ProposalStep, Proposal
      <4> QED BY <4>1
    <3> QED BY <2>1, <3>1, <3>2 DEF OnVersion
  <2>2. CASE ss'[s].pc = "closed"
    BY <2>2 DEF OnVersion
  <2>3. CASE Reads(s)
    <3>1. ss \in [Sessions -> Session] /\ Closed \in Session
      BY RecordTypes DEF TypeInv, TypeOK, Session
    <3>2. ASSUME NEW v \in Versions, OpenRow(s, v) \/ ProposeRead(s, v) PROVE OnVersion(s)'
      BY <3>1, <3>2 DEF OpenRow, ProposeRead, OnVersion, Session
    <3>3. ASSUME NEW p \in Proposals, DecideRead(s, p) PROVE OnVersion(s)'
      <4>1. proposals[p].status # "absent" /\ proposals[p].version \in Versions
            /\ proposals' = proposals
        BY <3>3 DEF DecideRead, TypeInv, ProposalOnVersion
      <4>2. ss'[s] = [Closed EXCEPT !.pc = "deciding", !.proposal = p,
                                    !.version = proposals[p].version]
        BY <3>1, <3>3 DEF DecideRead
      <4>3. ss'[s].pc = "deciding" /\ ss'[s].proposal = p
            /\ ss'[s].version = proposals[p].version
        BY <3>1, <4>2 DEF Session
      <4> QED BY <4>1, <4>3 DEF OnVersion
    <3>4. CASE OpenContent(s) \/ ApproveRead(s)
      <4>1. ss[s].version \in Versions
        BY <3>4 DEF OpenContent, ApproveRead, TypeInv, OnVersion
      <4>2. ss'[s].version = ss[s].version /\ ss'[s].pc # "deciding"
        BY <3>1, <3>4 DEF OpenContent, ApproveRead, Session
      <4> QED BY <4>1, <4>2 DEF OnVersion
    <3> QED BY <2>3, <3>2, <3>3, <3>4 DEF Reads
  <2> QED BY <2>1, <2>2, <2>3, SessionNext
<1> QED BY <1>1, <1>2, <1>3 DEF TypeInv

-----------------------------------------------------------------------------
(* The invariant *)

\* The hash of a version stays that of its content.
LEMMA VersionInvNext ==
  ASSUME TypeInv, VersionInv, ReadsInv, Next
  PROVE  VersionInv'
<1> SUFFICES ASSUME NEW v \in Versions
             PROVE  /\ plans'[v].state = "absent" => plans'[v].rowv = 0
                    /\ plans'[v].hash.of = content'[v]
                    /\ plans'[v].state = "under_review" => plans'[v].hash = Recorded(content'[v])
                    /\ plans'[v].state \in {"under_review", "active"} => content'[v].dates # "old"
  BY DEF VersionInv, Recorded
<1>1. VersionStep(v)
  BY VersionsNext DEF VersionsStep
<1>2. /\ plans[v].state = "absent" => plans[v].rowv = 0
      /\ plans[v].hash.of = content[v]
      /\ plans[v].state = "under_review" => plans[v].hash = Recorded(content[v])
      /\ plans[v].state \in {"under_review", "active"} => content[v].dates # "old"
  BY DEF VersionInv
<1>3. CASE Same(v)
  BY <1>2, <1>3 DEF Same
<1>4. CASE Created(v) \/ Revised(v)
  BY <1>4 DEF Created, Revised
<1>5. CASE Moved(v)
  BY <1>2, <1>5 DEF Moved, Moves
<1>6. CASE ByApproval(v)
  BY <1>2, <1>6 DEF ByApproval, Activated, Retired
<1> QED BY <1>1, <1>3, <1>4, <1>5, <1>6 DEF VersionStep

\* A row_version never returns: a version that changes gets one no reader has seen.
LEMMA RowVersionGrows ==
  ASSUME TypeInv, VersionInv, ReadsInv, Next, NEW v \in Versions
  PROVE  \/ plans'[v] = plans[v] /\ content'[v] = content[v]
         \/ plans'[v].rowv = plans[v].rowv + 1
<1>1. VersionStep(v)
  BY VersionsNext DEF VersionsStep
<1>2. plans[v].state = "absent" => plans[v].rowv = 0
  BY DEF VersionInv
<1> QED BY <1>1, <1>2 DEF VersionStep, Same, Created, Revised, Moved, ByApproval, Activated, Retired

LEMMA ReadsInvNext ==
  ASSUME TypeInv, VersionInv, ReadsInv, Next
  PROVE  ReadsInv'
<1> SUFFICES ASSUME NEW s \in Sessions
             PROVE
    /\ ss'[s].pc \in {"opening", "viewing", "approving"} =>
         ss'[s].row.rowv <= plans'[ss'[s].version].rowv
    /\ ss'[s].pc \in {"viewing", "approving"} /\ ss'[s].row.rowv = plans'[ss'[s].version].rowv =>
         ss'[s].content = content'[ss'[s].version]
    /\ ss'[s].pc = "approving" =>
         /\ ss'[s].copy.rowv <= plans'[ss'[s].version].rowv
         /\ ss'[s].copy.rowv = plans'[ss'[s].version].rowv => ss'[s].copy = plans'[ss'[s].version]
  BY DEF ReadsInv
<1>0. /\ ss \in [Sessions -> Session] /\ plans \in [Versions -> PlanRow] /\ Closed \in Session
      /\ ss[s].pc # "closed" => ss[s].version \in Versions
  BY RecordTypes DEF TypeInv, TypeOK, OnVersion, Session
<1>1. ss[s].row.rowv \in Nat /\ ss[s].copy.rowv \in Nat
      /\ \A v \in Versions : plans[v].rowv \in Nat
  BY <1>0 DEF Session, PlanRow
<1>2. /\ ss[s].pc \in {"opening", "viewing", "approving"} =>
           ss[s].row.rowv <= plans[ss[s].version].rowv
      /\ ss[s].pc \in {"viewing", "approving"} /\ ss[s].row.rowv = plans[ss[s].version].rowv =>
           ss[s].content = content[ss[s].version]
      /\ ss[s].pc = "approving" =>
           /\ ss[s].copy.rowv <= plans[ss[s].version].rowv
           /\ ss[s].copy.rowv = plans[ss[s].version].rowv => ss[s].copy = plans[ss[s].version]
  BY DEF ReadsInv
<1>3. CASE ss'[s] = ss[s]
  <2>1. CASE ss[s].pc = "closed"
    BY <1>3, <2>1
  <2>2. CASE ss[s].version \in Versions
    <3> DEFINE v == ss[s].version
    <3>1. \/ plans'[v] = plans[v] /\ content'[v] = content[v]
          \/ plans'[v].rowv = plans[v].rowv + 1
      BY <2>2, RowVersionGrows
    <3> QED BY <1>1, <1>2, <1>3, <2>2, <3>1
  <2> QED BY <1>0, <2>1, <2>2
<1>4. CASE ss'[s].pc = "closed"
  BY <1>4
<1>5. CASE Reads(s)
  <2>1. ASSUME NEW v \in Versions, OpenRow(s, v)
        PROVE  ss'[s].pc = "opening" /\ ss'[s].version = v /\ ss'[s].row = plans[v]
               /\ plans' = plans
    BY <1>0, <2>1 DEF OpenRow, Session
  <2>2. ASSUME NEW v \in Versions, ProposeRead(s, v) PROVE ss'[s].pc = "proposing"
    BY <1>0, <2>2 DEF ProposeRead, Session
  <2>3. ASSUME NEW p \in Proposals, DecideRead(s, p) PROVE ss'[s].pc = "deciding"
    BY <1>0, <2>3 DEF DecideRead, Session
  <2>4. CASE OpenContent(s)
    <3>1. /\ ss[s].pc = "opening" /\ ss'[s].pc = "viewing" /\ ss'[s].version = ss[s].version
          /\ ss'[s].row = ss[s].row /\ ss'[s].content = content[ss[s].version]
          /\ plans' = plans /\ content' = content
      BY <1>0, <2>4 DEF OpenContent, Session
    <3> QED BY <1>2, <3>1
  <2>5. CASE ApproveRead(s)
    <3>1. /\ ss[s].pc = "viewing" /\ ss'[s].pc = "approving" /\ ss'[s].version = ss[s].version
          /\ ss'[s].row = ss[s].row /\ ss'[s].content = ss[s].content
          /\ ss'[s].copy = plans[ss[s].version]
          /\ plans' = plans /\ content' = content
      BY <1>0, <2>5 DEF ApproveRead, Session
    <3> QED BY <1>0, <1>1, <1>2, <3>1
  <2> QED BY <1>1, <1>5, <2>1, <2>2, <2>3, <2>4, <2>5 DEF Reads
<1> QED BY <1>3, <1>4, <1>5, SessionNext

Inv == TypeInv /\ VersionInv /\ ReadsInv

\* The invariant holds initially.
LEMMA InvInit == Init => Inv
<1> SUFFICES ASSUME Init PROVE Inv
  OBVIOUS
<1>1. TypeInv
  BY RecordTypes DEF Init, TypeInv, TypeOK, OnVersion, ProposalOnVersion, Closed, NoProposal,
    Session, Proposal
<1>2. VersionInv
  BY DEF Init, VersionInv, NoPlan
<1>3. ReadsInv
  BY DEF Init, ReadsInv, Closed
<1> QED BY <1>1, <1>2, <1>3 DEF Inv

LEMMA InvStep == Inv /\ [Next]_vars => Inv'
<1> SUFFICES ASSUME Inv, [Next]_vars PROVE Inv'
  OBVIOUS
<1>1. CASE Next
  BY <1>1, TypeInvNext, VersionInvNext, ReadsInvNext DEF Inv
<1>2. CASE UNCHANGED vars
  BY <1>2 DEF vars, Inv, TypeInv, TypeOK, OnVersion, ProposalOnVersion, VersionInv, ReadsInv,
    Recorded
<1> QED BY <1>1, <1>2

LEMMA Invariance == Spec => []Inv
BY InvInit, InvStep, PTL DEF Spec

\* Every variable of the lifecycle keeps its type.
THEOREM TypeCorrect == Spec => []TypeOK
<1>1. Inv => TypeOK
  BY DEF Inv, TypeInv
<1> QED BY <1>1, Invariance, PTL

\* A version under review has the hash that _require_unchanged will compute, so a
\* review can always end.
THEOREM ReviewEnds == Spec => []ReviewCanEnd
<1>1. Inv => ReviewCanEnd
  BY DEF Inv, VersionInv, ReviewCanEnd
<1> QED BY <1>1, Invariance, PTL

\* The dates of a plan under review or active are those of its items.
THEOREM DatesHold == Spec => []DatesAreCalculated
<1>1. Inv => DatesAreCalculated
  BY DEF Inv, VersionInv, DatesAreCalculated
<1> QED BY <1>1, Invariance, PTL

-----------------------------------------------------------------------------
(* What a step may never do *)

\* Only an approval makes a version active or ends one.
LEMMA ActiveSet ==
  ASSUME Inv, Next, ~\E s \in Sessions : Approve(s), NEW v \in Versions
  PROVE  plans'[v].state = "active" <=> plans[v].state = "active"
<1>1. VersionStep(v)
  BY VersionsNext DEF Inv, VersionsStep
<1> QED BY <1>1 DEF VersionStep, Same, Created, Revised, Moved, Moves, ByApproval

LEMMA OneActiveStep == Inv /\ OneActive /\ [Next]_vars => OneActive'
<1> SUFFICES ASSUME Inv, OneActive, [Next]_vars PROVE OneActive'
  OBVIOUS
<1>1. ASSUME NEW s \in Sessions, Approve(s), Next PROVE OneActive'
  <2>1. \A u \in Versions \ {ss[s].version} : plans'[u].state # "active"
    BY <1>1, ApprovalStep DEF Inv, Retired, Same
  <2> QED BY <2>1 DEF OneActive
<1>2. CASE Next /\ ~\E s \in Sessions : Approve(s)
  BY <1>2, ActiveSet DEF OneActive
<1>3. CASE UNCHANGED vars
  BY <1>3 DEF vars, OneActive
<1> QED BY <1>1, <1>2, <1>3

\* The project executes one plan.
THEOREM OneActiveHolds == Spec => []OneActive
<1>1. Init => OneActive
  BY DEF Init, OneActive, NoPlan
<1> QED BY <1>1, OneActiveStep, Invariance, PTL DEF Spec

\* A version becomes active by the approval of some session.
LEMMA Activation ==
  ASSUME Inv, Next, NEW v \in Versions, plans'[v].state = "active", plans[v].state # "active"
  PROVE  \E s \in Sessions : Approve(s) /\ ss[s].version = v
<1>1. PICK s \in Sessions : Approve(s)
  BY ActiveSet
<1>2. ss[s].version = v
  BY <1>1, ApprovalStep DEF Inv, Retired, Same
<1> QED BY <1>1, <1>2

\* The version is under review in the database when it becomes active, although the
\* approval looked at attributes it had loaded before its locks.
THEOREM FromReview == Spec => ActivatedFromReview
<1>1. ASSUME Inv, [Next]_vars, NEW v \in Versions,
             plans'[v].state = "active", plans[v].state # "active"
      PROVE  plans[v].state = "under_review"
  <2>1. CASE Next
    <3>1. PICK s \in Sessions : Approve(s) /\ ss[s].version = v
      BY <1>1, <2>1, Activation
    <3> QED BY <1>1, <3>1, ApprovalStep DEF Inv, Activated
  <2>2. CASE UNCHANGED vars
    BY <1>1, <2>2 DEF vars
  <2> QED BY <1>1, <2>1, <2>2
<1>2. Inv /\ [Next]_vars =>
        [\A v \in Versions :
           plans'[v].state = "active" /\ plans[v].state # "active"
             => plans[v].state = "under_review"]_vars
  BY <1>1
<1> QED BY <1>2, Invariance, PTL DEF Spec, ActivatedFromReview

\* The version passes the gate, under the intake of the moment, when it becomes
\* active.
THEOREM PlanPasses == Spec => ActivatedPlanPasses
<1>1. ASSUME Inv, [Next]_vars, NEW v \in Versions,
             plans'[v].state = "active", plans[v].state # "active"
      PROVE  Passes(content[v])
  <2>1. CASE Next
    <3>1. PICK s \in Sessions : Approve(s) /\ ss[s].version = v
      BY <1>1, <2>1, Activation
    <3> QED BY <3>1 DEF Approve, Reviewed
  <2>2. CASE UNCHANGED vars
    BY <1>1, <2>2 DEF vars
  <2> QED BY <1>1, <2>1, <2>2
<1>2. Inv /\ [Next]_vars =>
        [\A v \in Versions :
           plans'[v].state = "active" /\ plans[v].state # "active" => Passes(content[v])]_vars
  BY <1>1
<1> QED BY <1>2, Invariance, PTL DEF Spec, ActivatedPlanPasses

\* Nothing in a version changes once it has left draft.
THEOREM ContentFrozen == Spec => ReviewedContentFrozen
<1>1. ASSUME Inv, [Next]_vars, NEW v \in Versions, plans[v].state \notin {"absent", "draft"}
      PROVE  content'[v] = content[v]
  <2>1. CASE Next
    <3>1. VersionStep(v)
      BY <1>1, <2>1, VersionsNext DEF Inv, VersionsStep
    <3> QED BY <1>1, <3>1 DEF VersionStep, Same, Created, Revised, Moved, ByApproval, Activated,
          Retired
  <2>2. CASE UNCHANGED vars
    BY <2>2 DEF vars
  <2> QED BY <1>1, <2>1, <2>2
<1>2. Inv /\ [Next]_vars =>
        [\A v \in Versions :
           plans[v].state \notin {"absent", "draft"} => content'[v] = content[v]]_vars
  BY <1>1
<1> QED BY <1>2, Invariance, PTL DEF Spec, ReviewedContentFrozen

\* A reader's request takes effect only on the content the reader was shown.
THEOREM NoUpdateIsLost == Spec => NoLostUpdate
<1>1. ASSUME Inv, [Next]_vars, NEW s \in Sessions,
             ss[s].pc = "viewing", ss'[s].pc = "closed", plans' # plans
      PROVE  ss[s].content = content[ss[s].version]
  <2>0. ss \in [Sessions -> Session]
    BY <1>1 DEF Inv, TypeInv, TypeOK, Session
  <2>1. CASE Next
    <3>1. PICK t \in Sessions : SessionStep(t)
      BY <1>1, <2>1 DEF Next, ProjectUpdate, ProjectArchive, PersistDraft
    <3>2. CASE t = s
      <4>1. RequireVersion(s)
        BY <1>1, <3>1, <3>2 DEF SessionStep, OpenRow, ProposeRead, Propose, DecideRead, OpenContent,
          Leave, Edit, Validate, SubmitReview, Archive, RequestChanges, ApproveRead, Approve,
          DecideApprove, DecideReject, DecideStale, Decidable, Request, MutableDraft
      <4> QED BY <1>1, <4>1 DEF Inv, ReadsInv, RequireVersion
    <3>3. CASE t # s
      <4>1. CASE Reads(t)
        BY <1>1, <4>1 DEF Reads, OpenRow, ProposeRead, DecideRead, OpenContent, ApproveRead
      <4>2. CASE ~Reads(t)
        <5>1. ss' = [ss EXCEPT ![t] = Closed]
          BY <3>1, <4>2 DEF Reads, SessionStep, Propose, Leave, Edit, Validate, SubmitReview,
            Archive, RequestChanges, Approve, DecideApprove, DecideReject, DecideStale, Decide,
            Request, MutableDraft
        <5> QED BY <1>1, <2>0, <3>3, <5>1
      <4> QED BY <4>1, <4>2
    <3> QED BY <3>2, <3>3
  <2>2. CASE UNCHANGED vars
    BY <1>1, <2>2 DEF vars
  <2> QED BY <1>1, <2>1, <2>2
<1>2. Inv /\ [Next]_vars =>
        [\A s \in Sessions :
           ss[s].pc = "viewing" /\ ss'[s].pc = "closed" /\ plans' # plans
             => ss[s].content = content[ss[s].version]]_vars
  BY <1>1
<1> QED BY <1>2, Invariance, PTL DEF Spec, NoLostUpdate

\* A decided proposal stays as it was decided.
THEOREM DecidedOnceHolds == Spec => DecidedOnce
<1>1. ASSUME Inv, [Next]_vars, NEW p \in Proposals,
             proposals[p].status \in {"approved", "rejected", "stale"}
      PROVE  proposals'[p] = proposals[p]
  <2>1. CASE Next
    <3>1. ProposalStep(p)
      BY <1>1, <2>1, ProposalsNext DEF Inv
    <3> QED BY <1>1, <3>1 DEF ProposalStep
  <2>2. CASE UNCHANGED vars
    BY <2>2 DEF vars
  <2> QED BY <1>1, <2>1, <2>2
<1>2. Inv /\ [Next]_vars =>
        [\A p \in Proposals :
           proposals[p].status \in {"approved", "rejected", "stale"}
             => proposals'[p] = proposals[p]]_vars
  BY <1>1
<1> QED BY <1>2, Invariance, PTL DEF Spec, DecidedOnce

\* An approved regeneration finds the content its hash was recorded of.
THEOREM OnItsBaseline == Spec => RegeneratedOnBaseline
<1>1. ASSUME Inv, [Next]_vars, NEW p \in Proposals,
             proposals[p].status = "pending", proposals'[p].status = "approved"
      PROVE  content[proposals[p].version] = proposals[p].hash.of
  <2>0. proposals \in [Proposals -> Proposal]
    BY <1>1 DEF Inv, TypeInv, TypeOK, Proposal
  <2>1. CASE Next
    <3>1. PICK s \in Sessions : SessionStep(s) /\ proposals' # proposals
      BY <1>1, <2>1 DEF Next, ProjectUpdate, ProjectArchive, PersistDraft
    <3>2. CASE \E q \in Proposals : Propose(s, q)
      BY <1>1, <2>0, <3>2 DEF Propose
    <3>3. CASE DecideApprove(s)
      <4>1. /\ ss[s].proposal \in Proposals
            /\ proposals[ss[s].proposal].version = ss[s].version
            /\ ss[s].version \in Versions
            /\ proposals' = [proposals EXCEPT ![ss[s].proposal].status = "approved"]
            /\ plans[ss[s].version].hash = proposals[ss[s].proposal].hash
        BY <1>1, <3>3 DEF DecideApprove, Decidable, Decide, OnBaseline, Inv, TypeInv, OnVersion
      <4>2. ss[s].proposal = p
        BY <1>1, <2>0, <4>1
      <4> QED BY <1>1, <4>1, <4>2 DEF Inv, VersionInv
    <3>4. CASE DecideReject(s) \/ DecideStale(s)
      <4>1. PICK st \in {"rejected", "stale"} :
              proposals' = [proposals EXCEPT ![ss[s].proposal].status = st]
        BY <3>4 DEF DecideReject, DecideStale, Decide
      <4> QED BY <1>1, <2>0, <4>1 DEF Proposal
    <3> QED BY <3>1, <3>2, <3>3, <3>4 DEF SessionStep, OpenRow, ProposeRead, DecideRead,
          OpenContent, Leave, Edit, Validate, SubmitReview, Archive, RequestChanges, ApproveRead,
          Approve
  <2>2. CASE UNCHANGED vars
    BY <1>1, <2>2 DEF vars
  <2> QED BY <1>1, <2>1, <2>2
<1>2. Inv /\ [Next]_vars =>
        [\A p \in Proposals :
           proposals[p].status = "pending" /\ proposals'[p].status = "approved"
             => content[proposals[p].version] = proposals[p].hash.of]_vars
  BY <1>1
<1> QED BY <1>2, Invariance, PTL DEF Spec, RegeneratedOnBaseline

-----------------------------------------------------------------------------
(* The approved baseline *)

\* Only an approval adds an approving decision.
LEMMA ApprovalsNext ==
  ASSUME Next
  PROVE  /\ approvals \subseteq approvals'
         /\ \A a \in approvals' \ approvals :
              a.decision = "approved" =>
                \E s \in Sessions : Approve(s) /\ a = Decision(s, "approved")
<1>1. CASE ProjectUpdate \/ ProjectArchive \/ \E v \in Versions : PersistDraft(v)
  BY <1>1 DEF ProjectUpdate, ProjectArchive, PersistDraft
<1>2. ASSUME NEW s \in Sessions, SessionStep(s)
      PROVE  /\ approvals \subseteq approvals'
             /\ \A a \in approvals' \ approvals :
                  a.decision = "approved" =>
                    \E t \in Sessions : Approve(t) /\ a = Decision(t, "approved")
  <2>1. CASE RequestChanges(s)
    BY <2>1 DEF RequestChanges, Decision
  <2>2. CASE Approve(s)
    <3>1. approvals' = approvals \cup {Decision(s, "approved")}
      BY <2>2 DEF Approve
    <3> QED BY <2>2, <3>1
  <2>3. CASE ~(RequestChanges(s) \/ Approve(s))
    BY <1>2, <2>3 DEF SessionStep, OpenRow, ProposeRead, Propose, DecideRead, OpenContent,
      Leave, Edit, Validate, SubmitReview, Archive, ApproveRead, DecideApprove, DecideReject,
      DecideStale
  <2> QED BY <2>1, <2>2, <2>3
<1> QED BY <1>1, <1>2 DEF Next

\* An approved version never is a draft again, and has a content.
ApprovedInv ==
  \A v \in Versions :
    Approved(v) => /\ plans[v].state \in {"active", "superseded", "archived"}
                   /\ content[v] # NoContent

BaselineInv == Inv /\ OneActive /\ ActiveWasShown /\ ApprovedInv

LEMMA BaselineInvInit == Init => BaselineInv
BY InvInit DEF Init, BaselineInv, OneActive, ActiveWasShown, ApprovedInv, Approved, NoPlan

LEMMA ActiveWasShownStep ==
  ASSUME Inv, ActiveWasShown, Next
  PROVE  ActiveWasShown'
<1> SUFFICES ASSUME NEW v \in Versions, plans'[v].state \in {"active", "superseded"}
             PROVE  \E a \in approvals' : /\ a.version = v /\ a.decision = "approved"
                                          /\ a.shown = content'[v]
                                          /\ a.hash = Recorded(content'[v])
  BY DEF ActiveWasShown, Recorded
<1>1. VersionStep(v)
  BY VersionsNext DEF Inv, VersionsStep
<1>2. CASE plans[v].state \in {"active", "superseded"}
  <2>1. content'[v] = content[v]
    BY <1>1, <1>2 DEF VersionStep, Same, Created, Revised, Moved, ByApproval, Activated, Retired
  <2>2. PICK a \in approvals : /\ a.version = v /\ a.decision = "approved"
                               /\ a.shown = content[v] /\ a.hash = Recorded(content[v])
    BY <1>2 DEF ActiveWasShown
  <2> QED BY <2>1, <2>2, ApprovalsNext
<1>3. CASE plans[v].state \notin {"active", "superseded"}
  <2>1. plans'[v].state = "active"
    BY <1>1, <1>3 DEF VersionStep, Same, Created, Revised, Moved, Moves, ByApproval, Activated,
      Retired
  <2>2. PICK s \in Sessions : Approve(s) /\ ss[s].version = v
    BY <1>3, <2>1, Activation
  <2>3. /\ content' = content /\ plans[v].hash = Recorded(content[v])
        /\ ss[s].content = content[v]
    BY <2>2, ApprovalStep DEF Inv
  <2>4. Decision(s, "approved") \in approvals'
    BY <2>2 DEF Approve
  <2> QED BY <2>2, <2>3, <2>4 DEF Decision
<1> QED BY <1>2, <1>3

LEMMA ApprovedInvStep ==
  ASSUME Inv, ApprovedInv, Next
  PROVE  ApprovedInv'
<1> SUFFICES ASSUME NEW v \in Versions, Approved(v)'
             PROVE  /\ plans'[v].state \in {"active", "superseded", "archived"}
                    /\ content'[v] # NoContent
  BY DEF ApprovedInv
<1>1. VersionStep(v)
  BY VersionsNext DEF Inv, VersionsStep
<1>2. CASE Approved(v)
  <2>1. plans[v].state \in {"active", "superseded", "archived"} /\ content[v] # NoContent
    BY <1>2 DEF ApprovedInv
  <2> QED BY <1>1, <2>1 DEF VersionStep, Same, Created, Revised, Moved, Moves, ByApproval,
        Activated, Retired
<1>3. CASE ~Approved(v)
  <2>1. PICK a \in approvals' \ approvals : a.version = v /\ a.decision = "approved"
    BY <1>3 DEF Approved
  <2>2. PICK s \in Sessions : Approve(s) /\ a = Decision(s, "approved")
    BY <2>1, ApprovalsNext
  <2>3. ss[s].version = v
    BY <2>1, <2>2 DEF Decision
  <2>4. plans'[v].state = "active" /\ content' = content /\ content[v] \in Content
    BY <2>2, <2>3, ApprovalStep DEF Inv, Activated
  <2>5. content[v].body # None
    <3>1. <<content[v].body, project.facts>> \in Sound
      BY <2>2, <2>3 DEF Approve, Reviewed, Passes
    <3> QED BY <3>1, SoundAssumption, NoneAssumption
  <2> QED BY <2>4, <2>5 DEF NoContent
<1> QED BY <1>2, <1>3

LEMMA BaselineInvStep == BaselineInv /\ [Next]_vars => BaselineInv'
<1> SUFFICES ASSUME BaselineInv, [Next]_vars PROVE BaselineInv'
  OBVIOUS
<1>1. Inv' /\ OneActive'
  BY InvStep, OneActiveStep DEF BaselineInv
<1>2. CASE Next
  BY <1>1, <1>2, ActiveWasShownStep, ApprovedInvStep DEF BaselineInv
<1>3. CASE UNCHANGED vars
  BY <1>1, <1>3 DEF vars, BaselineInv, ActiveWasShown, ApprovedInv, Approved, Recorded
<1> QED BY <1>2, <1>3

LEMMA BaselineInvariance == Spec => []BaselineInv
BY BaselineInvInit, BaselineInvStep, PTL DEF Spec

\* What is active, or was, is what was on the screen of the reader who approved it.
THEOREM ShownIsActive == Spec => []ActiveWasShown
<1>1. BaselineInv => ActiveWasShown
  BY DEF BaselineInv
<1> QED BY <1>1, BaselineInvariance, PTL

\* The active version is the current one.
LEMMA CurrentIsActive ==
  ASSUME OneActive, NEW v \in Versions, plans[v].state = "active"
  PROVE  current = v
<1>1. \A u \in Versions : plans[u].state = "active" => u = v
  BY DEF OneActive
<1> QED BY <1>1 DEF current

LEMMA NextCurrent ==
  ASSUME OneActive', NEW v \in Versions, plans'[v].state = "active"
  PROVE  current' = v
<1>1. \A u \in Versions : plans'[u].state = "active" => u = v
  BY DEF OneActive
<1> QED BY <1>1 DEF current

\* An approval activates its version; every other step leaves the baseline and the
\* current version as they are.
LEMMA ApprovalActivates ==
  ASSUME BaselineInv, BaselineInv', Next, NEW s \in Sessions, Approve(s),
         NEW v \in Versions, ss[s].version = v
  PROVE  Baseline!Activate(v)
<1>1. /\ content' = content /\ content[v] \in Content
      /\ plans[v].state = "under_review" /\ plans'[v].state = "active"
  BY ApprovalStep DEF BaselineInv, Inv, Activated
<1>2. current' = v
  BY <1>1, NextCurrent DEF BaselineInv
<1>3. ~Approved(v)
  BY <1>1 DEF BaselineInv, ApprovedInv
<1>4. Approved(v)'
  <2>1. Decision(s, "approved") \in approvals'
    BY DEF Approve
  <2> QED BY <2>1 DEF Approved, Decision
<1>5. \A u \in Versions \ {v} : Approved(u)' <=> Approved(u)
  <2>1. approvals' = approvals \cup {Decision(s, "approved")}
    BY DEF Approve
  <2> QED BY <2>1 DEF Approved, Decision
<1>6. content[v] # NoContent
  BY <1>1, <1>4 DEF BaselineInv, ApprovedInv
<1>7. baseline[v] = NoContent
  BY <1>1, <1>3 DEF baseline
<1>8. baseline' = [baseline EXCEPT ![v] = content[v]]
  BY <1>1, <1>4, <1>5 DEF baseline
<1> QED BY <1>1, <1>2, <1>6, <1>7, <1>8 DEF Baseline!Activate

LEMMA OtherStepsStutter ==
  ASSUME BaselineInv, BaselineInv', Next, ~\E s \in Sessions : Approve(s)
  PROVE  UNCHANGED <<baseline, current>>
<1>1. \A v \in Versions : Approved(v)' <=> Approved(v)
  BY ApprovalsNext DEF Approved
<1>2. ASSUME NEW v \in Versions, Approved(v) PROVE content'[v] = content[v]
  <2>1. plans[v].state \in {"active", "superseded", "archived"} /\ VersionStep(v)
    BY <1>2, VersionsNext DEF BaselineInv, ApprovedInv, Inv, VersionsStep
  <2> QED BY <2>1 DEF VersionStep, Same, Created, Revised, Moved, ByApproval, Activated, Retired
<1>3. baseline' = baseline
  BY <1>1, <1>2 DEF baseline
<1>4. \A v \in Versions : plans'[v].state = "active" <=> plans[v].state = "active"
  BY ActiveSet DEF BaselineInv
<1>5. current' = current
  <2>1. CASE \E v \in Versions : plans[v].state = "active"
    BY <1>4, <2>1, CurrentIsActive, NextCurrent DEF BaselineInv
  <2>2. CASE ~\E v \in Versions : plans[v].state = "active"
    BY <1>4, <2>2 DEF current
  <2> QED BY <2>1, <2>2
<1> QED BY <1>3, <1>5

\* PlanLifecycle implements ApprovedBaseline: what execution and monitoring read of
\* an approved plan never changes, and one plan is current at a time.
THEOREM Refinement == Spec => BaselineHolds
<1>1. Init => Baseline!Init
  <2>1. Init => baseline = [v \in Versions |-> NoContent]
    BY DEF Init, baseline, Approved
  <2>2. Init => current = None
    BY DEF Init, current, NoPlan
  <2> QED BY <2>1, <2>2 DEF Baseline!Init
<1>2. BaselineInv /\ BaselineInv' /\ [Next]_vars => [Baseline!Next]_<<baseline, current>>
  <2> SUFFICES ASSUME BaselineInv, BaselineInv', [Next]_vars
               PROVE  [Baseline!Next]_<<baseline, current>>
    OBVIOUS
  <2>1. ASSUME NEW s \in Sessions, Approve(s), Next PROVE Baseline!Next
    <3>1. ss[s].version \in Versions
      BY <2>1, ApprovalStep DEF BaselineInv, Inv
    <3> QED BY <2>1, <3>1, ApprovalActivates DEF Baseline!Next
  <2>2. CASE Next /\ ~\E s \in Sessions : Approve(s)
    BY <2>2, OtherStepsStutter
  <2>3. CASE UNCHANGED vars
    BY <2>3 DEF vars, baseline, current, Approved
  <2> QED BY <2>1, <2>2, <2>3
<1> QED BY <1>1, <1>2, BaselineInvariance, PTL DEF Spec, BaselineHolds, Baseline!Spec

=============================================================================
