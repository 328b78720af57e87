----------------------------- MODULE Governance -----------------------------
(***************************************************************************)
(* The investment-proposal workflow of app/governance/service.py, on one   *)
(* proposal, with the database that several SQLAlchemy sessions share.     *)
(*                                                                         *)
(* Every command of ProposalService has two halves with a gap between      *)
(* them.  The first half reads: it takes the proposal from the session's   *)
(* identity map (_proposal, app/db.py: expire_on_commit=False, so a copy   *)
(* loaded once is kept), checks the actor, the status and the evidence.    *)
(* The second half writes: _advance compares the row version of the        *)
(* database row with the version the caller supplied, and the flush and    *)
(* commit follow while the row is locked.  Other sessions may commit in    *)
(* the gap, and the copy may have been stale from the start.               *)
(*                                                                         *)
(* A proposal's commands touch no other proposal's rows, so one proposal   *)
(* is enough.  Titles, lines and comments are not modelled: a content      *)
(* version is its portfolio cutoff, and "evidence" is a risk evaluation    *)
(* with its optional scenario run.                                         *)
(***************************************************************************)
EXTENDS Naturals, Sequences

CONSTANTS
    User,           \* users of the fund
    RolesOf,        \* RolesOf[u]: the role codes user u holds (none if inactive)
    Session,        \* SQLAlchemy sessions
    Cutoff,         \* valuation cutoffs (portfolio_as_of)
    Evidence,       \* risk evaluations, each with its optional scenario run
    EvidenceCutoff, \* EvidenceCutoff[e]: the as_of of evidence e
    Clear,          \* evidence with policy results and no blocker among them
    None,           \* no user, no cutoff, no evidence
    MaxRow,         \* bound: row versions of the proposal
    MaxTime,        \* bound: distinct values of occurred_at
    MaxAnalysis     \* bound: ids drawn for analyses

Role == {"advisor", "analyst", "manager"}

ASSUME RolesAssumption == RolesOf \in [User -> SUBSET Role]
ASSUME EvidenceAssumption == EvidenceCutoff \in [Evidence -> Cutoff] /\ Clear \subseteq Evidence
ASSUME NoneAssumption == None \notin User \cup Cutoff \cup Evidence
ASSUME BoundAssumption == MaxRow \in Nat /\ MaxTime \in Nat /\ MaxAnalysis \in Nat

VARIABLES
    proposal,       \* the committed row of investment_proposals
    versions,       \* proposal_versions, in order of their version number
    analyses,       \* proposal_analyses
    reviews,        \* proposal_reviews
    transitions,    \* proposal_transitions, in order of commit
    cached,         \* cached[s]: the copy in the identity map of session s
    pending         \* pending[s]: the command between its reads and its write

database == <<proposal, versions, analyses, reviews, transitions>>
vars == <<proposal, versions, analyses, reviews, transitions, cached, pending>>

-----------------------------------------------------------------------------
(* Workflow vocabulary.                                                    *)

Status == {"ABSENT", "DRAFT", "SUBMITTED", "UNDER_REVIEW", "CHANGES_REQUESTED",
           "APPROVED", "REJECTED", "WITHDRAWN"}

Action == {"CREATED", "REVISED", "ANALYZED", "SUBMITTED", "REVIEW_STARTED",
           "REVIEW_RECORDED", "CHANGES_REQUESTED", "APPROVED", "REJECTED", "WITHDRAWN"}

\* A permission is named after the action it allows.
RolePermissions ==
    [analyst |-> {"CREATED", "REVISED", "ANALYZED", "SUBMITTED", "WITHDRAWN"},
     manager |-> {"ANALYZED", "REVIEW_STARTED", "REVIEW_RECORDED",
                  "CHANGES_REQUESTED", "APPROVED", "REJECTED"},
     advisor |-> {"REVIEW_RECORDED", "CHANGES_REQUESTED"}]

AuthorizedRoles(u, action) == {r \in RolesOf[u] : action \in RolePermissions[r]}

\* The role a transition records: the first authorized one by name.
AuthorizedRole(u, action) ==
    IF "advisor" \in AuthorizedRoles(u, action) THEN "advisor"
    ELSE IF "analyst" \in AuthorizedRoles(u, action) THEN "analyst"
    ELSE "manager"

\* The statuses each command accepts.
AllowedFrom ==
    [REVISED           |-> {"DRAFT", "CHANGES_REQUESTED"},
     ANALYZED          |-> {"DRAFT"},
     SUBMITTED         |-> {"DRAFT"},
     REVIEW_STARTED    |-> {"SUBMITTED"},
     REVIEW_RECORDED   |-> {"SUBMITTED", "UNDER_REVIEW"},
     CHANGES_REQUESTED |-> {"SUBMITTED", "UNDER_REVIEW"},
     APPROVED          |-> {"UNDER_REVIEW"},
     REJECTED          |-> {"UNDER_REVIEW"},
     WITHDRAWN         |-> {"DRAFT", "SUBMITTED", "CHANGES_REQUESTED"}]

Command == Action \ {"CREATED"}

NoRow == [status |-> "ABSENT", current |-> 0, row |-> 0, updated |-> 0, creator |-> None]

NoCommand ==
    [action |-> "NONE", actor |-> None, expected |-> 0, at |-> 0, to |-> "ABSENT",
     cutoff |-> None, evidence |-> None, analysis |-> 0]

Init ==
    /\ proposal = NoRow
    /\ versions = <<>>
    /\ analyses = {}
    /\ reviews = {}
    /\ transitions = <<>>
    /\ cached = [s \in Session |-> NoRow]
    /\ pending = [s \in Session |-> NoCommand]

-----------------------------------------------------------------------------
(* The session's copy of the row, and the reads and checks of a command.   *)

Idle(s) == pending[s].action = "NONE"

\* _proposal (session.get): the first command of a session that names the
\* proposal loads the row; later ones find the copy.  A command that is then
\* refused leaves nothing but the copy.
Load(s) ==
    /\ Idle(s)
    /\ proposal.status # "ABSENT"
    /\ cached[s] = NoRow
    /\ cached' = [cached EXCEPT ![s] = proposal]
    /\ UNCHANGED <<proposal, versions, analyses, reviews, transitions, pending>>

IsOwner(s, u) == u = cached[s].creator

\* Mutant of MayDecide: the author check of approve and reject is missing.
AnyoneDecides(s, u) == u \in User

\* approve and prevent_self_decision: the author never decides.
MayDecide(s, u) == u # cached[s].creator

\* What every command checks on the copy: the actor's role, the status and,
\* as _advance begins, that occurred_at does not precede the prior transition.
Admissible(s, u, action, at) ==
    /\ Idle(s)
    /\ cached[s].status # "ABSENT"
    /\ AuthorizedRoles(u, action) # {}
    /\ cached[s].status \in AllowedFrom[action]
    /\ at >= cached[s].updated

\* Mutant of Precedes: the oldest evidence is taken (asc for desc).
PrecededBy(a, b) == a.at > b.at \/ (a.at = b.at /\ a.id >= b.id)

\* order_by(recorded_at.desc(), id.desc()): b is taken before a.
Precedes(a, b) == a.at < b.at \/ (a.at = b.at /\ a.id <= b.id)

\* Mutant of AnalysesOf: evidence of superseded versions is inherited.
InheritedAnalyses(version) == {a \in analyses : a.version <= version}

AnalysesOf(version) == {a \in analyses : a.version = version}

\* The analysis _required_clear_analysis selects for a version.
IsLatest(a, version) ==
    /\ a \in AnalysesOf(version)
    /\ \A b \in AnalysesOf(version) : Precedes(b, a)

IsClear(a) == a.evidence \in Clear

\* Mutant of HasReview: approval does not ask for review history.
NoReviewNeeded(version) == version > 0

HasReview(version) == \E r \in reviews : r.version = version

\* The command's reads are done: it carries on to its write.
Begin(s, u, e, at, action, to, cutoff, evidence, analysis) ==
    /\ pending' = [pending EXCEPT ![s] =
         [action |-> action, actor |-> u, expected |-> e, at |-> at, to |-> to,
          cutoff |-> cutoff, evidence |-> evidence, analysis |-> analysis]]
    /\ UNCHANGED <<proposal, versions, analyses, reviews, transitions, cached>>

Revise(s, u, e, at) ==
    /\ Admissible(s, u, "REVISED", at)
    /\ IsOwner(s, u)
    /\ \E c \in Cutoff : Begin(s, u, e, at, "REVISED", "DRAFT", c, None, 0)

\* Evidence already bound to the version is returned and nothing is written.
RecordAnalysis(s, u, e, at) ==
    /\ Admissible(s, u, "ANALYZED", at)
    /\ \E x \in Evidence :
         /\ EvidenceCutoff[x] = versions[cached[s].current].cutoff
         /\ \A a \in AnalysesOf(cached[s].current) : a.evidence # x
         /\ Begin(s, u, e, at, "ANALYZED", "DRAFT", None, x, 0)

Submit(s, u, e, at) ==
    /\ Admissible(s, u, "SUBMITTED", at)
    /\ IsOwner(s, u)
    /\ \E a \in analyses :
         /\ IsLatest(a, cached[s].current)
         /\ IsClear(a)
         /\ Begin(s, u, e, at, "SUBMITTED", "SUBMITTED", None, None, a.id)

RecordReview(s, u, e, at) ==
    /\ Admissible(s, u, "REVIEW_RECORDED", at)
    /\ Begin(s, u, e, at, "REVIEW_RECORDED", cached[s].status, None, None, 0)

Approve(s, u, e, at) ==
    /\ Admissible(s, u, "APPROVED", at)
    /\ MayDecide(s, u)
    /\ HasReview(cached[s].current)
    /\ \E a \in analyses :
         /\ IsLatest(a, cached[s].current)
         /\ IsClear(a)
         /\ Begin(s, u, e, at, "APPROVED", "APPROVED", None, None, a.id)

\* _status_transition, the shared body of four commands.
StatusTransition(s, u, e, at, action, to) ==
    /\ Admissible(s, u, action, at)
    /\ Begin(s, u, e, at, action, to, None, None, 0)

StartReview(s, u, e, at) ==
    StatusTransition(s, u, e, at, "REVIEW_STARTED", "UNDER_REVIEW")

RequestChanges(s, u, e, at) ==
    StatusTransition(s, u, e, at, "CHANGES_REQUESTED", "CHANGES_REQUESTED")

Reject(s, u, e, at) ==
    /\ MayDecide(s, u)
    /\ StatusTransition(s, u, e, at, "REJECTED", "REJECTED")

Withdraw(s, u, e, at) ==
    /\ IsOwner(s, u)
    /\ StatusTransition(s, u, e, at, "WITHDRAWN", "WITHDRAWN")

-----------------------------------------------------------------------------
(* The write: _advance, the flush under the database's triggers, commit.   *)

\* The row _advance leaves, in its UPDATE and in the attributes it assigns.
Advanced(s) ==
    [status  |-> pending[s].to,
     current |-> IF pending[s].action = "REVISED" THEN cached[s].current + 1
                 ELSE cached[s].current,
     row     |-> pending[s].expected + 1,
     updated |-> pending[s].at,
     creator |-> proposal.creator]

\* Mutant of ProtectProposalIdentity: the trigger does not count row versions.
ProtectCreatorOnly(old, new) == new.creator = old.creator

\* The trigger investment_proposals_controlled_update.
ProtectProposalIdentity(old, new) ==
    /\ new.creator = old.creator
    /\ new.current >= old.current
    /\ new.row = old.row + 1

\* Mutant of WriteAccepted: the ORM brings every copy in line, stale or not.
StaleCopyAccepted(s) ==
    /\ proposal.row = pending[s].expected
    /\ ProtectProposalIdentity(proposal, Advanced(s))

\* The UPDATE of _advance matches a row iff its version is the expected one.
\* The ORM brings a copy at that version in line with the UPDATE.  A copy at
\* another version stays as it was, so the assignments that follow make it
\* dirty and the flush sends a second UPDATE with the same values.
WriteAccepted(s) ==
    /\ proposal.row = pending[s].expected
    /\ ProtectProposalIdentity(proposal, Advanced(s))
    /\ cached[s].row # pending[s].expected =>
           ProtectProposalIdentity(Advanced(s), Advanced(s))

\* Mutants of RecordedFrom: the status is read back after _advance set it; the
\* action is passed where the status belongs.
RecordedAfter(s) == pending[s].to
RecordedAction(s) == pending[s].action

\* The from_status a transition records: read from the copy before _advance.
RecordedFrom(s) == cached[s].status

\* _history: one transition (and one audit event beside it) for each command.
History(s, version, analysis) ==
    transitions' = Append(transitions,
        [action |-> pending[s].action, from |-> RecordedFrom(s), to |-> pending[s].to,
         actor |-> pending[s].actor,
         role |-> AuthorizedRole(pending[s].actor, pending[s].action),
         version |-> version, at |-> pending[s].at, row |-> Advanced(s).row,
         analysis |-> analysis])

\* What every write does: the row, the session's copy of it, and the end of
\* the command.
Advance(s) ==
    /\ WriteAccepted(s)
    /\ proposal' = Advanced(s)
    /\ cached' = [cached EXCEPT ![s] = Advanced(s)]
    /\ pending' = [pending EXCEPT ![s] = NoCommand]

CommitRevision(s) ==
    /\ pending[s].action = "REVISED"
    /\ Advance(s)
    /\ versions' = Append(versions,
           [cutoff |-> pending[s].cutoff, supersedes |-> cached[s].current])
    /\ History(s, cached[s].current + 1, 0)
    /\ UNCHANGED <<analyses, reviews>>

\* The id is a random UUID: its place among the others is arbitrary.
CommitAnalysis(s) ==
    /\ pending[s].action = "ANALYZED"
    /\ Advance(s)
    /\ \E id \in 1..MaxAnalysis \ {a.id : a \in analyses} :
         /\ analyses' = analyses \cup
                {[id |-> id, version |-> cached[s].current,
                  evidence |-> pending[s].evidence, at |-> pending[s].at]}
         /\ History(s, cached[s].current, id)
    /\ UNCHANGED <<versions, reviews>>

CommitReview(s) ==
    /\ pending[s].action = "REVIEW_RECORDED"
    /\ Advance(s)
    /\ reviews' = reviews \cup
           {[version |-> cached[s].current, reviewer |-> pending[s].actor]}
    /\ History(s, cached[s].current, 0)
    /\ UNCHANGED <<versions, analyses>>

CommitStatus(s) ==
    /\ pending[s].action \in {"SUBMITTED", "REVIEW_STARTED", "CHANGES_REQUESTED",
                              "APPROVED", "REJECTED", "WITHDRAWN"}
    /\ Advance(s)
    /\ History(s, cached[s].current, pending[s].analysis)
    /\ UNCHANGED <<versions, analyses, reviews>>

\* ConcurrentProposalUpdate, or the trigger's exception: the transaction is
\* rolled back, which also expires the copy.
Conflict(s) ==
    /\ ~Idle(s)
    /\ ~WriteAccepted(s)
    /\ cached' = [cached EXCEPT ![s] = NoRow]
    /\ pending' = [pending EXCEPT ![s] = NoCommand]
    /\ UNCHANGED database

\* The session ends, or its process dies before the commit.
Close(s) ==
    /\ cached[s] # NoRow
    /\ cached' = [cached EXCEPT ![s] = NoRow]
    /\ pending' = [pending EXCEPT ![s] = NoCommand]
    /\ UNCHANGED database

\* create: the row, its first version and its first transition in one commit.
Create(s, u, at) ==
    /\ Idle(s)
    /\ proposal.status = "ABSENT"
    /\ AuthorizedRoles(u, "CREATED") # {}
    /\ proposal' = [status |-> "DRAFT", current |-> 1, row |-> 1, updated |-> at, creator |-> u]
    /\ cached' = [cached EXCEPT ![s] = proposal']
    /\ \E c \in Cutoff : versions' = <<[cutoff |-> c, supersedes |-> 0]>>
    /\ transitions' =
           <<[action |-> "CREATED", from |-> "ABSENT", to |-> "DRAFT", actor |-> u,
              role |-> AuthorizedRole(u, "CREATED"), version |-> 1, at |-> at, row |-> 1,
              analysis |-> 0]>>
    /\ UNCHANGED <<analyses, reviews, pending>>

\* The row version a caller supplies: one the proposal has had, from the one
\* the session's copy shows to the newest (the caller may have read it through
\* another session), within the bound.  An older one meets the same Conflict as
\* one that is overtaken before the write.
Offered(s) == {e \in cached[s].row..proposal.row : e < MaxRow}

Read(s) ==
    \/ Load(s)
    \/ \E u \in User, e \in Offered(s), at \in 1..MaxTime :
         \/ Revise(s, u, e, at)
         \/ RecordAnalysis(s, u, e, at)
         \/ Submit(s, u, e, at)
         \/ StartReview(s, u, e, at)
         \/ RecordReview(s, u, e, at)
         \/ RequestChanges(s, u, e, at)
         \/ Approve(s, u, e, at)
         \/ Reject(s, u, e, at)
         \/ Withdraw(s, u, e, at)

Write(s) ==
    \/ CommitRevision(s)
    \/ CommitAnalysis(s)
    \/ CommitReview(s)
    \/ CommitStatus(s)
    \/ \E u \in User, at \in 1..MaxTime : Create(s, u, at)

Next == \E s \in Session : Read(s) \/ Write(s) \/ Conflict(s) \/ Close(s)

Spec == Init /\ [][Next]_vars

-----------------------------------------------------------------------------
(* Properties.                                                             *)

Row == [status : Status, current : Nat, row : Nat, updated : Nat, creator : User \cup {None}]

Version == [cutoff : Cutoff, supersedes : Nat]

Analysis == [id : Nat, version : Nat, evidence : Evidence, at : Nat]

Review == [version : Nat, reviewer : User]

Transition ==
    [action : Action, from : Status, to : Status, actor : User, role : Role,
     version : Nat, at : Nat, row : Nat, analysis : Nat]

PendingCommand ==
    {c \in [action : Command, actor : User, expected : Nat, at : Nat, to : Status,
            cutoff : Cutoff \cup {None}, evidence : Evidence \cup {None}, analysis : Nat] :
        /\ c.action = "REVISED" => c.cutoff \in Cutoff
        /\ c.action = "ANALYZED" => c.evidence \in Evidence}

\* The type of every variable; the only one of these properties that is
\* about types.
TypeOK ==
    /\ proposal \in Row
    /\ versions \in Seq(Version)
    /\ analyses \subseteq Analysis
    /\ reviews \subseteq Review
    /\ transitions \in Seq(Transition)
    /\ cached \in [Session -> Row]
    /\ pending \in [Session -> PendingCommand \cup {NoCommand}]

\* "The complete approval history can be reconstructed" (ADR 0016): the
\* transitions number the row versions without gap or repetition, each starts
\* where and not before the one before it ended, content versions advance by
\* revisions alone, and the last transition tells the state of the row.
HistoryChain ==
    /\ Len(transitions) = proposal.row
    /\ Len(versions) = proposal.current
    /\ \A i \in 1..Len(versions) : versions[i].supersedes = i - 1
    /\ \A i \in 1..Len(transitions) :
         LET this == transitions[i] IN
         /\ this.row = i
         /\ i = 1 => this.action = "CREATED" /\ this.from = "ABSENT" /\ this.version = 1
         /\ i > 1 => LET prior == transitions[i - 1] IN
                     /\ this.from = prior.to
                     /\ this.at >= prior.at
                     /\ this.version = prior.version + (IF this.action = "REVISED" THEN 1 ELSE 0)
         /\ i = Len(transitions) =>
                     /\ this.to = proposal.status
                     /\ this.at = proposal.updated
                     /\ this.version = proposal.current

\* A proposal's author never approves or rejects it, whatever other roles the
\* author holds, and nobody but a manager does (ADR 0017).
SeparationOfDuties ==
    \A i \in 1..Len(transitions) :
        transitions[i].action \in {"APPROVED", "REJECTED"} =>
            /\ transitions[i].actor # proposal.creator
            /\ transitions[i].role = "manager"

\* The transitions that submitted the current version.
Submissions ==
    {t \in {transitions[i] : i \in 1..Len(transitions)} :
        t.action = "SUBMITTED" /\ t.version = proposal.current}

\* From its submission on, the current version has the evidence its submission
\* cited: bound to this very version, taken at its cutoff, without a blocker,
\* and with none recorded later.  Nobody can swap it while the committee looks.
EvidenceUnderReview ==
    proposal.status \in {"SUBMITTED", "UNDER_REVIEW", "APPROVED", "REJECTED"} =>
        \E t \in Submissions, a \in analyses :
            /\ t.analysis = a.id
            /\ a.version = proposal.current
            /\ a.evidence \in Clear
            /\ EvidenceCutoff[a.evidence] = versions[proposal.current].cutoff
            /\ \A b \in analyses : b.version = a.version => b.at <= a.at

\* An approved proposal was approved on the analysis it was submitted with, and
\* on a review of the approved version recorded before the approval.
ApprovalSupported ==
    \A i \in 1..Len(transitions) :
        transitions[i].action = "APPROVED" =>
            /\ \E t \in Submissions : t.analysis = transitions[i].analysis
            /\ \E j \in 1..i : /\ transitions[j].action = "REVIEW_RECORDED"
                               /\ transitions[j].version = transitions[i].version

Terminal == {"APPROVED", "REJECTED", "WITHDRAWN"}

\* "Approved, rejected, and withdrawn proposals are terminal": after a final
\* decision no session, however old its copy of the proposal, changes a row.
DecisionFinal ==
    [][proposal.status \in Terminal => UNCHANGED database]_vars

\* "Stale expected versions fail rather than overwriting another committee
\* member's action": a commit replaces the very row its session checked,
\* advances it by one version and adds one transition to the others.
NoLostUpdate ==
    [][UNCHANGED database \/
        /\ proposal'.row = proposal.row + 1
        /\ \E s \in Session : cached[s] = proposal /\ cached'[s] = proposal'
        /\ SubSeq(transitions', 1, Len(transitions)) = transitions]_vars

\* The newest analysis bound to the current version is without a blocker.
Cleared ==
    \E a \in analyses :
        /\ a.version = proposal.current
        /\ a.evidence \in Clear
        /\ \A b \in analyses : b.version = a.version => b.at < a.at \/ (b.at = a.at /\ b.id <= a.id)

Reviewed == \E r \in reviews : r.version = proposal.current

\* The abstract state a concrete state stands for.
Workflow == INSTANCE ProposalWorkflow WITH
    status   <- proposal.status,
    version  <- proposal.current,
    cleared  <- Cleared,
    reviewed <- Reviewed

\* Governance implements the workflow of ADR 0016: every commit of every
\* session is one allowed step of it, whatever the interleaving.
ImplementsWorkflow == Workflow!Spec
=============================================================================
