-------------------------- MODULE GovernanceProofs --------------------------
(***************************************************************************)
(* Proofs about Governance, for every set of users, sessions and evidence  *)
(* and every bound.                                                        *)
(***************************************************************************)
EXTENDS Governance, TLAPS

-----------------------------------------------------------------------------
(* Type correctness.                                                       *)

\* What a command with a write to do is, in a well-typed state.
LEMMA PendingType ==
    ASSUME TypeOK, NEW s \in Session, ~Idle(s)
    PROVE  pending[s] \in PendingCommand
  BY DEF TypeOK, Idle, NoCommand

LEMMA RoleType ==
    ASSUME NEW u, NEW action
    PROVE  AuthorizedRole(u, action) \in Role
  BY DEF AuthorizedRole, Role

\* The row a write produces is well typed.
LEMMA AdvancedType ==
    ASSUME TypeOK, NEW s \in Session, ~Idle(s)
    PROVE  Advanced(s) \in Row
  <1>1. pending[s] \in PendingCommand
    BY PendingType
  <1>2. cached[s] \in Row /\ proposal \in Row
    BY DEF TypeOK
  <1> QED
    BY <1>1, <1>2 DEF Advanced, Row, PendingCommand

\* What every committing command does to the types of the three variables
\* Advance assigns.
LEMMA AdvanceType ==
    ASSUME TypeOK, NEW s \in Session, ~Idle(s), Advance(s)
    PROVE  /\ proposal' \in Row
           /\ cached' \in [Session -> Row]
           /\ pending' \in [Session -> PendingCommand \cup {NoCommand}]
  <1>1. Advanced(s) \in Row
    BY AdvancedType
  <1> QED
    BY <1>1 DEF TypeOK, Advance

\* The transition _history adds is well typed.
LEMMA HistoryType ==
    ASSUME TypeOK, NEW s \in Session, ~Idle(s),
           NEW version \in Nat, NEW analysis \in Nat, History(s, version, analysis)
    PROVE  transitions' \in Seq(Transition)
  <1>1. pending[s] \in PendingCommand
    BY PendingType
  <1>2. Advanced(s) \in Row
    BY AdvancedType
  <1>3. AuthorizedRole(pending[s].actor, pending[s].action) \in Role
    BY RoleType
  <1>4. cached[s].status \in Status
    BY DEF TypeOK, Row
  <1> DEFINE new ==
        [action |-> pending[s].action, from |-> cached[s].status, to |-> pending[s].to,
         actor |-> pending[s].actor,
         role |-> AuthorizedRole(pending[s].actor, pending[s].action),
         version |-> version, at |-> pending[s].at, row |-> Advanced(s).row,
         analysis |-> analysis]
  <1>5. Advanced(s).row \in Nat
    BY <1>2 DEF Row
  <1>6. new \in Transition
    BY <1>1, <1>3, <1>4, <1>5 DEF PendingCommand, Transition, Command
  <1>7. transitions' = Append(transitions, new)
    BY DEF History, RecordedFrom
  <1> QED
    BY <1>6, <1>7 DEF TypeOK

\* Where a command takes a proposal it finds in status from.
Target(action, from) ==
    IF action \in {"REVISED", "ANALYZED"} THEN "DRAFT"
    ELSE IF action = "REVIEW_RECORDED" THEN from
    ELSE IF action = "REVIEW_STARTED" THEN "UNDER_REVIEW"
    ELSE action

\* What the reads of command c established about the session's copy ...
Checked(c, copy) ==
    /\ copy.status \in AllowedFrom[c.action]
    /\ AuthorizedRoles(c.actor, c.action) # {}
    /\ c.at >= copy.updated
    /\ c.to = Target(c.action, copy.status)
    /\ c.action \in {"APPROVED", "REJECTED"} => c.actor # copy.creator
    /\ c.action = "ANALYZED" => EvidenceCutoff[c.evidence] = versions[copy.current].cutoff

\* ... and about the evidence of the version the copy names.
Supported(c, copy) ==
    /\ c.action \in {"SUBMITTED", "APPROVED"} =>
         \E a \in analyses : a.id = c.analysis /\ IsLatest(a, copy.current) /\ IsClear(a)
    /\ c.action = "APPROVED" => HasReview(copy.current)

\* A session starts a command whose reads succeeded.
Start(s, c) ==
    /\ c \in PendingCommand
    /\ Idle(s)
    /\ cached[s].status # "ABSENT"
    /\ Checked(c, cached[s])
    /\ Supported(c, cached[s])
    /\ pending' = [pending EXCEPT ![s] = c]
    /\ UNCHANGED <<proposal, versions, analyses, reviews, transitions, cached>>

LEMMA StartOne ==
    ASSUME TypeOK, NEW s \in Session, NEW u \in User, NEW e \in Nat, NEW at \in Nat,
           NEW action \in Command, NEW to, NEW cutoff \in Cutoff \cup {None},
           NEW evidence \in Evidence \cup {None}, NEW analysis \in Nat,
           action = "REVISED" => cutoff \in Cutoff,
           action = "ANALYZED" => /\ evidence \in Evidence
                                  /\ EvidenceCutoff[evidence] = versions[cached[s].current].cutoff,
           to = Target(action, cached[s].status),
           action \in {"APPROVED", "REJECTED"} => u # cached[s].creator,
           action \in {"SUBMITTED", "APPROVED"} =>
               \E a \in analyses : a.id = analysis /\ IsLatest(a, cached[s].current) /\ IsClear(a),
           action = "APPROVED" => HasReview(cached[s].current),
           Admissible(s, u, action, at),
           Begin(s, u, e, at, action, to, cutoff, evidence, analysis)
    PROVE  \E c \in PendingCommand : Start(s, c)
  <1> DEFINE c == [action |-> action, actor |-> u, expected |-> e, at |-> at, to |-> to,
                   cutoff |-> cutoff, evidence |-> evidence, analysis |-> analysis]
  <1>1. to \in Status
    <2>1. cached[s].status \in Status
      BY DEF TypeOK, Row
    <2> QED
      BY <2>1 DEF Target, Status, Command, Action
  <1>2. c \in PendingCommand
    BY <1>1 DEF PendingCommand
  <1>3. Checked(c, cached[s])
    BY DEF Checked, Admissible
  <1>4. Supported(c, cached[s])
    BY DEF Supported
  <1>5. Start(s, c)
    BY <1>2, <1>3, <1>4 DEF Start, Admissible, Begin
  <1> QED
    BY <1>2, <1>5

\* Every read step loads the copy or starts a command that passed its checks.
LEMMA ReadStep ==
    ASSUME TypeOK, NEW s \in Session, Read(s)
    PROVE  Load(s) \/ \E c \in PendingCommand : Start(s, c)
  <1>1. CASE Load(s)
    BY <1>1
  <1>2. ASSUME NEW u \in User, NEW e \in Offered(s), NEW at \in 1..MaxTime,
               \/ Revise(s, u, e, at)
               \/ RecordAnalysis(s, u, e, at)
               \/ Submit(s, u, e, at)
               \/ StartReview(s, u, e, at)
               \/ RecordReview(s, u, e, at)
               \/ RequestChanges(s, u, e, at)
               \/ Approve(s, u, e, at)
               \/ Reject(s, u, e, at)
               \/ Withdraw(s, u, e, at)
        PROVE  \E c \in PendingCommand : Start(s, c)
    <2>1. e \in Nat /\ at \in Nat
      BY BoundAssumption DEF Offered, TypeOK, Row
    <2>2. CASE Revise(s, u, e, at)
      <3>1. PICK x \in Cutoff : Begin(s, u, e, at, "REVISED", "DRAFT", x, None, 0)
        BY <2>2 DEF Revise
      <3> QED
        BY <2>1, <2>2, <3>1, StartOne DEF Revise, Command, Action, Target
    <2>3. CASE RecordAnalysis(s, u, e, at)
      <3>1. PICK x \in Evidence :
                /\ EvidenceCutoff[x] = versions[cached[s].current].cutoff
                /\ Begin(s, u, e, at, "ANALYZED", "DRAFT", None, x, 0)
        BY <2>3 DEF RecordAnalysis
      <3> QED
        BY <2>1, <2>3, <3>1, StartOne DEF RecordAnalysis, Command, Action, Target
    <2>4. CASE Submit(s, u, e, at)
      <3>1. PICK a \in analyses :
                /\ IsLatest(a, cached[s].current)
                /\ IsClear(a)
                /\ Begin(s, u, e, at, "SUBMITTED", "SUBMITTED", None, None, a.id)
        BY <2>4 DEF Submit
      <3>2. a.id \in Nat
        BY DEF TypeOK, Analysis
      <3> QED
        BY <2>1, <2>4, <3>1, <3>2, StartOne DEF Submit, Command, Action, Target
    <2>5. CASE StartReview(s, u, e, at)
      BY <2>1, <2>5, StartOne DEF StartReview, StatusTransition, Command, Action, Target
    <2>6. CASE RecordReview(s, u, e, at)
      BY <2>1, <2>6, StartOne DEF RecordReview, Command, Action, Target
    <2>7. CASE RequestChanges(s, u, e, at)
      BY <2>1, <2>7, StartOne DEF RequestChanges, StatusTransition, Command, Action, Target
    <2>8. CASE Approve(s, u, e, at)
      <3>1. PICK a \in analyses :
                /\ IsLatest(a, cached[s].current)
                /\ IsClear(a)
                /\ Begin(s, u, e, at, "APPROVED", "APPROVED", None, None, a.id)
        BY <2>8 DEF Approve
      <3>2. a.id \in Nat
        BY DEF TypeOK, Analysis
      <3> QED
        BY <2>1, <2>8, <3>1, <3>2, StartOne DEF Approve, MayDecide, Command, Action, Target
    <2>9. CASE Reject(s, u, e, at)
      BY <2>1, <2>9, StartOne DEF Reject, StatusTransition, MayDecide, Command, Action, Target
    <2>10. CASE Withdraw(s, u, e, at)
      BY <2>1, <2>10, StartOne DEF Withdraw, StatusTransition, Command, Action, Target
    <2> QED
      BY <1>2, <2>2, <2>3, <2>4, <2>5, <2>6, <2>7, <2>8, <2>9, <2>10
  <1> QED
    BY <1>1, <1>2 DEF Read

\* A write is one of the four kinds of commit, or the creation.
LEMMA WriteStep ==
    ASSUME NEW s \in Session, Write(s)
    PROVE  \/ ~Idle(s) /\ Advance(s) /\ CommitRevision(s)
           \/ ~Idle(s) /\ Advance(s) /\ CommitAnalysis(s)
           \/ ~Idle(s) /\ Advance(s) /\ CommitReview(s)
           \/ ~Idle(s) /\ Advance(s) /\ CommitStatus(s)
           \/ \E u \in User, at \in 1..MaxTime : Create(s, u, at)
  BY DEF Write, Idle, CommitRevision, CommitAnalysis, CommitReview, CommitStatus

\* Every step keeps every variable in its type.
LEMMA TypeStep == TypeOK /\ [Next]_vars => TypeOK'
  <1> SUFFICES ASSUME TypeOK, [Next]_vars PROVE TypeOK'
    OBVIOUS
  <1>1. CASE UNCHANGED vars
    BY <1>1 DEF TypeOK, vars
  <1>2. ASSUME NEW s \in Session, Read(s) PROVE TypeOK'
    <2>1. CASE Load(s)
      BY <2>1 DEF Load, TypeOK
    <2>2. ASSUME NEW c \in PendingCommand, Start(s, c) PROVE TypeOK'
      BY <2>2 DEF Start, TypeOK
    <2> QED
      BY <1>2, <2>1, <2>2, ReadStep
  <1>3. ASSUME NEW s \in Session, ~Idle(s), Advance(s) PROVE
               /\ proposal' \in Row
               /\ cached' \in [Session -> Row]
               /\ pending' \in [Session -> PendingCommand \cup {NoCommand}]
    BY <1>3, AdvanceType
  <1>4. ASSUME NEW s \in Session, ~Idle(s), Advance(s), CommitRevision(s) PROVE TypeOK'
    <2>1. pending[s] \in PendingCommand /\ cached[s].current \in Nat
      BY <1>4, PendingType DEF TypeOK, Row
    <2>2. [cutoff |-> pending[s].cutoff, supersedes |-> cached[s].current] \in Version
      BY <1>4, <2>1 DEF PendingCommand, Version, CommitRevision
    <2>3. versions' \in Seq(Version)
      BY <1>4, <2>2 DEF CommitRevision, TypeOK
    <2>4. transitions' \in Seq(Transition)
      BY <1>4, <2>1, HistoryType DEF CommitRevision
    <2> QED
      BY <1>3, <1>4, <2>3, <2>4 DEF CommitRevision, TypeOK
  <1>5. ASSUME NEW s \in Session, ~Idle(s), Advance(s), CommitAnalysis(s) PROVE TypeOK'
    <2>1. pending[s] \in PendingCommand /\ cached[s].current \in Nat
      BY <1>5, PendingType DEF TypeOK, Row
    <2>2. PICK id \in 1..MaxAnalysis :
             /\ analyses' = analyses \cup
                  {[id |-> id, version |-> cached[s].current,
                    evidence |-> pending[s].evidence, at |-> pending[s].at]}
             /\ History(s, cached[s].current, id)
      BY <1>5 DEF CommitAnalysis
    <2>3. id \in Nat
      BY BoundAssumption
    <2>4. analyses' \subseteq Analysis
      BY <1>5, <2>1, <2>2, <2>3 DEF PendingCommand, Analysis, CommitAnalysis, TypeOK
    <2>5. transitions' \in Seq(Transition)
      BY <1>5, <2>1, <2>2, <2>3, HistoryType
    <2> QED
      BY <1>3, <1>5, <2>4, <2>5 DEF CommitAnalysis, TypeOK
  <1>6. ASSUME NEW s \in Session, ~Idle(s), Advance(s), CommitReview(s) PROVE TypeOK'
    <2>1. pending[s] \in PendingCommand /\ cached[s].current \in Nat
      BY <1>6, PendingType DEF TypeOK, Row
    <2>2. reviews' \subseteq Review
      BY <1>6, <2>1 DEF PendingCommand, Review, CommitReview, TypeOK
    <2>3. transitions' \in Seq(Transition)
      BY <1>6, <2>1, HistoryType DEF CommitReview
    <2> QED
      BY <1>3, <1>6, <2>2, <2>3 DEF CommitReview, TypeOK
  <1>7. ASSUME NEW s \in Session, ~Idle(s), Advance(s), CommitStatus(s) PROVE TypeOK'
    <2>1. pending[s] \in PendingCommand /\ cached[s].current \in Nat
      BY <1>7, PendingType DEF TypeOK, Row
    <2>2. transitions' \in Seq(Transition)
      BY <1>7, <2>1, HistoryType DEF CommitStatus, PendingCommand
    <2> QED
      BY <1>3, <1>7, <2>2 DEF CommitStatus, TypeOK
  <1>8. ASSUME NEW s \in Session, NEW u \in User, NEW at \in 1..MaxTime, Create(s, u, at)
        PROVE TypeOK'
    <2>1. at \in Nat
      BY BoundAssumption
    <2>2. AuthorizedRole(u, "CREATED") \in Role
      BY RoleType
    <2>3. proposal' \in Row /\ cached' \in [Session -> Row]
      BY <1>8, <2>1 DEF Create, TypeOK, Row, Status
    <2>4. versions' \in Seq(Version)
      BY <1>8 DEF Create, Version
    <2>5. transitions' \in Seq(Transition)
      BY <1>8, <2>1, <2>2 DEF Create, Transition, Action, Status
    <2> QED
      BY <1>8, <2>3, <2>4, <2>5 DEF Create, TypeOK
  <1>9. ASSUME NEW s \in Session, Conflict(s) \/ Close(s) PROVE TypeOK'
    <2>1. NoRow \in Row
      BY DEF NoRow, Row, Status
    <2> QED
      BY <1>9, <2>1 DEF Conflict, Close, TypeOK, database
  <1> QED
    BY <1>1, <1>2, <1>4, <1>5, <1>6, <1>7, <1>8, <1>9, WriteStep DEF Next

LEMMA TypeInit == Init => TypeOK
  BY DEF Init, TypeOK, NoRow, Row, Status, NoCommand

\* Every variable keeps its type in every behaviour.
THEOREM TypeCorrect == Spec => []TypeOK
  BY TypeInit, TypeStep, PTL DEF Spec

-----------------------------------------------------------------------------
(* The inductive invariant.  What makes it inductive is CopyCurrent: a     *)
(* session's copy that shows the committed row version is the committed    *)
(* row, so a write that is accepted was checked against current data.      *)

WellFormed(copy) ==
    \/ copy = NoRow
    \/ copy.row >= 1 /\ copy.status # "ABSENT" /\ copy.current \in 1..Len(versions)

CopyCurrent ==
    /\ WellFormed(proposal)
    /\ \A s \in Session :
         /\ WellFormed(cached[s])
         /\ cached[s].row <= proposal.row
         /\ cached[s].row = proposal.row => cached[s] = proposal

\* A command in flight keeps what its reads established; its evidence, as long
\* as the copy is current.
CommandSound(s) ==
    ~Idle(s) =>
        /\ cached[s].status # "ABSENT"
        /\ Checked(pending[s], cached[s])
        /\ cached[s].row = proposal.row => Supported(pending[s], cached[s])

CommandsSound == \A s \in Session : CommandSound(s)

\* Every transition after the first is one the workflow allows.
TransitionsSound ==
    \A i \in 2..Len(transitions) :
        /\ transitions[i].action \in Command
        /\ transitions[i].from \in AllowedFrom[transitions[i].action]
        /\ transitions[i].to = Target(transitions[i].action, transitions[i].from)

\* Analyses and reviews belong to versions and transitions that exist.
EvidenceSound ==
    /\ \A a \in analyses :
         /\ a.version \in 1..Len(versions)
         /\ EvidenceCutoff[a.evidence] = versions[a.version].cutoff
    /\ \A r \in reviews :
         /\ r.version \in 1..Len(versions)
         /\ \E j \in 1..Len(transitions) : /\ transitions[j].action = "REVIEW_RECORDED"
                                          /\ transitions[j].version = r.version

\* The submission under review cites the analysis the next check would select.
SubmissionStands ==
    proposal.status \in {"SUBMITTED", "UNDER_REVIEW", "APPROVED", "REJECTED"} =>
        \E t \in Submissions, a \in analyses :
            t.analysis = a.id /\ IsLatest(a, proposal.current) /\ IsClear(a)

IInv ==
    /\ TypeOK
    /\ CopyCurrent
    /\ CommandsSound
    /\ HistoryChain
    /\ TransitionsSound
    /\ SeparationOfDuties
    /\ EvidenceSound
    /\ SubmissionStands
    /\ ApprovalSupported

LEMMA InvInit == Init => IInv
  <1> SUFFICES ASSUME Init PROVE IInv
    OBVIOUS
  <1>1. TypeOK
    BY TypeInit
  <1>2. proposal = NoRow /\ versions = <<>> /\ analyses = {} /\ reviews = {}
        /\ transitions = <<>> /\ \A s \in Session : cached[s] = NoRow /\ Idle(s)
    BY DEF Init, Idle, NoCommand
  <1>3. Len(versions) = 0 /\ Len(transitions) = 0
    BY <1>2
  <1>4. CopyCurrent /\ CommandsSound
    BY <1>2 DEF CopyCurrent, WellFormed, CommandsSound, CommandSound, NoRow
  <1>5. HistoryChain /\ TransitionsSound /\ SeparationOfDuties /\ ApprovalSupported
    BY <1>2, <1>3 DEF HistoryChain, TransitionsSound, SeparationOfDuties, ApprovalSupported, NoRow
  <1>6. EvidenceSound /\ SubmissionStands
    BY <1>2, <1>3 DEF EvidenceSound, SubmissionStands, NoRow
  <1> QED
    BY <1>1, <1>4, <1>5, <1>6 DEF IInv

\* A step that leaves the database alone keeps the part of the invariant that
\* is about the database.
LEMMA DatabaseFrame ==
    ASSUME IInv, UNCHANGED database
    PROVE  /\ HistoryChain' /\ TransitionsSound' /\ SeparationOfDuties'
           /\ EvidenceSound' /\ SubmissionStands' /\ ApprovalSupported'
  <1> USE DEF IInv, database
  <1>1. HistoryChain' /\ TransitionsSound' /\ SeparationOfDuties'
    BY DEF HistoryChain, TransitionsSound, SeparationOfDuties
  <1>2. Submissions' = Submissions
    BY DEF Submissions
  <1>3. EvidenceSound' /\ ApprovalSupported'
    BY <1>2 DEF EvidenceSound, ApprovalSupported
  <1>4. SubmissionStands'
    BY <1>2 DEF SubmissionStands, IsLatest, AnalysesOf, IsClear
  <1> QED
    BY <1>1, <1>3, <1>4

\* The checks of another session's command outlive a step that changes neither
\* its copy nor the database.
LEMMA QuietStep ==
    ASSUME IInv, TypeOK', NEW s \in Session,
           \/ Load(s)
           \/ \E c \in PendingCommand : Start(s, c)
           \/ Conflict(s)
           \/ Close(s)
    PROVE  IInv'
  <1> USE DEF IInv
  <1>1. UNCHANGED database
    BY DEF Load, Start, Conflict, Close, database
  <1>2. UNCHANGED <<proposal, versions, analyses, reviews, transitions>>
    BY <1>1 DEF database
  <1>3. cached'[s] \in {cached[s], proposal, NoRow}
    BY DEF Load, Start, Conflict, Close, TypeOK
  <1>4. \A t \in Session \ {s} : cached'[t] = cached[t] /\ pending'[t] = pending[t]
    BY DEF Load, Start, Conflict, Close, TypeOK
  <1>5. CopyCurrent'
    <2>1. \A t \in Session : cached[t].row \in Nat /\ proposal.row \in Nat
      BY DEF TypeOK, Row
    <2>2. ASSUME proposal.row = 0 PROVE proposal = NoRow
      BY <2>2 DEF CopyCurrent, WellFormed
    <2>3. \A copy : WellFormed(copy)' <=> WellFormed(copy)
      BY <1>2 DEF WellFormed
    <2>4. NoRow.row = 0 /\ WellFormed(NoRow)
      BY DEF NoRow, WellFormed
    <2> QED
      BY <1>2, <1>3, <1>4, <2>1, <2>2, <2>3, <2>4 DEF CopyCurrent, WellFormed
  <1>6. CommandsSound'
    <2>1. \A c, copy : (Checked(c, copy) => Checked(c, copy)') /\ (Supported(c, copy) => Supported(c, copy)')
      BY <1>2 DEF Checked, Supported, IsLatest, AnalysesOf, IsClear, HasReview
    <2>2. ASSUME NEW t \in Session \ {s} PROVE CommandSound(t)'
      <3>1. CommandSound(t)
        BY DEF CommandsSound
      <3> QED
        BY <1>2, <1>4, <2>1, <3>1 DEF CommandSound, Idle
    <2>3. CASE Load(s) \/ Conflict(s) \/ Close(s)
      <3>1. Idle(s)'
        BY <2>3 DEF Load, Conflict, Close, Idle, NoCommand, TypeOK
      <3> QED
        BY <2>2, <3>1 DEF CommandsSound, CommandSound
    <2>4. ASSUME NEW c \in PendingCommand, Start(s, c) PROVE CommandsSound'
      <3>1. pending'[s] = c /\ cached'[s] = cached[s]
        BY <2>4 DEF Start, TypeOK
      <3>2. cached[s].status # "ABSENT" /\ Checked(c, cached[s]) /\ Supported(c, cached[s])
        BY <2>4 DEF Start
      <3>3. CommandSound(s)'
        BY <2>1, <3>1, <3>2 DEF CommandSound
      <3> QED
        BY <2>2, <3>3 DEF CommandsSound
    <2> QED
      BY <2>3, <2>4
  <1> QED
    BY <1>1, <1>5, <1>6, DatabaseFrame

-----------------------------------------------------------------------------
(* Commits.                                                                *)

Commit(s) == CommitRevision(s) \/ CommitAnalysis(s) \/ CommitReview(s) \/ CommitStatus(s)

\* The transition an accepted write adds.
Entry(s, analysis) ==
    [action |-> pending[s].action, from |-> proposal.status, to |-> pending[s].to,
     actor |-> pending[s].actor,
     role |-> AuthorizedRole(pending[s].actor, pending[s].action),
     version |-> Advanced(s).current, at |-> pending[s].at, row |-> proposal.row + 1,
     analysis |-> analysis]

\* The trigger's count of row versions refuses the second UPDATE a stale copy
\* causes: what is accepted was checked on the row it replaces.
LEMMA FreshCopy ==
    ASSUME TypeOK, CopyCurrent, NEW s \in Session, ~Idle(s), WriteAccepted(s)
    PROVE  /\ cached[s] = proposal
           /\ Advanced(s).row = proposal.row + 1
  <1>1. pending[s] \in PendingCommand /\ proposal.row \in Nat
    BY PendingType DEF TypeOK, Row
  <1>2. pending[s].expected = proposal.row
    BY DEF WriteAccepted
  <1>3. Advanced(s).row = pending[s].expected + 1
    BY DEF Advanced
  <1>4. ~ProtectProposalIdentity(Advanced(s), Advanced(s))
    BY <1>1, <1>2, <1>3 DEF ProtectProposalIdentity
  <1>5. cached[s].row = proposal.row
    BY <1>2, <1>4 DEF WriteAccepted
  <1> QED
    BY <1>2, <1>3, <1>5 DEF CopyCurrent

\* What every commit knows of the state it starts from and of the row it leaves.
LEMMA CommitFacts ==
    ASSUME IInv, NEW s \in Session, ~Idle(s), Advance(s)
    PROVE  /\ cached[s] = proposal /\ cached'[s] = proposal'
           /\ pending[s] \in PendingCommand
           /\ Checked(pending[s], proposal) /\ Supported(pending[s], proposal)
           /\ proposal.row \in Nat \ {0}
           /\ proposal.current \in 1..Len(versions) /\ Len(versions) \in Nat
           /\ proposal'.status = pending[s].to
           /\ proposal'.row = proposal.row + 1
           /\ proposal'.updated = pending[s].at
           /\ proposal'.creator = proposal.creator
           /\ proposal'.current = IF pending[s].action = "REVISED" THEN proposal.current + 1
                                  ELSE proposal.current
           /\ proposal' = Advanced(s)
  <1> USE DEF IInv
  <1>1. cached[s] = proposal /\ Advanced(s).row = proposal.row + 1
    BY FreshCopy DEF Advance
  <1>2. pending[s] \in PendingCommand
    BY PendingType
  <1>3. /\ cached[s].status # "ABSENT"
        /\ Checked(pending[s], proposal)
        /\ Supported(pending[s], proposal)
    BY <1>1 DEF CommandsSound, CommandSound
  <1>4. proposal # NoRow /\ WellFormed(proposal)
    BY <1>1, <1>3 DEF NoRow, CopyCurrent
  <1>5. proposal.row \in Nat \ {0} /\ proposal.current \in 1..Len(versions)
    BY <1>4 DEF WellFormed, TypeOK, Row
  <1>6. Len(versions) \in Nat
    BY DEF TypeOK
  <1>7. proposal' = Advanced(s) /\ cached'[s] = Advanced(s)
    BY DEF Advance, TypeOK
  <1> QED
    BY <1>1, <1>2, <1>3, <1>5, <1>6, <1>7 DEF Advanced

\* What every commit adds to the history and to the versions.
LEMMA CommitHistory ==
    ASSUME IInv, NEW s \in Session, ~Idle(s), Advance(s), Commit(s)
    PROVE  /\ \E analysis \in Nat :
                /\ transitions' = Append(transitions, Entry(s, analysis))
                /\ pending[s].action \in {"SUBMITTED", "APPROVED"} => analysis = pending[s].analysis
           /\ IF pending[s].action = "REVISED"
              THEN versions' = Append(versions, [cutoff |-> pending[s].cutoff,
                                                 supersedes |-> proposal.current])
              ELSE versions' = versions
           /\ pending[s].action # "ANALYZED" => analyses' = analyses
           /\ pending[s].action # "REVIEW_RECORDED" => reviews' = reviews
  <1>1. /\ cached[s] = proposal
        /\ pending[s] \in PendingCommand
        /\ Advanced(s).row = proposal.row + 1
        /\ Advanced(s).current = IF pending[s].action = "REVISED" THEN proposal.current + 1
                                 ELSE proposal.current
    BY CommitFacts
  <1>2. ASSUME NEW version, NEW analysis, version = Advanced(s).current,
               History(s, version, analysis)
        PROVE  transitions' = Append(transitions, Entry(s, analysis))
    BY <1>1, <1>2 DEF History, Entry, RecordedFrom
  <1>3. CASE CommitRevision(s)
    <2>1. transitions' = Append(transitions, Entry(s, 0))
      BY <1>1, <1>2, <1>3 DEF CommitRevision
    <2> QED
      BY <1>1, <1>3, <2>1 DEF CommitRevision
  <1>4. CASE CommitAnalysis(s)
    <2>1. PICK id \in 1..MaxAnalysis : History(s, cached[s].current, id)
      BY <1>4 DEF CommitAnalysis
    <2>2. transitions' = Append(transitions, Entry(s, id))
      BY <1>1, <1>2, <1>4, <2>1 DEF CommitAnalysis
    <2>3. id \in Nat
      BY BoundAssumption
    <2> QED
      BY <1>4, <2>2, <2>3 DEF CommitAnalysis
  <1>5. CASE CommitReview(s)
    <2>1. transitions' = Append(transitions, Entry(s, 0))
      BY <1>1, <1>2, <1>5 DEF CommitReview
    <2> QED
      BY <1>5, <2>1 DEF CommitReview
  <1>6. CASE CommitStatus(s)
    <2>1. transitions' = Append(transitions, Entry(s, pending[s].analysis))
      BY <1>1, <1>2, <1>6 DEF CommitStatus
    <2>2. pending[s].analysis \in Nat
      BY <1>1 DEF PendingCommand
    <2> QED
      BY <1>6, <2>1, <2>2 DEF CommitStatus
  <1> QED
    BY <1>3, <1>4, <1>5, <1>6 DEF Commit

\* The copies and the other sessions' commands after a commit.
LEMMA CommitCopies ==
    ASSUME IInv, TypeOK', NEW s \in Session, ~Idle(s), Advance(s), Commit(s)
    PROVE  CopyCurrent' /\ CommandsSound'
  <1> USE DEF IInv
  <1>1. /\ proposal'.row = proposal.row + 1 /\ cached'[s] = proposal'
        /\ proposal.row \in Nat \ {0}
        /\ proposal.current \in 1..Len(versions) /\ Len(versions) \in Nat
        /\ proposal'.current = IF pending[s].action = "REVISED" THEN proposal.current + 1
                               ELSE proposal.current
        /\ proposal'.status = pending[s].to
        /\ pending[s] \in PendingCommand
        /\ Checked(pending[s], proposal)
    BY CommitFacts
  <1>2. /\ IF pending[s].action = "REVISED"
           THEN versions' = Append(versions, [cutoff |-> pending[s].cutoff,
                                              supersedes |-> proposal.current])
           ELSE versions' = versions
    BY CommitHistory
  <1>3. /\ Len(versions') = IF pending[s].action = "REVISED" THEN Len(versions) + 1
                            ELSE Len(versions)
        /\ \A i \in 1..Len(versions) : versions'[i] = versions[i]
    <2>1. versions \in Seq(Version)
      BY DEF TypeOK
    <2>2. CASE pending[s].action = "REVISED"
      <3>1. [cutoff |-> pending[s].cutoff, supersedes |-> proposal.current] \in Version
        BY <1>1, <2>2 DEF PendingCommand, Version
      <3> QED
        BY <1>2, <2>1, <2>2, <3>1
    <2>3. CASE pending[s].action # "REVISED"
      BY <1>2, <2>3
    <2> QED
      BY <2>2, <2>3
  <1>4. proposal.current = Len(versions)
    BY DEF HistoryChain
  <1>5. \A t \in Session \ {s} : cached'[t] = cached[t] /\ pending'[t] = pending[t]
    BY DEF Advance, TypeOK
  <1>6. proposal'.status # "ABSENT"
    <2>1. proposal.status # "ABSENT"
      BY CommitFacts DEF CommandsSound, CommandSound
    <2> QED
      BY <1>1, <2>1 DEF Checked, Target, PendingCommand, Command, Action
  <1>7. WellFormed(proposal)'
    BY <1>1, <1>3, <1>4, <1>6 DEF WellFormed
  <1>8. ASSUME NEW t \in Session \ {s}
        PROVE  /\ WellFormed(cached[t])'
               /\ cached'[t].row < proposal'.row
    <2>1. cached[t].row \in Nat /\ cached[t].current \in Nat /\ cached[t].row <= proposal.row
      BY DEF TypeOK, Row, CopyCurrent
    <2>2. WellFormed(cached[t]) /\ cached'[t] = cached[t]
      BY <1>5 DEF CopyCurrent
    <2>3. cached[t].row < proposal'.row
      BY <1>1, <2>1
    <2>4. Len(versions) \in Nat /\ Len(versions') \in Nat /\ Len(versions) <= Len(versions')
      BY <1>1, <1>3
    <2>5. WellFormed(cached[t])'
      BY <2>1, <2>2, <2>4 DEF WellFormed
    <2> QED
      BY <2>2, <2>3, <2>5
  <1>9. CopyCurrent'
    <2>1. \A t \in Session : cached'[t].row \in Nat /\ proposal'.row \in Nat
      BY DEF TypeOK, Row
    <2> QED
      BY <1>1, <1>7, <1>8, <2>1 DEF CopyCurrent
  <1>10. ASSUME NEW t \in Session PROVE CommandSound(t)'
    <2>1. CASE t = s
      BY <2>1 DEF Advance, CommandSound, Idle, NoCommand, TypeOK
    <2>2. CASE t # s
      <3>1. CommandSound(t) /\ WellFormed(cached[t]) /\ cached[t].row \in Nat
        BY DEF CommandsSound, CopyCurrent, TypeOK, Row
      <3>2. cached'[t].row # proposal'.row
        <4>1. cached'[t].row \in Nat /\ proposal'.row \in Nat
          BY DEF TypeOK, Row
        <4> QED
          BY <1>8, <2>2, <4>1
      <3>3. CASE cached[t] # NoRow
        <4>1. versions'[cached[t].current] = versions[cached[t].current]
          BY <1>3, <3>1, <3>3 DEF WellFormed
        <4> QED
          BY <1>5, <2>2, <3>1, <3>2, <4>1 DEF CommandSound, Idle, Checked
      <3>4. CASE cached[t] = NoRow
        BY <1>5, <2>2, <3>1, <3>4 DEF CommandSound, Idle, NoRow
      <3> QED
        BY <3>3, <3>4
    <2> QED
      BY <2>1, <2>2
  <1> QED
    BY <1>9, <1>10 DEF CommandsSound

\* The sequences after a commit, element by element.
LEMMA CommitSequences ==
    ASSUME IInv, NEW s \in Session, ~Idle(s), Advance(s), Commit(s)
    PROVE  /\ Len(transitions) \in Nat \ {0} /\ Len(transitions) = proposal.row
           /\ Len(transitions') = Len(transitions) + 1
           /\ \A i \in 1..Len(transitions) : transitions'[i] = transitions[i]
           /\ \E analysis \in Nat :
                /\ transitions'[Len(transitions) + 1] = Entry(s, analysis)
                /\ pending[s].action \in {"SUBMITTED", "APPROVED"} => analysis = pending[s].analysis
           /\ Len(versions') = IF pending[s].action = "REVISED" THEN Len(versions) + 1
                               ELSE Len(versions)
           /\ \A i \in 1..Len(versions) : versions'[i] = versions[i]
           /\ pending[s].action = "REVISED" =>
                versions'[Len(versions) + 1].supersedes = Len(versions)
           /\ Len(versions) \in Nat /\ proposal.current = Len(versions)
  <1>1. /\ proposal.row \in Nat \ {0} /\ pending[s] \in PendingCommand
        /\ cached[s] = proposal /\ proposal.current \in Nat
        /\ proposal' = Advanced(s)
        /\ proposal'.current = IF pending[s].action = "REVISED" THEN proposal.current + 1
                               ELSE proposal.current
    BY CommitFacts DEF IInv, TypeOK, Row
  <1>2. /\ transitions \in Seq(Transition) /\ versions \in Seq(Version)
        /\ Len(transitions) = proposal.row /\ Len(versions) = proposal.current
    BY DEF IInv, TypeOK, HistoryChain
  <1>3. ASSUME NEW analysis \in Nat PROVE Entry(s, analysis) \in Transition
    <2>1. AuthorizedRole(pending[s].actor, pending[s].action) \in Role
      BY RoleType
    <2>2. proposal.status \in Status /\ proposal.row + 1 \in Nat /\ Advanced(s).current \in Nat
      BY <1>1 DEF IInv, TypeOK, Row
    <2> QED
      BY <1>1, <2>1, <2>2 DEF Entry, Transition, PendingCommand, Command
  <1>4. PICK analysis \in Nat :
           /\ transitions' = Append(transitions, Entry(s, analysis))
           /\ pending[s].action \in {"SUBMITTED", "APPROVED"} => analysis = pending[s].analysis
    BY CommitHistory
  <1>5. /\ Len(transitions') = Len(transitions) + 1
        /\ \A i \in 1..Len(transitions) : transitions'[i] = transitions[i]
        /\ transitions'[Len(transitions) + 1] = Entry(s, analysis)
    BY <1>2, <1>3, <1>4
  <1>6. /\ Len(versions') = IF pending[s].action = "REVISED" THEN Len(versions) + 1
                            ELSE Len(versions)
        /\ \A i \in 1..Len(versions) : versions'[i] = versions[i]
        /\ pending[s].action = "REVISED" =>
             versions'[Len(versions) + 1].supersedes = Len(versions)
    <2>1. CASE pending[s].action = "REVISED"
      <3> DEFINE new == [cutoff |-> pending[s].cutoff, supersedes |-> proposal.current]
      <3>1. new \in Version
        BY <1>1, <2>1 DEF PendingCommand, Version
      <3>2. versions' = Append(versions, new)
        BY <2>1, CommitHistory
      <3> QED
        BY <1>2, <2>1, <3>1, <3>2
    <2>2. CASE pending[s].action # "REVISED"
      BY <2>2, CommitHistory
    <2> QED
      BY <2>1, <2>2
  <1> QED
    BY <1>1, <1>2, <1>4, <1>5, <1>6

\* The history stays a chain.
LEMMA CommitChain ==
    ASSUME IInv, NEW s \in Session, ~Idle(s), Advance(s), Commit(s)
    PROVE  HistoryChain' /\ TransitionsSound'
  <1> DEFINE n == Len(transitions)
  <1>1. /\ n \in Nat \ {0} /\ n = proposal.row /\ Len(transitions') = n + 1
        /\ \A i \in 1..n : transitions'[i] = transitions[i]
        /\ Len(versions') = IF pending[s].action = "REVISED" THEN Len(versions) + 1
                            ELSE Len(versions)
        /\ \A i \in 1..Len(versions) : versions'[i] = versions[i]
        /\ pending[s].action = "REVISED" =>
             versions'[Len(versions) + 1].supersedes = Len(versions)
        /\ Len(versions) \in Nat /\ proposal.current = Len(versions)
    BY CommitSequences
  <1>2. /\ cached[s] = proposal
        /\ pending[s] \in PendingCommand /\ Checked(pending[s], proposal)
        /\ proposal'.status = pending[s].to
        /\ proposal'.row = proposal.row + 1
        /\ proposal'.updated = pending[s].at
        /\ proposal'.current = IF pending[s].action = "REVISED" THEN proposal.current + 1
                               ELSE proposal.current
        /\ proposal' = Advanced(s)
    BY CommitFacts
  <1>3. /\ transitions'[n + 1].action = pending[s].action
        /\ transitions'[n + 1].from = proposal.status
        /\ transitions'[n + 1].to = pending[s].to
        /\ transitions'[n + 1].version = proposal'.current
        /\ transitions'[n + 1].at = pending[s].at
        /\ transitions'[n + 1].row = n + 1
    <2>1. PICK analysis \in Nat : transitions'[n + 1] = Entry(s, analysis)
      BY CommitSequences
    <2> QED
      BY <1>1, <1>2, <2>1 DEF Entry
  <1>4. TransitionsSound'
    <2>1. pending[s].action \in Command
      BY <1>2 DEF PendingCommand
    <2>2. /\ proposal.status \in AllowedFrom[pending[s].action]
          /\ pending[s].to = Target(pending[s].action, proposal.status)
      BY <1>2 DEF Checked
    <2>3. ASSUME NEW i \in 2..n + 1
          PROVE  /\ transitions'[i].action \in Command
                 /\ transitions'[i].from \in AllowedFrom[transitions'[i].action]
                 /\ transitions'[i].to = Target(transitions'[i].action, transitions'[i].from)
      <3>1. CASE i = n + 1
        BY <1>3, <2>1, <2>2, <3>1
      <3>2. CASE i \in 2..n
        BY <1>1, <3>2 DEF IInv, TransitionsSound
      <3> QED
        BY <1>1, <3>1, <3>2
    <2> QED
      BY <1>1, <2>3 DEF TransitionsSound
  <1>5. ASSUME NEW i \in 1..Len(versions') PROVE versions'[i].supersedes = i - 1
    <2>1. HistoryChain
      BY DEF IInv
    <2>2. \A k \in 1..Len(versions) : versions[k].supersedes = k - 1
      BY ONLY <2>1 DEF HistoryChain
    <2>3. CASE i \in 1..Len(versions)
      BY <1>1, <2>2, <2>3
    <2>4. CASE i \notin 1..Len(versions)
      <3>1. pending[s].action = "REVISED" /\ i = Len(versions) + 1
        BY <1>1, <2>4
      <3> QED
        BY <1>1, <3>1
    <2> QED
      BY <2>3, <2>4
  <1>6. ASSUME NEW i \in 1..n + 1
        PROVE  /\ transitions'[i].row = i
               /\ i = 1 => /\ transitions'[i].action = "CREATED"
                           /\ transitions'[i].from = "ABSENT" /\ transitions'[i].version = 1
               /\ i > 1 => /\ transitions'[i].from = transitions'[i - 1].to
                           /\ transitions'[i].at >= transitions'[i - 1].at
                           /\ transitions'[i].version = transitions'[i - 1].version
                                + (IF transitions'[i].action = "REVISED" THEN 1 ELSE 0)
    <2>1. CASE i \in 1..n
      <3>1. transitions'[i] = transitions[i] /\ (i > 1 => transitions'[i - 1] = transitions[i - 1])
        BY <1>1, <2>1
      <3>2. /\ transitions[i].row = i
            /\ i = 1 => /\ transitions[i].action = "CREATED"
                        /\ transitions[i].from = "ABSENT" /\ transitions[i].version = 1
            /\ i > 1 => /\ transitions[i].from = transitions[i - 1].to
                        /\ transitions[i].at >= transitions[i - 1].at
                        /\ transitions[i].version = transitions[i - 1].version
                             + (IF transitions[i].action = "REVISED" THEN 1 ELSE 0)
        <4>1. HistoryChain /\ i \in 1..Len(transitions)
          BY <2>1 DEF IInv
        <4> QED
          BY ONLY <4>1 DEF HistoryChain
      <3> QED
        BY ONLY <3>1, <3>2
    <2>2. CASE i = n + 1
      <3>1. transitions'[i - 1] = transitions[n] /\ i > 1
        BY <1>1, <2>2
      <3>2. /\ transitions[n].to = proposal.status
            /\ transitions[n].at = proposal.updated
            /\ transitions[n].version = proposal.current
        BY <1>1 DEF IInv, HistoryChain
      <3>3. pending[s].at >= proposal.updated
        BY <1>2 DEF Checked
      <3> QED
        BY <1>1, <1>2, <1>3, <2>2, <3>1, <3>2, <3>3
    <2> QED
      BY <1>1, <2>1, <2>2
  <1>7. HistoryChain'
    <2>1. Len(transitions') = proposal'.row /\ Len(versions') = proposal'.current
      BY <1>1, <1>2
    <2> QED
      BY <1>1, <1>2, <1>3, <1>5, <1>6, <2>1 DEF HistoryChain
  <1> QED
    BY <1>4, <1>7

\* The role of an approval or rejection can only be the manager's.
LEMMA DecidingRole ==
    ASSUME NEW u \in User, NEW action \in {"APPROVED", "REJECTED"}, AuthorizedRoles(u, action) # {}
    PROVE  AuthorizedRole(u, action) = "manager"
  <1>1. "advisor" \notin AuthorizedRoles(u, action) /\ "analyst" \notin AuthorizedRoles(u, action)
    BY DEF AuthorizedRoles, RolePermissions
  <1> QED
    BY <1>1 DEF AuthorizedRole

\* No author decides, after a commit either.
LEMMA CommitDuties ==
    ASSUME IInv, NEW s \in Session, ~Idle(s), Advance(s), Commit(s)
    PROVE  SeparationOfDuties'
  <1> DEFINE n == Len(transitions)
  <1>1. /\ n \in Nat \ {0} /\ Len(transitions') = n + 1
        /\ \A i \in 1..n : transitions'[i] = transitions[i]
    BY CommitSequences
  <1>2. /\ pending[s] \in PendingCommand /\ Checked(pending[s], proposal)
        /\ proposal'.creator = proposal.creator
    BY CommitFacts
  <1>3. PICK analysis \in Nat : transitions'[n + 1] = Entry(s, analysis)
    BY CommitSequences
  <1>4. ASSUME NEW i \in 1..n + 1, transitions'[i].action \in {"APPROVED", "REJECTED"}
        PROVE  transitions'[i].actor # proposal.creator /\ transitions'[i].role = "manager"
    <2>1. CASE i \in 1..n
      BY <1>1, <1>4, <2>1 DEF IInv, SeparationOfDuties
    <2>2. CASE i = n + 1
      <3>1. /\ transitions'[i].action = pending[s].action
            /\ transitions'[i].actor = pending[s].actor
            /\ transitions'[i].role = AuthorizedRole(pending[s].actor, pending[s].action)
        BY <1>3, <2>2 DEF Entry
      <3>2. pending[s].actor \in User /\ pending[s].actor # proposal.creator
        BY <1>2, <1>4, <3>1 DEF Checked, PendingCommand
      <3>3. AuthorizedRoles(pending[s].actor, pending[s].action) # {}
        BY <1>2 DEF Checked
      <3> QED
        BY <1>4, <3>1, <3>2, <3>3, DecidingRole
    <2> QED
      BY <1>1, <2>1, <2>2
  <1> QED
    BY <1>1, <1>2, <1>4 DEF SeparationOfDuties

\* Analyses and reviews stay attached to versions and transitions.
LEMMA CommitEvidence ==
    ASSUME IInv, NEW s \in Session, ~Idle(s), Advance(s), Commit(s)
    PROVE  EvidenceSound'
  <1> DEFINE n == Len(transitions)
  <1>1. /\ n \in Nat \ {0} /\ Len(transitions') = n + 1
        /\ \A i \in 1..n : transitions'[i] = transitions[i]
        /\ Len(versions) \in Nat /\ Len(versions') \in {Len(versions), Len(versions) + 1}
        /\ \A i \in 1..Len(versions) : versions'[i] = versions[i]
    BY CommitSequences
  <1>2. /\ cached[s] = proposal
        /\ pending[s] \in PendingCommand /\ Checked(pending[s], proposal)
        /\ proposal.current \in 1..Len(versions)
        /\ proposal'.current = IF pending[s].action = "REVISED" THEN proposal.current + 1
                               ELSE proposal.current
        /\ proposal' = Advanced(s)
    BY CommitFacts
  <1>3. ASSUME NEW a \in analyses'
        PROVE  /\ a.version \in 1..Len(versions')
               /\ EvidenceCutoff[a.evidence] = versions'[a.version].cutoff
    <2>1. CASE a \in analyses
      <3>1. a.version \in 1..Len(versions) /\ EvidenceCutoff[a.evidence] = versions[a.version].cutoff
        BY <2>1 DEF IInv, EvidenceSound
      <3> QED
        BY <1>1, <3>1
    <2>2. CASE a \notin analyses
      <3>1. CommitAnalysis(s)
        BY <2>2 DEF Commit, CommitRevision, CommitReview, CommitStatus
      <3>2. PICK id \in 1..MaxAnalysis :
              analyses' = analyses \cup
                {[id |-> id, version |-> cached[s].current,
                  evidence |-> pending[s].evidence, at |-> pending[s].at]}
        BY <3>1 DEF CommitAnalysis
      <3>3. a.version = proposal.current /\ a.evidence = pending[s].evidence
        BY <1>2, <2>2, <3>2
      <3>4. EvidenceCutoff[pending[s].evidence] = versions[proposal.current].cutoff
        BY <1>2, <3>1 DEF CommitAnalysis, Checked
      <3> QED
        BY <1>1, <1>2, <3>3, <3>4
    <2> QED
      BY <2>1, <2>2
  <1>4. ASSUME NEW r \in reviews' PROVE r.version \in 1..Len(versions')
    <2>1. CASE r \in reviews
      BY <1>1, <2>1 DEF IInv, EvidenceSound
    <2>2. CASE r \notin reviews
      <3>1. CommitReview(s)
        BY <2>2 DEF Commit, CommitRevision, CommitAnalysis, CommitStatus
      <3>2. r.version = proposal.current
        BY <1>2, <2>2, <3>1 DEF CommitReview
      <3> QED
        BY <1>1, <1>2, <3>2
    <2> QED
      BY <2>1, <2>2
  <1>5. ASSUME NEW r \in reviews'
        PROVE  \E j \in 1..n + 1 : /\ transitions'[j].action = "REVIEW_RECORDED"
                                   /\ transitions'[j].version = r.version
    <2>1. CASE r \in reviews
      <3>1. PICK j \in 1..n : transitions[j].action = "REVIEW_RECORDED"
                              /\ transitions[j].version = r.version
        BY <2>1 DEF IInv, EvidenceSound
      <3>2. j \in 1..n + 1 /\ transitions'[j] = transitions[j]
        BY <1>1
      <3> QED
        BY <3>1, <3>2
    <2>2. CASE r \notin reviews
      <3>1. CommitReview(s)
        BY <2>2 DEF Commit, CommitRevision, CommitAnalysis, CommitStatus
      <3>2. r.version = proposal.current /\ pending[s].action = "REVIEW_RECORDED"
        BY <1>2, <2>2, <3>1 DEF CommitReview
      <3>3. PICK analysis \in Nat : transitions'[n + 1] = Entry(s, analysis)
        BY <1>1, CommitSequences
      <3>4. transitions'[n + 1].action = "REVIEW_RECORDED"
            /\ transitions'[n + 1].version = proposal.current
        BY <1>2, <3>2, <3>3 DEF Entry
      <3> QED
        BY <1>1, <3>2, <3>4
    <2> QED
      BY <2>1, <2>2
  <1> QED
    BY <1>1, <1>3, <1>4, <1>5 DEF EvidenceSound

\* A committed submission leaves its clear, latest analysis in place, and what
\* follows a submission does not take it away.
LEMMA CommitSubmission ==
    ASSUME IInv, NEW s \in Session, ~Idle(s), Advance(s), Commit(s)
    PROVE  SubmissionStands'
  <1> DEFINE n == Len(transitions)
  <1>1. /\ n \in Nat \ {0} /\ Len(transitions') = n + 1
        /\ \A i \in 1..n : transitions'[i] = transitions[i]
    BY CommitSequences
  <1>2. /\ pending[s] \in PendingCommand /\ Checked(pending[s], proposal)
        /\ Supported(pending[s], proposal)
        /\ proposal'.status = pending[s].to
        /\ proposal'.current = IF pending[s].action = "REVISED" THEN proposal.current + 1
                               ELSE proposal.current
        /\ proposal' = Advanced(s)
    BY CommitFacts
  <1>3. SUFFICES ASSUME proposal'.status \in {"SUBMITTED", "UNDER_REVIEW", "APPROVED", "REJECTED"}
                 PROVE  \E t \in Submissions', a \in analyses' :
                            t.analysis = a.id /\ IsLatest(a, proposal.current)' /\ IsClear(a)'
    BY DEF SubmissionStands
  <1>4. /\ pending[s].action \in Command
        /\ pending[s].to = Target(pending[s].action, proposal.status)
        /\ proposal.status \in AllowedFrom[pending[s].action]
    BY <1>2 DEF Checked, PendingCommand
  <1>5. pending[s].action \in {"SUBMITTED", "REVIEW_STARTED", "REVIEW_RECORDED", "APPROVED", "REJECTED"}
    BY <1>2, <1>3, <1>4 DEF Target, Command, Action
  <1>6. analyses' = analyses /\ proposal'.current = proposal.current
    BY <1>2, <1>5, CommitHistory
  <1>7. \A a : (IsLatest(a, proposal.current) => IsLatest(a, proposal.current)')
               /\ (IsClear(a) => IsClear(a)')
    BY <1>6 DEF IsLatest, IsClear, AnalysesOf
  <1>8. CASE pending[s].action = "SUBMITTED"
    <2>1. PICK a \in analyses :
              a.id = pending[s].analysis /\ IsLatest(a, proposal.current) /\ IsClear(a)
      BY <1>2, <1>8 DEF Supported
    <2>2. transitions'[n + 1] = Entry(s, pending[s].analysis)
      BY <1>8, CommitSequences
    <2> DEFINE t == transitions'[n + 1]
    <2>3. t.action = "SUBMITTED" /\ t.version = proposal'.current /\ t.analysis = a.id
      BY <1>2, <1>8, <2>1, <2>2 DEF Entry
    <2>4. t \in Submissions'
      BY <1>1, <2>3 DEF Submissions
    <2> QED
      BY <1>6, <1>7, <2>1, <2>3, <2>4
  <1>9. CASE pending[s].action # "SUBMITTED"
    <2>1. proposal.status \in {"SUBMITTED", "UNDER_REVIEW"}
      BY <1>4, <1>5, <1>9 DEF AllowedFrom
    <2>2. PICK t \in Submissions, a \in analyses :
              t.analysis = a.id /\ IsLatest(a, proposal.current) /\ IsClear(a)
      BY <2>1 DEF IInv, SubmissionStands
    <2>3. Submissions \subseteq Submissions'
      BY <1>1, <1>6 DEF Submissions
    <2> QED
      BY <1>6, <1>7, <2>2, <2>3
  <1> QED
    BY <1>8, <1>9

\* A committed approval rests on the submission's analysis and on a review.
LEMMA CommitApproval ==
    ASSUME IInv, NEW s \in Session, ~Idle(s), Advance(s), Commit(s)
    PROVE  ApprovalSupported'
  <1> DEFINE n == Len(transitions)
  <1>1. /\ n \in Nat \ {0} /\ Len(transitions') = n + 1 /\ n = proposal.row
        /\ \A i \in 1..n : transitions'[i] = transitions[i]
    BY CommitSequences
  <1>2. /\ pending[s] \in PendingCommand /\ Checked(pending[s], proposal)
        /\ Supported(pending[s], proposal)
        /\ proposal'.current = IF pending[s].action = "REVISED" THEN proposal.current + 1
                               ELSE proposal.current
        /\ proposal' = Advanced(s)
    BY CommitFacts
  <1>3. pending[s].action \in Command /\ proposal.status \in AllowedFrom[pending[s].action]
    BY <1>2 DEF Checked, PendingCommand
  <1>4. ASSUME NEW i \in 1..n PROVE transitions[i].action # "APPROVED"
    <2>1. CASE i = 1
      BY <1>1, <2>1 DEF IInv, HistoryChain
    <2>2. CASE i > 1 /\ transitions[i].action = "APPROVED"
      <3>1. transitions[i].to = "APPROVED"
        <4>1. i \in 2..n
          BY <1>1, <2>2
        <4>2. transitions[i].to = Target(transitions[i].action, transitions[i].from)
          BY <4>1 DEF IInv, TransitionsSound
        <4> QED
          BY <2>2, <4>2 DEF Target
      <3>2. CASE i = n
        <4>1. proposal.status = "APPROVED"
          BY <1>1, <3>1, <3>2 DEF IInv, HistoryChain
        <4> QED
          BY <1>3, <4>1 DEF AllowedFrom, Command, Action
      <3>3. CASE i < n
        <4>1. i + 1 \in 2..n /\ i + 1 \in 1..n
          BY <1>1, <3>3
        <4>2. transitions[i + 1].from = "APPROVED"
          BY <1>1, <3>1, <4>1 DEF IInv, HistoryChain
        <4>3. /\ transitions[i + 1].action \in Command
              /\ transitions[i + 1].from \in AllowedFrom[transitions[i + 1].action]
          BY <1>1, <4>1 DEF IInv, TransitionsSound
        <4> QED
          BY <4>2, <4>3 DEF AllowedFrom, Command, Action
      <3> QED
        BY <1>1, <3>2, <3>3
    <2> QED
      BY <1>1, <2>1, <2>2
  <1>5. PICK analysis \in Nat :
            /\ transitions'[n + 1] = Entry(s, analysis)
            /\ pending[s].action \in {"SUBMITTED", "APPROVED"} => analysis = pending[s].analysis
    BY CommitSequences
  <1>6. /\ transitions'[n + 1].action = pending[s].action
        /\ transitions'[n + 1].analysis = analysis
        /\ transitions'[n + 1].version = proposal'.current
    BY <1>2, <1>5 DEF Entry
  <1>7. ASSUME pending[s].action = "APPROVED"
        PROVE  /\ \E t \in Submissions' : t.analysis = transitions'[n + 1].analysis
               /\ \E j \in 1..n + 1 : /\ transitions'[j].action = "REVIEW_RECORDED"
                                      /\ transitions'[j].version = transitions'[n + 1].version
    <2>1. proposal.status = "UNDER_REVIEW" /\ proposal'.current = proposal.current
      BY <1>2, <1>3, <1>7 DEF AllowedFrom
    <2>2. PICK t \in Submissions, a \in analyses :
              t.analysis = a.id /\ IsLatest(a, proposal.current)
      BY <2>1 DEF IInv, SubmissionStands
    <2>3. PICK b \in analyses : b.id = pending[s].analysis /\ IsLatest(b, proposal.current)
      BY <1>2, <1>7 DEF Supported
    <2>4. a.id = b.id
      <3>1. a.id \in Nat /\ b.id \in Nat /\ a.at \in Nat /\ b.at \in Nat
        BY DEF IInv, TypeOK, Analysis
      <3>2. Precedes(a, b) /\ Precedes(b, a)
        BY <2>2, <2>3 DEF IsLatest
      <3> QED
        BY <3>1, <3>2 DEF Precedes
    <2>5. Submissions \subseteq Submissions'
      BY <1>1, <2>1 DEF Submissions
    <2>6. PICK r \in reviews : r.version = proposal.current
      BY <1>2, <1>7 DEF Supported, HasReview
    <2>7. PICK j \in 1..n : transitions[j].action = "REVIEW_RECORDED"
                            /\ transitions[j].version = r.version
      BY DEF IInv, EvidenceSound
    <2>8. j \in 1..n + 1 /\ transitions'[j] = transitions[j]
      BY <1>1
    <2> QED
      BY <1>5, <1>6, <1>7, <2>1, <2>2, <2>3, <2>4, <2>5, <2>6, <2>7, <2>8
  <1>8. ASSUME NEW i \in 1..n + 1, transitions'[i].action = "APPROVED" PROVE i = n + 1
    BY <1>1, <1>4, <1>8
  <1> QED
    BY <1>1, <1>6, <1>7, <1>8 DEF ApprovalSupported

\* A commit keeps the whole invariant.
LEMMA CommitStep ==
    ASSUME IInv, TypeOK', NEW s \in Session, ~Idle(s), Advance(s), Commit(s)
    PROVE  IInv'
  BY CommitCopies, CommitChain, CommitDuties, CommitEvidence, CommitSubmission, CommitApproval
  DEF IInv

\* Nothing precedes a creation, so it starts a history.
LEMMA CreateStep ==
    ASSUME IInv, TypeOK', NEW s \in Session, NEW u \in User, NEW at \in 1..MaxTime,
           Create(s, u, at)
    PROVE  IInv'
  <1>1. at \in Nat
    BY BoundAssumption
  <1>2. proposal = NoRow
    BY DEF Create, IInv, CopyCurrent, WellFormed
  <1>3. \A t \in Session : cached[t] = NoRow
    <2>1. proposal.row = 0
      BY <1>2 DEF NoRow
    <2>2. ASSUME NEW t \in Session PROVE cached[t] = proposal
      <3>1. cached[t].row \in Nat
        BY DEF IInv, TypeOK, Row
      <3>2. cached[t].row <= proposal.row /\ (cached[t].row = proposal.row => cached[t] = proposal)
        BY DEF IInv, CopyCurrent
      <3> QED
        BY <2>1, <3>1, <3>2
    <2> QED
      BY <1>2, <2>2
  <1>4. \A t \in Session : Idle(t)
    BY <1>3 DEF IInv, CommandsSound, CommandSound, NoRow
  <1>5. analyses = {} /\ reviews = {}
    <2>1. Len(versions) = 0 /\ Len(transitions) = 0
      BY <1>2 DEF IInv, HistoryChain, NoRow
    <2> QED
      BY <2>1 DEF IInv, EvidenceSound
  <1>6. /\ proposal' = [status |-> "DRAFT", current |-> 1, row |-> 1, updated |-> at, creator |-> u]
        /\ cached' = [cached EXCEPT ![s] = proposal']
        /\ pending' = pending /\ analyses' = {} /\ reviews' = {}
    BY <1>5 DEF Create
  <1>7. \E c \in Cutoff : versions' = <<[cutoff |-> c, supersedes |-> 0]>>
    BY DEF Create
  <1>8. Len(versions') = 1 /\ versions'[1].supersedes = 0
    BY <1>7
  <1>9. transitions' =
           <<[action |-> "CREATED", from |-> "ABSENT", to |-> "DRAFT", actor |-> u,
              role |-> AuthorizedRole(u, "CREATED"), version |-> 1, at |-> at, row |-> 1,
              analysis |-> 0]>>
    BY DEF Create
  <1>10. /\ Len(transitions') = 1
         /\ transitions'[1].action = "CREATED" /\ transitions'[1].from = "ABSENT"
         /\ transitions'[1].to = "DRAFT" /\ transitions'[1].version = 1
         /\ transitions'[1].at = at /\ transitions'[1].row = 1
    BY <1>9
  <1>11. CopyCurrent'
    <2>1. cached'[s] = proposal' /\ \A t \in Session \ {s} : cached'[t] = NoRow
      BY <1>3, <1>6 DEF IInv, TypeOK
    <2> QED
      BY <1>6, <1>8, <2>1 DEF CopyCurrent, WellFormed, NoRow
  <1>12. CommandsSound'
    BY <1>4, <1>6 DEF CommandsSound, CommandSound, Idle
  <1>13. HistoryChain' /\ TransitionsSound'
    BY <1>1, <1>6, <1>8, <1>10 DEF HistoryChain, TransitionsSound
  <1>14. SeparationOfDuties' /\ ApprovalSupported'
    BY <1>10 DEF SeparationOfDuties, ApprovalSupported
  <1>15. EvidenceSound' /\ SubmissionStands'
    BY <1>6 DEF EvidenceSound, SubmissionStands
  <1> QED
    BY <1>11, <1>12, <1>13, <1>14, <1>15 DEF IInv

\* Every step keeps the invariant.
LEMMA InvStep == IInv /\ [Next]_vars => IInv'
  <1> SUFFICES ASSUME IInv, [Next]_vars PROVE IInv'
    OBVIOUS
  <1>1. TypeOK /\ TypeOK'
    BY TypeStep DEF IInv
  <1>2. CASE UNCHANGED vars
    <2>1. UNCHANGED database /\ UNCHANGED <<proposal, versions, analyses, reviews, cached, pending>>
      BY <1>2 DEF vars, database
    <2>2. CopyCurrent' /\ CommandsSound'
      BY <2>1 DEF IInv, CopyCurrent, WellFormed, CommandsSound, CommandSound, Idle, Checked,
                  Supported, IsLatest, AnalysesOf, IsClear, HasReview
    <2> QED
      BY <1>1, <2>1, <2>2, DatabaseFrame DEF IInv
  <1>3. ASSUME NEW s \in Session, Read(s) \/ Conflict(s) \/ Close(s) PROVE IInv'
    BY <1>1, <1>3, ReadStep, QuietStep
  <1>4. ASSUME NEW s \in Session, Write(s) PROVE IInv'
    BY <1>1, <1>4, WriteStep, CommitStep, CreateStep DEF Commit
  <1> QED
    BY <1>2, <1>3, <1>4 DEF Next

-----------------------------------------------------------------------------
(* The safety theorems.                                                    *)

\* The inductive invariant holds in every reachable state.
THEOREM Invariance == Spec => []IInv
  BY InvInit, InvStep, PTL DEF Spec

\* The transitions of a proposal are one gapless chain that ends in its row.
THEOREM HistoryComplete == Spec => []HistoryChain
  <1>1. IInv => HistoryChain
    BY DEF IInv
  <1> QED
    BY <1>1, Invariance, PTL

\* No author ever decides on the author's own proposal.
THEOREM DutiesSeparated == Spec => []SeparationOfDuties
  <1>1. IInv => SeparationOfDuties
    BY DEF IInv
  <1> QED
    BY <1>1, Invariance, PTL

\* The evidence a submission cites stays in force while the proposal is reviewed.
THEOREM EvidenceStands == Spec => []EvidenceUnderReview
  <1>1. IInv => EvidenceUnderReview
    <2> SUFFICES ASSUME IInv, proposal.status \in {"SUBMITTED", "UNDER_REVIEW", "APPROVED", "REJECTED"}
                 PROVE  \E t \in Submissions, a \in analyses :
                            /\ t.analysis = a.id
                            /\ a.version = proposal.current
                            /\ a.evidence \in Clear
                            /\ EvidenceCutoff[a.evidence] = versions[proposal.current].cutoff
                            /\ \A b \in analyses : b.version = a.version => b.at <= a.at
      BY DEF EvidenceUnderReview
    <2>1. PICK t \in Submissions, a \in analyses :
              t.analysis = a.id /\ IsLatest(a, proposal.current) /\ IsClear(a)
      BY DEF IInv, SubmissionStands
    <2>2. a.version = proposal.current /\ a.evidence \in Clear
      BY <2>1 DEF IsLatest, AnalysesOf, IsClear
    <2>3. EvidenceCutoff[a.evidence] = versions[proposal.current].cutoff
      BY <2>2 DEF IInv, EvidenceSound
    <2>4. ASSUME NEW b \in analyses, b.version = a.version PROVE b.at <= a.at
      <3>1. a.at \in Nat /\ b.at \in Nat
        BY DEF IInv, TypeOK, Analysis
      <3>2. Precedes(b, a)
        BY <2>1, <2>2, <2>4 DEF IsLatest, AnalysesOf
      <3> QED
        BY <3>1, <3>2 DEF Precedes
    <2> QED
      BY <2>1, <2>2, <2>3, <2>4
  <1> QED
    BY <1>1, Invariance, PTL

\* An approval rests on the analysis submitted and on a recorded review.
THEOREM ApprovalsSupported == Spec => []ApprovalSupported
  <1>1. IInv => ApprovalSupported
    BY DEF IInv
  <1> QED
    BY <1>1, Invariance, PTL

\* A step of a session leaves the database alone, or commits what it checked on
\* the row in force, or creates the proposal.
LEMMA DatabaseStep ==
    ASSUME IInv, [Next]_vars
    PROVE  \/ UNCHANGED database
           \/ \E s \in Session : ~Idle(s) /\ Advance(s) /\ Commit(s)
           \/ \E s \in Session, u \in User, at \in 1..MaxTime : Create(s, u, at)
  <1>1. CASE UNCHANGED vars
    BY <1>1 DEF vars, database
  <1>2. ASSUME NEW s \in Session, Read(s) \/ Conflict(s) \/ Close(s) PROVE UNCHANGED database
    <2>1. TypeOK
      BY DEF IInv
    <2> QED
      BY <1>2, <2>1, ReadStep DEF Load, Start, Conflict, Close, database
  <1>3. ASSUME NEW s \in Session, Write(s)
        PROVE  \/ \E t \in Session : ~Idle(t) /\ Advance(t) /\ Commit(t)
               \/ \E t \in Session, u \in User, at \in 1..MaxTime : Create(t, u, at)
    BY <1>3, WriteStep DEF Commit
  <1> QED
    BY <1>1, <1>2, <1>3 DEF Next

\* A final decision is final for every session, whatever copy it holds.
THEOREM DecisionsFinal == Spec => DecisionFinal
  <1>1. ASSUME IInv, [Next]_vars, proposal.status \in Terminal PROVE UNCHANGED database
    <2>1. ASSUME NEW s \in Session, ~Idle(s), Advance(s), Commit(s) PROVE FALSE
      <3>1. pending[s] \in PendingCommand /\ Checked(pending[s], proposal)
        BY <1>1, <2>1, CommitFacts
      <3>2. pending[s].action \in Command /\ proposal.status \in AllowedFrom[pending[s].action]
        BY <3>1 DEF Checked, PendingCommand
      <3> QED
        BY <1>1, <3>2 DEF Terminal, AllowedFrom, Command, Action
    <2>2. ASSUME NEW s \in Session, NEW u \in User, NEW at \in 1..MaxTime, Create(s, u, at)
          PROVE FALSE
      BY <1>1, <2>2 DEF Create, Terminal
    <2> QED
      BY <1>1, <2>1, <2>2, DatabaseStep
  <1>2. IInv /\ [Next]_vars => [proposal.status \in Terminal => UNCHANGED database]_vars
    BY <1>1
  <1> QED
    BY <1>2, Invariance, PTL DEF Spec, DecisionFinal

\* No commit overwrites another session's: each replaces the row it checked.
THEOREM NoUpdateLost == Spec => NoLostUpdate
  <1> DEFINE Replaces ==
        /\ proposal'.row = proposal.row + 1
        /\ \E s \in Session : cached[s] = proposal /\ cached'[s] = proposal'
        /\ SubSeq(transitions', 1, Len(transitions)) = transitions
  <1>1. ASSUME IInv, [Next]_vars PROVE UNCHANGED database \/ Replaces
    <2>1. ASSUME NEW s \in Session, ~Idle(s), Advance(s), Commit(s) PROVE Replaces
      <3>1. /\ cached[s] = proposal /\ cached'[s] = proposal'
            /\ proposal'.row = proposal.row + 1
        BY <1>1, <2>1, CommitFacts
      <3>2. /\ Len(transitions) \in Nat \ {0} /\ Len(transitions') = Len(transitions) + 1
            /\ \A i \in 1..Len(transitions) : transitions'[i] = transitions[i]
        BY <1>1, <2>1, CommitSequences
      <3>3. transitions \in Seq(Transition) /\ transitions' \in Seq(Transition)
        BY <1>1, TypeStep DEF IInv, TypeOK
      <3>4. SubSeq(transitions', 1, Len(transitions)) = transitions
        BY <3>2, <3>3
      <3> QED
        BY <3>1, <3>4
    <2>2. ASSUME NEW s \in Session, NEW u \in User, NEW at \in 1..MaxTime, Create(s, u, at)
          PROVE Replaces
      <3>1. proposal = NoRow
        BY <1>1, <2>2 DEF Create, IInv, CopyCurrent, WellFormed
      <3>2. proposal.row = 0 /\ proposal'.row = 1
        BY <2>2, <3>1 DEF Create, NoRow
      <3>3. cached[s] = proposal
        BY <1>1, <3>1, <3>2 DEF IInv, CopyCurrent, TypeOK, Row
      <3>4. cached'[s] = proposal'
        BY <1>1, <2>2 DEF Create, IInv, TypeOK
      <3>5. Len(transitions) = 0
        BY <1>1, <3>1 DEF IInv, HistoryChain, NoRow
      <3>6. transitions \in Seq(Transition) /\ transitions' \in Seq(Transition)
        BY <1>1, TypeStep DEF IInv, TypeOK
      <3>7. SubSeq(transitions', 1, Len(transitions)) = transitions
        BY <3>5, <3>6
      <3> QED
        BY <3>2, <3>3, <3>4, <3>7
    <2> QED
      BY <1>1, <2>1, <2>2, DatabaseStep
  <1>2. IInv /\ [Next]_vars => [UNCHANGED database \/ Replaces]_vars
    BY <1>1
  <1> QED
    BY <1>2, Invariance, PTL DEF Spec, NoLostUpdate

-----------------------------------------------------------------------------
(* Refinement: Governance implements ProposalWorkflow.                     *)

\* A check that selects clear evidence for the current version finds it cleared.
LEMMA SelectedIsCleared ==
    ASSUME NEW a \in analyses, IsLatest(a, proposal.current), IsClear(a)
    PROVE  Cleared
  BY DEF IsLatest, IsClear, AnalysesOf, Precedes, Cleared

\* Every commit is a step of the workflow.
LEMMA CommitRefines ==
    ASSUME IInv, NEW s \in Session, ~Idle(s), Advance(s), Commit(s)
    PROVE  Workflow!Next
  <1>1. /\ pending[s] \in PendingCommand
        /\ Checked(pending[s], proposal) /\ Supported(pending[s], proposal)
        /\ proposal.current \in 1..Len(versions) /\ Len(versions) \in Nat
        /\ proposal'.status = pending[s].to
        /\ proposal'.current = IF pending[s].action = "REVISED" THEN proposal.current + 1
                               ELSE proposal.current
        /\ cached[s] = proposal
    BY CommitFacts
  <1>2. /\ pending[s].action \in Command
        /\ pending[s].to = Target(pending[s].action, proposal.status)
        /\ proposal.status \in AllowedFrom[pending[s].action]
    BY <1>1 DEF Checked, PendingCommand
  <1>3. /\ pending[s].action # "ANALYZED" => analyses' = analyses
        /\ pending[s].action # "REVIEW_RECORDED" => reviews' = reviews
    BY CommitHistory
  <1>4. /\ analyses' = analyses /\ proposal'.current = proposal.current => (Cleared' = Cleared)
        /\ reviews' = reviews /\ proposal'.current = proposal.current => (Reviewed' = Reviewed)
    BY DEF Cleared, Reviewed
  <1>5. CASE pending[s].action = "REVISED"
    <2>1. /\ proposal.status \in {"DRAFT", "CHANGES_REQUESTED"} /\ proposal'.status = "DRAFT"
          /\ proposal'.current = proposal.current + 1
      BY <1>1, <1>2, <1>5 DEF AllowedFrom, Target
    <2>2. Len(versions) = proposal.current
      BY DEF IInv, HistoryChain
    <2>3. Cleared' = FALSE
      <3>1. \A a \in analyses' : a.version # proposal'.current
        BY <1>1, <1>3, <1>5, <2>1, <2>2 DEF IInv, EvidenceSound
      <3> QED
        BY <3>1 DEF Cleared
    <2>4. Reviewed' = FALSE
      <3>1. \A r \in reviews' : r.version # proposal'.current
        BY <1>1, <1>3, <1>5, <2>1, <2>2 DEF IInv, EvidenceSound
      <3> QED
        BY <3>1 DEF Reviewed
    <2>5. Workflow!Draft
      BY <2>1, <2>3, <2>4 DEF Workflow!Draft
    <2> QED
      BY <2>5 DEF Workflow!Next
  <1>6. CASE pending[s].action = "ANALYZED"
    <2>1. /\ proposal.status = "DRAFT" /\ proposal'.status = "DRAFT"
          /\ proposal'.current = proposal.current
      BY <1>1, <1>2, <1>6 DEF AllowedFrom, Target
    <2>2. Cleared' \in BOOLEAN
      BY DEF Cleared
    <2>3. Reviewed' = Reviewed
      BY <1>3, <1>4, <1>6, <2>1
    <2>4. Workflow!Analyze
      BY <2>1, <2>2, <2>3 DEF Workflow!Analyze
    <2> QED
      BY <2>4 DEF Workflow!Next
  <1>7. CASE pending[s].action = "REVIEW_RECORDED"
    <2>1. /\ proposal.status \in {"SUBMITTED", "UNDER_REVIEW"}
          /\ proposal'.status = proposal.status
          /\ proposal'.current = proposal.current
      BY <1>1, <1>2, <1>7 DEF AllowedFrom, Target
    <2>2. Cleared' = Cleared
      BY <1>3, <1>4, <1>7, <2>1
    <2>3. Reviewed' = TRUE
      <3>1. CommitReview(s)
        BY <1>7 DEF Commit, CommitRevision, CommitAnalysis, CommitStatus
      <3>2. \E r \in reviews' : r.version = proposal'.current
        <4>1. [version |-> proposal.current, reviewer |-> pending[s].actor] \in reviews'
          BY <1>1, <3>1 DEF CommitReview
        <4> QED
          BY <2>1, <4>1
      <3> QED
        BY <3>2 DEF Reviewed
    <2>4. Workflow!Review
      BY <2>1, <2>2, <2>3 DEF Workflow!Review
    <2> QED
      BY <2>4 DEF Workflow!Next
  <1>8. CASE pending[s].action \in {"SUBMITTED", "REVIEW_STARTED", "CHANGES_REQUESTED",
                                    "APPROVED", "REJECTED", "WITHDRAWN"}
    <2>1. proposal'.current = proposal.current /\ Cleared' = Cleared /\ Reviewed' = Reviewed
      BY <1>1, <1>3, <1>4, <1>8
    <2>2. pending[s].action \in {"SUBMITTED", "APPROVED"} => Cleared
      BY <1>1, SelectedIsCleared DEF Supported
    <2>3. pending[s].action = "APPROVED" => Reviewed
      BY <1>1 DEF Supported, HasReview, Reviewed
    <2>4. CASE pending[s].action = "SUBMITTED"
      <3>1. proposal.status = "DRAFT" /\ proposal'.status = "SUBMITTED"
        BY <1>1, <1>2, <2>4 DEF AllowedFrom, Target
      <3> QED
        BY <2>1, <2>2, <2>4, <3>1 DEF Workflow!Next, Workflow!Submit, Workflow!Move
    <2>5. CASE pending[s].action = "REVIEW_STARTED"
      <3>1. proposal.status = "SUBMITTED" /\ proposal'.status = "UNDER_REVIEW"
        BY <1>1, <1>2, <2>5 DEF AllowedFrom, Target
      <3> QED
        BY <2>1, <3>1 DEF Workflow!Next, Workflow!StartReview, Workflow!Move
    <2>6. CASE pending[s].action = "CHANGES_REQUESTED"
      <3>1. proposal.status \in {"SUBMITTED", "UNDER_REVIEW"} /\ proposal'.status = "CHANGES_REQUESTED"
        BY <1>1, <1>2, <2>6 DEF AllowedFrom, Target
      <3> QED
        BY <2>1, <3>1 DEF Workflow!Next, Workflow!RequestChanges, Workflow!Move
    <2>7. CASE pending[s].action = "APPROVED"
      <3>1. proposal.status = "UNDER_REVIEW" /\ proposal'.status = "APPROVED"
        BY <1>1, <1>2, <2>7 DEF AllowedFrom, Target
      <3> QED
        BY <2>1, <2>2, <2>3, <2>7, <3>1 DEF Workflow!Next, Workflow!Approve, Workflow!Move
    <2>8. CASE pending[s].action = "REJECTED"
      <3>1. proposal.status = "UNDER_REVIEW" /\ proposal'.status = "REJECTED"
        BY <1>1, <1>2, <2>8 DEF AllowedFrom, Target
      <3> QED
        BY <2>1, <3>1 DEF Workflow!Next, Workflow!Reject, Workflow!Move
    <2>9. CASE pending[s].action = "WITHDRAWN"
      <3>1. proposal.status \in {"DRAFT", "SUBMITTED", "CHANGES_REQUESTED"}
            /\ proposal'.status = "WITHDRAWN"
        BY <1>1, <1>2, <2>9 DEF AllowedFrom, Target
      <3> QED
        BY <2>1, <3>1 DEF Workflow!Next, Workflow!Withdraw, Workflow!Move
    <2> QED
      BY <1>8, <2>4, <2>5, <2>6, <2>7, <2>8, <2>9
  <1> QED
    BY <1>2, <1>5, <1>6, <1>7, <1>8 DEF Command, Action

\* Every behaviour of the sessions is a behaviour of the workflow ADR 0016
\* promises: no interleaving, stale copy or rollback shows through.
THEOREM WorkflowImplemented == Spec => ImplementsWorkflow
  <1>1. Init => Workflow!Init
    BY DEF Init, NoRow, Workflow!Init, Cleared, Reviewed
  <1>2. ASSUME IInv, [Next]_vars PROVE [Workflow!Next]_Workflow!wvars
    <2>1. CASE UNCHANGED database
      <3>1. proposal' = proposal /\ Cleared' = Cleared /\ Reviewed' = Reviewed
        BY <2>1 DEF database, Cleared, Reviewed
      <3> QED
        BY <3>1 DEF Workflow!wvars
    <2>2. ASSUME NEW s \in Session, ~Idle(s), Advance(s), Commit(s) PROVE Workflow!Next
      BY <1>2, <2>2, CommitRefines
    <2>3. ASSUME NEW s \in Session, NEW u \in User, NEW at \in 1..MaxTime, Create(s, u, at)
          PROVE Workflow!Next
      <3>1. proposal = NoRow
        BY <1>2, <2>3 DEF Create, IInv, CopyCurrent, WellFormed
      <3>2. analyses' = {} /\ reviews' = {}
        <4>1. Len(versions) = 0
          BY <1>2, <3>1 DEF IInv, HistoryChain, NoRow
        <4> QED
          BY <1>2, <2>3, <4>1 DEF Create, IInv, EvidenceSound
      <3>3. Cleared' = FALSE /\ Reviewed' = FALSE
        BY <3>2 DEF Cleared, Reviewed
      <3>4. /\ proposal.status = "ABSENT" /\ proposal.current = 0
            /\ proposal'.status = "DRAFT" /\ proposal'.current = 1
        BY <2>3, <3>1 DEF Create, NoRow
      <3> QED
        BY <3>3, <3>4 DEF Workflow!Next, Workflow!Draft
    <2> QED
      BY <1>2, <2>1, <2>2, <2>3, DatabaseStep
  <1>3. IInv /\ [Next]_vars => [Workflow!Next]_Workflow!wvars
    BY <1>2
  <1> QED
    BY <1>1, <1>3, Invariance, PTL DEF Spec, ImplementsWorkflow, Workflow!Spec
=============================================================================
