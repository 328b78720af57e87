---------------------------- MODULE LedgerProofs ----------------------------
(***************************************************************************)
(* Proofs about Ledger, for every set of commands and sessions, and about  *)
(* Imports, for every set of files and rows.  An import is a sequence of   *)
(* create calls, so what is established of them holds in every import.     *)
(***************************************************************************)
EXTENDS Imports, FiniteSetTheorems, TLAPS

\* The facts every session sees.
Committed == {r.cmd : r \in ledger}

-----------------------------------------------------------------------------
(* What a session sees.                                                    *)

RowsSeen(rows, posted, marked) ==
    {[cmd |-> r.cmd, status |-> IF r.cmd \in marked THEN "REVERSED" ELSE r.status] :
        r \in rows \cup {[cmd |-> c, status |-> "POSTED"] : c \in posted}}

LEMMA RowsSplit ==
    ASSUME NEW rows, NEW posted, NEW marked
    PROVE  {r.cmd : r \in RowsSeen(rows, posted, marked)} = {r.cmd : r \in rows} \cup posted
  <1> DEFINE seen == {r.cmd : r \in RowsSeen(rows, posted, marked)}
             row(c) == [cmd |-> c, status |-> "POSTED"]
             mark(r) == [cmd |-> r.cmd,
                         status |-> IF r.cmd \in marked THEN "REVERSED" ELSE r.status]
  <1>1. ASSUME NEW c \in seen PROVE c \in {r.cmd : r \in rows} \cup posted
    BY <1>1 DEF RowsSeen
  <1>2. ASSUME NEW r \in rows PROVE r.cmd \in seen
    <2>1. mark(r) \in RowsSeen(rows, posted, marked)
      BY <1>2 DEF RowsSeen
    <2> QED
      BY <2>1
  <1>3. ASSUME NEW c \in posted PROVE c \in seen
    <2>1. row(c) \in rows \cup {row(d) : d \in posted}
      BY <1>3
    <2>2. mark(row(c)) \in RowsSeen(rows, posted, marked)
      BY <2>1 DEF RowsSeen
    <2> QED
      BY <2>2
  <1> QED
    BY <1>1, <1>2, <1>3

LEMMA FactsSplit ==
    ASSUME NEW s \in Session
    PROVE  Facts(s) = Committed \cup work[s].posted
  <1>1. Visible(s) = RowsSeen(ledger, work[s].posted, work[s].marked)
    BY DEF Visible, RowsSeen
  <1>2. {r.cmd : r \in RowsSeen(ledger, work[s].posted, work[s].marked)}
          = {r.cmd : r \in ledger} \cup work[s].posted
    BY RowsSplit
  <1> QED
    BY <1>1, <1>2 DEF Facts, Committed

LEMMA FactsSplitNext ==
    ASSUME NEW s \in Session
    PROVE  Facts(s)' = Committed' \cup work'[s].posted
  <1>1. Visible(s)' = RowsSeen(ledger', work'[s].posted, work'[s].marked)
    BY DEF Visible, RowsSeen
  <1>2. {r.cmd : r \in RowsSeen(ledger', work'[s].posted, work'[s].marked)}
          = {r.cmd : r \in ledger'} \cup work'[s].posted
    BY RowsSplit
  <1> QED
    BY <1>1, <1>2 DEF Facts, Committed

\* A row that is still POSTED in the session's eyes.
LEMMA PostedRow ==
    ASSUME NEW s \in Session, NEW r \in Visible(s), r.status = "POSTED"
    PROVE  /\ r.cmd \notin work[s].marked
           /\ \/ \E q \in ledger : q.cmd = r.cmd /\ q.status = "POSTED"
              \/ r.cmd \in work[s].posted
  BY DEF Visible

\* The facts session s may still see as POSTED.
ActiveIn(s) ==
    {c \in Command :
        /\ (\E q \in ledger : q.cmd = c /\ q.status = "POSTED") \/ c \in work[s].posted
        /\ c \notin work[s].marked}

LEMMA PostedIsActive ==
    ASSUME TypeOK, NEW s \in Session, NEW r \in Visible(s), r.status = "POSTED"
    PROVE  r.cmd \in ActiveIn(s)
  <1>1. r.cmd \in Command
    BY PostedRow DEF TypeOK
  <1> QED
    BY <1>1, PostedRow DEF ActiveIn

LEMMA OwnIsVisible ==
    ASSUME NEW s \in Session, NEW c \in work[s].posted, c \notin work[s].marked
    PROVE  \E r \in Visible(s) : r.cmd = c /\ r.status = "POSTED"
  <1> DEFINE row == [cmd |-> c, status |-> "POSTED"]
  <1>1. row \in ledger \cup {[cmd |-> d, status |-> "POSTED"] : d \in work[s].posted}
    OBVIOUS
  <1>2. [cmd |-> row.cmd, status |-> IF row.cmd \in work[s].marked THEN "REVERSED" ELSE row.status]
          \in Visible(s)
    BY <1>1 DEF Visible
  <1> QED
    BY <1>2

-----------------------------------------------------------------------------
(* The inductive invariant.                                                *)

\* No two facts clash, neither in a session's view nor in two open transactions.
NoClashOpen ==
    /\ \A s \in Session : \A c, d \in Committed \cup work[s].posted : Clash(c, d) => c = d
    /\ \A s, t \in Session : s # t =>
         \A c \in work[s].posted, d \in work[t].posted : ~ Clash(c, d)
    /\ \A s \in Session : work[s].posted \cap Committed = {}

\* Every reversal's target is there, in the ledger for a committed reversal.
TargetsThere ==
    /\ \A r \in Committed : r.kind = "REVERSAL" =>
         \E c \in Committed : c.key = r.target /\ c.kind # "REVERSAL" /\ c.account = r.account
    /\ \A s \in Session : \A r \in work[s].posted : r.kind = "REVERSAL" =>
         \E c \in Committed \cup work[s].posted :
             c.key = r.target /\ c.kind # "REVERSAL" /\ c.account = r.account

\* A session marks the targets of its own reversals and nothing else.
MarksMatch ==
    \A s \in Session : \A c \in Command :
        c \in work[s].marked <=>
            /\ c \in Committed \cup work[s].posted
            /\ \E r \in work[s].posted : r.kind = "REVERSAL" /\ r.target = c.key

\* One active opening in every scope: in the ledger, in every session's view,
\* and between open transactions.
OpeningsApart ==
    /\ \A r, q \in ledger :
         r.status = "POSTED" /\ q.status = "POSTED" /\ SameOpening(r.cmd, q.cmd) => r.cmd = q.cmd
    /\ \A s \in Session : \A c, d \in ActiveIn(s) : SameOpening(c, d) => c = d
    /\ \A s, t \in Session : s # t =>
         \A c \in work[s].posted, d \in work[t].posted : ~ SameOpening(c, d)

\* What a call has established about its own session's work.
CallsSound ==
    /\ \A s \in Session : \A c \in Committed \cup work[s].posted : Valid(c)
    /\ \A s \in Session : ~ Idle(s) =>
         /\ Valid(call[s].cmd)
         /\ \A d \in work[s].posted : d.key # call[s].cmd.key
    /\ \A s \in Session : call[s].step = "INSERT" =>
         /\ call[s].cmd.kind = "REVERSAL" =>
              /\ \E c \in Committed \cup work[s].posted :
                   /\ c.key = call[s].cmd.target
                   /\ c.kind # "REVERSAL"
                   /\ c.account = call[s].cmd.account
              /\ \A r \in work[s].posted : ~ (r.kind = "REVERSAL" /\ r.target = call[s].cmd.target)
         /\ \A d \in work[s].posted : d \notin work[s].marked => ~ SameOpening(call[s].cmd, d)

IInv ==
    /\ TypeOK
    /\ NoClashOpen
    /\ TargetsThere
    /\ MarksMatch
    /\ OpeningsApart
    /\ CallsSound
    /\ StatusProjection
    /\ AnswersStand

-----------------------------------------------------------------------------
(* Type correctness.                                                       *)

WorkRecord ==
    [posted : SUBSET Command, marked : SUBSET Command, conflicts : SUBSET ConflictRow,
     answers : SUBSET [cmd : Command, status : {"CREATED", "DUPLICATE", "CONFLICT"}],
     calls : Nat]

LEMMA AnswerType ==
    ASSUME TypeOK, NEW s \in Session, NEW c \in Command,
           NEW status \in {"CREATED", "DUPLICATE", "CONFLICT"},
           NEW posted \in SUBSET Command, NEW marked \in SUBSET Command,
           NEW evidence \in SUBSET ConflictRow,
           Answer(s, c, status, posted, marked, evidence)
    PROVE  work' \in [Session -> WorkRecord]
  <1>1. work \in [Session -> WorkRecord]
    BY DEF TypeOK, WorkRecord
  <1>2. work[s].calls + 1 \in Nat
    BY <1>1 DEF WorkRecord
  <1>3. [cmd |-> c, status |-> status] \in [cmd : Command, status : {"CREATED", "DUPLICATE", "CONFLICT"}]
    OBVIOUS
  <1> QED
    BY <1>1, <1>2, <1>3 DEF Answer, WorkRecord

LEMMA TargetType ==
    ASSUME TypeOK, NEW s \in Session, NEW c
    PROVE  Marked(s, c) \in SUBSET Command
  <1>1. Committed \cup work[s].posted \subseteq Command
    BY DEF TypeOK, Committed
  <1> QED
    BY <1>1, FactsSplit DEF Marked, Target

LEMMA VisibleType ==
    ASSUME TypeOK, NEW s \in Session
    PROVE  Visible(s) \subseteq [cmd : Command, status : {"POSTED", "REVERSED"}]
  <1> DEFINE rows == ledger \cup {[cmd |-> c, status |-> "POSTED"] : c \in work[s].posted}
  <1>1. rows \subseteq [cmd : Command, status : {"POSTED", "REVERSED"}]
    BY DEF TypeOK
  <1> QED
    BY <1>1 DEF Visible

LEMMA NoWorkType == NoWork \in WorkRecord
  BY DEF NoWork, WorkRecord

LEMMA TypeInit == Init => TypeOK
  <1> SUFFICES ASSUME Init PROVE TypeOK
    OBVIOUS
  <1>2. work \in [Session -> WorkRecord]
    BY NoWorkType DEF Init
  <1> QED
    BY <1>2 DEF Init, TypeOK, WorkRecord

LEMMA TypeStep ==
    ASSUME TypeOK, [Next]_vars
    PROVE  TypeOK'
  <1>1. ASSUME work' \in [Session -> WorkRecord],
               ledger' \subseteq [cmd : Command, status : {"POSTED", "REVERSED"}],
               conflicts' \subseteq ConflictRow,
               call' \in [Session -> [step : {"VALIDATE", "INSERT"}, cmd : Command] \cup {NoCall}]
        PROVE TypeOK'
    BY <1>1 DEF TypeOK, WorkRecord
  <1>2. CASE UNCHANGED vars
    BY <1>2 DEF vars, TypeOK, ConflictRow
  <1>3. ASSUME NEW s \in Session, NEW c \in Command, Duplicate(s, c) PROVE TypeOK'
    <2>1. work' \in [Session -> WorkRecord]
      BY <1>3, AnswerType DEF Duplicate
    <2> QED
      BY <1>1, <1>3, <2>1 DEF Duplicate, TypeOK
  <1>4. ASSUME NEW s \in Session, NEW c \in Command, RecordConflict(s, c) PROVE TypeOK'
    <2>1. Evidence(s, c) \in SUBSET ConflictRow
      BY DEF Evidence, ConflictRow
    <2>2. work' \in [Session -> WorkRecord]
      BY <1>4, <2>1, AnswerType DEF RecordConflict
    <2> QED
      BY <1>1, <1>4, <2>2 DEF RecordConflict, TypeOK
  <1>5. ASSUME NEW s \in Session, NEW c \in Command, Lookup(s, c) PROVE TypeOK'
    BY <1>1, <1>5 DEF Lookup, TypeOK, WorkRecord
  <1>6. ASSUME NEW s \in Session, Validate(s) PROVE TypeOK'
    <2>1. call' \in [Session -> [step : {"VALIDATE", "INSERT"}, cmd : Command] \cup {NoCall}]
      <3>1. call[s] \in [step : {"VALIDATE", "INSERT"}, cmd : Command]
        BY <1>6 DEF Validate, TypeOK, NoCall
      <3> QED
        BY <1>6, <3>1 DEF Validate, TypeOK
    <2>2. work' \in [Session -> WorkRecord]
      <3>1. work \in [Session -> WorkRecord]
        BY DEF TypeOK, WorkRecord
      <3>2. work[s].calls + 1 \in Nat
        BY <3>1 DEF WorkRecord
      <3> QED
        BY <1>6, <3>1, <3>2 DEF Validate, WorkRecord
    <2> QED
      BY <1>1, <1>6, <2>1, <2>2 DEF Validate, TypeOK
  <1>7. ASSUME NEW s \in Session, Post(s) PROVE TypeOK'
    <2>1. call[s].cmd \in Command
      BY <1>7 DEF Post, TypeOK, NoCall
    <2>2. Marked(s, call[s].cmd) \in SUBSET Command
      BY TargetType
    <2>3. work' \in [Session -> WorkRecord]
      BY <1>7, <2>1, <2>2, AnswerType DEF Post
    <2> QED
      BY <1>1, <1>7, <2>3 DEF Post, TypeOK
  <1>8. ASSUME NEW s \in Session, Undo(s) PROVE TypeOK'
    <2>1. work' \in [Session -> WorkRecord]
      BY <1>8, NoWorkType DEF Undo, TypeOK, WorkRecord
    <2> QED
      BY <1>1, <1>8, <2>1 DEF Undo, TypeOK
  <1>9. ASSUME NEW s \in Session, Commit(s) PROVE TypeOK'
    <2>1. work' \in [Session -> WorkRecord]
      BY <1>9, NoWorkType DEF Commit, TypeOK, WorkRecord
    <2>2. conflicts' \subseteq ConflictRow
      BY <1>9 DEF Commit, TypeOK
    <2> QED
      BY <1>1, <1>9, <2>1, <2>2, VisibleType DEF Commit, TypeOK
  <1> QED
    BY <1>2, <1>3, <1>4, <1>5, <1>6, <1>7, <1>8, <1>9
    DEF Next, Create, InsertFails, AbortedByDeadlock, Rollback

-----------------------------------------------------------------------------
(* The steps that post nothing: what a session sees stays.                 *)

Quiet ==
    /\ ledger' = ledger
    /\ \A s \in Session :
         work'[s].posted = work[s].posted /\ work'[s].marked = work[s].marked

LEMMA QuietStep ==
    ASSUME IInv, Quiet
    PROVE  NoClashOpen' /\ TargetsThere' /\ MarksMatch' /\ OpeningsApart' /\ StatusProjection'
  <1>1. Committed' = Committed
    BY DEF Quiet, Committed
  <1>2. ASSUME NEW s \in Session PROVE ActiveIn(s)' = ActiveIn(s)
    BY <1>2 DEF Quiet, ActiveIn
  <1>3. NoClashOpen' /\ TargetsThere'
    BY <1>1 DEF IInv, Quiet, NoClashOpen, TargetsThere
  <1>4. MarksMatch'
    BY <1>1 DEF IInv, Quiet, MarksMatch
  <1>5. OpeningsApart'
    BY <1>2 DEF IInv, Quiet, OpeningsApart
  <1>6. StatusProjection'
    BY DEF IInv, Quiet, StatusProjection
  <1> QED
    BY <1>3, <1>4, <1>5, <1>6

LEMMA QuietFacts ==
    ASSUME Quiet, NEW s \in Session
    PROVE  Facts(s)' = Facts(s)
  <1>1. Facts(s)' = Committed' \cup work'[s].posted
    BY FactsSplitNext
  <1> QED
    BY <1>1, FactsSplit DEF Quiet, Committed

\* What an answer leaves alone.
LEMMA AnswerFields ==
    ASSUME TypeOK, NEW s \in Session, NEW c, NEW status, NEW posted, NEW marked, NEW evidence,
           Answer(s, c, status, posted, marked, evidence)
    PROVE  /\ work'[s].posted = work[s].posted \cup posted
           /\ work'[s].marked = work[s].marked \cup marked
           /\ work'[s].conflicts = work[s].conflicts \cup evidence
           /\ work'[s].answers = work[s].answers \cup {[cmd |-> c, status |-> status]}
           /\ \A t \in Session : t # s => work'[t] = work[t]
  <1>1. work \in [Session -> WorkRecord]
    BY DEF TypeOK, WorkRecord
  <1> QED
    BY <1>1 DEF Answer, WorkRecord

\* Answers that stood, stand as long as no fact leaves or enters the view
\* and no evidence is lost.
Stands(s, a) ==
    \/ a.status \in {"CREATED", "DUPLICATE"} /\ Existing(s, a.cmd) = {a.cmd}
    \/ /\ a.status = "CONFLICT"
       /\ Existing(s, a.cmd) # {} /\ a.cmd \notin Existing(s, a.cmd)
       /\ BatchOf[s] # None =>
            [batch |-> BatchOf[s], cmd |-> a.cmd] \in work[s].conflicts \cup conflicts

LEMMA StandsKept ==
    ASSUME NEW s \in Session, NEW a, Stands(s, a), Facts(s)' = Facts(s),
           work[s].conflicts \subseteq work'[s].conflicts, conflicts \subseteq conflicts'
    PROVE  Stands(s, a)'
  <1>1. Existing(s, a.cmd)' = Existing(s, a.cmd)
    BY DEF Existing
  <1> QED
    BY <1>1 DEF Stands

LEMMA AnswersStandAll == AnswersStand <=> \A s \in Session : \A a \in work[s].answers : Stands(s, a)
  BY DEF AnswersStand, Stands

LEMMA AnswersStandNext ==
    AnswersStand' <=> \A s \in Session : \A a \in work'[s].answers : Stands(s, a)'
  BY DEF AnswersStand, Stands

\* DUPLICATE and CONFLICT.
LEMMA AnsweredStep ==
    ASSUME IInv, NEW s \in Session, NEW c \in Command, Duplicate(s, c) \/ RecordConflict(s, c)
    PROVE  Quiet /\ CallsSound' /\ AnswersStand'
  <1> DEFINE status == IF Duplicate(s, c) THEN "DUPLICATE" ELSE "CONFLICT"
             evidence == IF Duplicate(s, c) THEN {} ELSE Evidence(s, c)
  <1>1. Answer(s, c, status, {}, {}, evidence)
    BY DEF Duplicate, RecordConflict
  <1>2. /\ work'[s].posted = work[s].posted \cup {}
        /\ work'[s].marked = work[s].marked \cup {}
        /\ work'[s].conflicts = work[s].conflicts \cup evidence
        /\ work'[s].answers = work[s].answers \cup {[cmd |-> c, status |-> status]}
        /\ \A t \in Session : t # s => work'[t] = work[t]
    <2>1. TypeOK
      BY DEF IInv
    <2> HIDE DEF status, evidence
    <2> QED
      BY <1>1, <2>1, AnswerFields
  <1>3. ledger' = ledger /\ conflicts' = conflicts /\ call' = call
    BY DEF Duplicate, RecordConflict
  <1>4. Quiet
    BY <1>2, <1>3 DEF Quiet
  <1>5. CallsSound'
    BY <1>3, <1>4 DEF IInv, CallsSound, Quiet, Committed, Idle
  <1>6. ASSUME NEW t \in Session, NEW a \in work'[t].answers PROVE Stands(t, a)'
    <2>1. Facts(t)' = Facts(t)
      BY <1>4, QuietFacts
    <2>2. CASE a \in work[t].answers
      <3>1. Stands(t, a)
        BY <2>2, AnswersStandAll DEF IInv
      <3>2. work[t].conflicts \subseteq work'[t].conflicts /\ conflicts \subseteq conflicts'
        BY <1>2, <1>3
      <3> QED
        BY <2>1, <3>1, <3>2, StandsKept
    <2>3. CASE t = s /\ a = [cmd |-> c, status |-> status]
      <3>1. Existing(s, c)' = Existing(s, c)
        BY <2>1, <2>3 DEF Existing
      <3>2. \A d, e \in Facts(s) : d.key = e.key => d = e
        BY FactsSplit DEF IInv, NoClashOpen, Clash
      <3>3. CASE Duplicate(s, c)
        <4>1. c \in Existing(s, c)
          BY <3>3 DEF Duplicate, SameEconomics
        <4>2. Existing(s, c) = {c}
          BY <4>1, <3>2 DEF Existing
        <4> QED
          BY <2>3, <3>1, <3>3, <4>2 DEF Stands
      <3>4. CASE ~ Duplicate(s, c)
        <4>1. PICK d \in Existing(s, c) : d # c
          BY <3>4 DEF RecordConflict, SameEconomics
        <4>2. c \notin Existing(s, c)
          BY <4>1, <3>2 DEF Existing
        <4>3. BatchOf[s] # None => [batch |-> BatchOf[s], cmd |-> c] \in work'[s].conflicts
          BY <1>2, <3>4 DEF Evidence
        <4> QED
          BY <2>3, <3>1, <3>4, <4>1, <4>2, <4>3 DEF Stands
      <3> QED
        BY <3>3, <3>4
    <2> QED
      BY <1>2, <2>2, <2>3
  <1> QED
    BY <1>4, <1>5, <1>6, AnswersStandNext

LEMMA LookupStep ==
    ASSUME IInv, NEW s \in Session, NEW c \in Command, Lookup(s, c)
    PROVE  Quiet /\ CallsSound' /\ AnswersStand'
  <1>1. /\ ledger' = ledger /\ conflicts' = conflicts /\ work' = work
        /\ \A t \in Session : t # s => call'[t] = call[t]
        /\ call'[s] = [step |-> "VALIDATE", cmd |-> c]
    BY DEF Lookup, IInv, TypeOK
  <1>2. Quiet
    BY <1>1 DEF Quiet
  <1>3. \A d \in work[s].posted : d.key # c.key
    BY FactsSplit DEF Lookup, Existing
  <1>4. CallsSound'
    BY <1>1, <1>3 DEF IInv, CallsSound, Committed, Idle, Lookup
  <1>5. AnswersStand'
    <2>1. \A t \in Session : \A a \in work[t].answers : Stands(t, a)' <=> Stands(t, a)
      BY <1>1 DEF Stands, Existing, Facts, Visible
    <2>2. \A t \in Session : \A a \in work[t].answers : Stands(t, a)
      BY DEF IInv, AnswersStand, Stands
    <2> QED
      BY <1>1, <2>1, <2>2, AnswersStandNext
  <1> QED
    BY <1>2, <1>4, <1>5

LEMMA ValidateStep ==
    ASSUME IInv, NEW s \in Session, Validate(s)
    PROVE  Quiet /\ CallsSound' /\ AnswersStand'
  <1> DEFINE c == call[s].cmd
  <1>1. /\ ledger' = ledger /\ conflicts' = conflicts
        /\ \A t \in Session :
             /\ work'[t].posted = work[t].posted
             /\ work'[t].marked = work[t].marked
             /\ work'[t].answers = work[t].answers
             /\ work'[t].conflicts = work[t].conflicts
        /\ \A t \in Session : t # s => call'[t] = call[t]
    <2>1. /\ work = [t \in Session |-> work[t]] /\ call = [t \in Session |-> call[t]]
          /\ \A t \in Session : work[t] \in WorkRecord
      BY DEF IInv, TypeOK, WorkRecord
    <2>2. \/ work' = work
          \/ work' = [work EXCEPT ![s].calls = work[s].calls + 1]
      BY DEF Validate
    <2>3. \A t \in Session :
             /\ work'[t].posted = work[t].posted
             /\ work'[t].marked = work[t].marked
             /\ work'[t].answers = work[t].answers
             /\ work'[t].conflicts = work[t].conflicts
      BY ONLY <2>1, <2>2 DEF WorkRecord
    <2>4. \A t \in Session : t # s => call'[t] = call[t]
      BY <2>1 DEF Validate
    <2> QED
      BY <2>3, <2>4 DEF Validate
  <1>2. Quiet
    BY <1>1 DEF Quiet
  <1>3. CallsSound'
    <2>1. CASE Acceptable(s, c)
      <3>1. call'[s].step = "INSERT" /\ call'[s].cmd = c
        BY <2>1 DEF Validate, IInv, TypeOK, NoCall
      <3>2. ASSUME c.kind = "REVERSAL"
            PROVE  /\ \E d \in Committed \cup work[s].posted :
                        d.key = c.target /\ d.kind # "REVERSAL" /\ d.account = c.account
                   /\ \A r \in work[s].posted : ~ (r.kind = "REVERSAL" /\ r.target = c.target)
        BY <2>1, <3>2, FactsSplit DEF Acceptable, Reversible, Target
      <3>3. ASSUME NEW d \in work[s].posted, d \notin work[s].marked PROVE ~ SameOpening(c, d)
        <4>1. PICK r \in Visible(s) : r.cmd = d /\ r.status = "POSTED"
          BY <3>3, OwnIsVisible
        <4>2. SameOpening(c, d) => Activity(c, d)
          BY DEF SameOpening, Activity
        <4>3. SameOpening(c, d) => ~ HasPostedActivity(s, c)
          BY <2>1 DEF SameOpening, Acceptable
        <4> QED
          BY <4>1, <4>2, <4>3 DEF HasPostedActivity
      <3>4. ~ Idle(s)
        BY DEF Validate, Idle
      <3> QED
        BY <1>1, <3>1, <3>2, <3>3, <3>4 DEF IInv, CallsSound, Committed, Idle
    <2>2. CASE ~ Acceptable(s, c)
      <3>1. call'[s] = NoCall
        BY <2>2 DEF Validate, IInv, TypeOK
      <3> QED
        BY <1>1, <3>1 DEF IInv, CallsSound, Committed, Idle, NoCall
    <2> QED
      BY <2>1, <2>2
  <1>4. ASSUME NEW t \in Session, NEW a \in work'[t].answers PROVE Stands(t, a)'
    <2>1. Facts(t)' = Facts(t)
      BY <1>2, QuietFacts
    <2>2. Stands(t, a)
      BY <1>1, AnswersStandAll DEF IInv
    <2> QED
      BY <1>1, <2>1, <2>2, StandsKept
  <1> QED
    BY <1>2, <1>3, <1>4, AnswersStandNext

-----------------------------------------------------------------------------
(* The INSERT.                                                             *)

LEMMA ClashSymmetric ==
    ASSUME NEW c, NEW d
    PROVE  (Clash(c, d) <=> Clash(d, c)) /\ (SameOpening(c, d) <=> SameOpening(d, c))
  BY DEF Clash, SameOpening

\* What the INSERT and the UPDATE of the target do.
Posted(s, c) ==
    /\ ledger' = ledger
    /\ conflicts' = conflicts
    /\ work'[s].posted = work[s].posted \cup {c}
    /\ work'[s].marked = work[s].marked \cup Marked(s, c)
    /\ work'[s].conflicts = work[s].conflicts
    /\ work'[s].answers = work[s].answers \cup {[cmd |-> c, status |-> "CREATED"]}
    /\ \A t \in Session : t # s => work'[t] = work[t]
    /\ call' = [call EXCEPT ![s] = NoCall]

LEMMA PostEffect ==
    ASSUME TypeOK, NEW s \in Session, Post(s)
    PROVE  Posted(s, call[s].cmd) /\ call[s].cmd \in Command
  <1> DEFINE c == call[s].cmd
             marked == Marked(s, c)
  <1>1. Answer(s, c, "CREATED", {c}, marked, {}) /\ ledger' = ledger /\ conflicts' = conflicts
    BY DEF Post
  <1>2. call' = [call EXCEPT ![s] = NoCall]
    BY DEF Post
  <1>3. c \in Command
    BY DEF Post, TypeOK, NoCall
  <1>4. /\ work'[s].posted = work[s].posted \cup {c}
        /\ work'[s].marked = work[s].marked \cup marked
        /\ work'[s].conflicts = work[s].conflicts \cup {}
        /\ work'[s].answers = work[s].answers \cup {[cmd |-> c, status |-> "CREATED"]}
        /\ \A t \in Session : t # s => work'[t] = work[t]
    <2> HIDE DEF c, marked
    <2> QED
      BY <1>1, AnswerFields
  <1> QED
    BY <1>1, <1>2, <1>3, <1>4 DEF Posted

\* The new fact clashes with nothing, here or elsewhere.
LEMMA PostIsFresh ==
    ASSUME IInv, NEW s \in Session, Post(s), NEW c, c = call[s].cmd
    PROVE  /\ \A d \in Committed \cup work[s].posted : ~ Clash(c, d)
           /\ \A t \in Session : t # s => \A d \in work[t].posted : ~ Clash(c, d) /\ ~ SameOpening(c, d)
           /\ \A d \in ActiveIn(s) : ~ SameOpening(c, d)
  <1>1. \A d \in Committed : ~ Clash(c, d)
    BY DEF Post, Violates, Committed
  <1>2. \A d \in work[s].posted : ~ Clash(c, d)
    BY DEF Post, Idle, IInv, CallsSound, Clash
  <1>3. \A t \in Session : t # s => \A d \in work[t].posted : ~ Clash(c, d) /\ ~ SameOpening(c, d)
    BY DEF Post, WaitsFor
  <1>4. ASSUME NEW d \in ActiveIn(s) PROVE ~ SameOpening(c, d)
    <2>1. CASE d \in work[s].posted
      BY <1>4, <2>1 DEF Post, IInv, CallsSound, ActiveIn
    <2>2. CASE \E q \in ledger : q.cmd = d /\ q.status = "POSTED"
      <3>1. PICK q \in ledger : q.cmd = d /\ q.status = "POSTED"
        BY <2>2
      <3>2. d \notin work[s].marked
        BY <1>4 DEF ActiveIn
      <3>3. ASSUME SameOpening(c, d) PROVE FALSE
        <4>1. PICK u \in Session : d \in work[u].marked
          BY <3>1, <3>3 DEF Post, Violates
        <4> QED
          BY <3>1, <3>2, <3>3, <4>1 DEF Post, WaitsFor
      <3> QED
        BY <3>3
    <2> QED
      BY <1>4, <2>1, <2>2 DEF ActiveIn
  <1> QED
    BY <1>1, <1>2, <1>3, <1>4

LEMMA PostStep ==
    ASSUME IInv, NEW s \in Session, Post(s)
    PROVE  /\ NoClashOpen' /\ TargetsThere' /\ MarksMatch' /\ OpeningsApart'
           /\ StatusProjection' /\ CallsSound' /\ AnswersStand'
  <1>1. PICK c \in Command : c = call[s].cmd /\ Posted(s, c)
    BY PostEffect DEF IInv
  <1>2. /\ \A d \in Committed \cup work[s].posted : ~ Clash(c, d)
        /\ \A t \in Session : t # s => \A d \in work[t].posted : ~ Clash(c, d) /\ ~ SameOpening(c, d)
        /\ \A d \in ActiveIn(s) : ~ SameOpening(c, d)
    BY <1>1, PostIsFresh
  <1>3. Committed' = Committed
    BY <1>1 DEF Posted, Committed
  <1>4. /\ work'[s].posted = work[s].posted \cup {c}
        /\ work'[s].marked = work[s].marked \cup Marked(s, c)
        /\ \A t \in Session : t # s => work'[t] = work[t]
    BY <1>1 DEF Posted
  <1>5. c.kind = "REVERSAL" =>
          /\ \E d \in Committed \cup work[s].posted :
               d.key = c.target /\ d.kind # "REVERSAL" /\ d.account = c.account
          /\ \A r \in work[s].posted : ~ (r.kind = "REVERSAL" /\ r.target = c.target)
    BY <1>1 DEF Post, IInv, CallsSound
  <1>6. NoClashOpen'
    <2>1. ASSUME NEW t \in Session,
                 NEW d \in (Committed \cup work[t].posted)',
                 NEW e \in (Committed \cup work[t].posted)', Clash(d, e)
          PROVE d = e
      BY <1>2, <1>3, <1>4, <2>1, ClashSymmetric DEF IInv, NoClashOpen
    <2>2. ASSUME NEW t \in Session, NEW u \in Session, t # u,
                 NEW d \in work'[t].posted, NEW e \in work'[u].posted
          PROVE ~ Clash(d, e)
      BY <1>2, <1>4, <2>2, ClashSymmetric DEF IInv, NoClashOpen
    <2>3. c \notin Committed
      BY <1>2 DEF Clash
    <2>4. ASSUME NEW t \in Session PROVE work'[t].posted \cap Committed' = {}
      BY <1>3, <1>4, <2>3 DEF IInv, NoClashOpen
    <2> QED
      BY <2>1, <2>2, <2>4 DEF NoClashOpen
  <1>7. TargetsThere'
    BY <1>3, <1>4, <1>5 DEF IInv, TargetsThere
  <1>8. MarksMatch'
    <2>1. ASSUME NEW d \in Command
          PROVE d \in work'[s].marked <=>
                  /\ d \in Committed \cup work'[s].posted
                  /\ \E r \in work'[s].posted : r.kind = "REVERSAL" /\ r.target = d.key
      <3>1. d \in work[s].marked <=>
                  /\ d \in Committed \cup work[s].posted
                  /\ \E r \in work[s].posted : r.kind = "REVERSAL" /\ r.target = d.key
        BY DEF IInv, MarksMatch
      <3>2. d \in Marked(s, c) <=>
              d \in Committed \cup work[s].posted /\ c.kind = "REVERSAL" /\ d.key = c.target
        BY FactsSplit DEF Marked, Target
      <3>3. \A r \in Committed \cup work[s].posted : c.key # r.key
        BY <1>2 DEF Clash
      <3>4. \A r \in work[s].posted : ~ (r.kind = "REVERSAL" /\ r.target = c.key)
        BY <3>3 DEF IInv, TargetsThere
      <3>5. ~ (c.kind = "REVERSAL" /\ c.target = c.key)
        BY <1>5, <3>3
      <3> QED
        BY <1>4, <3>1, <3>2, <3>4, <3>5
    <2> QED
      BY <1>3, <1>4, <2>1 DEF IInv, MarksMatch
  <1>9. OpeningsApart'
    <2>1. ASSUME NEW d \in ActiveIn(s)' PROVE d \in ActiveIn(s) \/ d = c
      BY <1>1, <1>4, <2>1 DEF ActiveIn, Posted
    <2>2. ASSUME NEW t \in Session, t # s PROVE ActiveIn(t)' = ActiveIn(t)
      BY <1>1, <1>4, <2>2 DEF ActiveIn, Posted
    <2>3. ASSUME NEW t \in Session, NEW d \in ActiveIn(t)', NEW e \in ActiveIn(t)', SameOpening(d, e)
          PROVE d = e
      BY <1>2, <2>1, <2>2, <2>3, ClashSymmetric DEF IInv, OpeningsApart
    <2>4. ASSUME NEW t \in Session, NEW u \in Session, t # u,
                 NEW d \in work'[t].posted, NEW e \in work'[u].posted
          PROVE ~ SameOpening(d, e)
      BY <1>2, <1>4, <2>4, ClashSymmetric DEF IInv, OpeningsApart
    <2> QED
      BY <1>1, <2>3, <2>4 DEF OpeningsApart, IInv, Posted
  <1>10. StatusProjection'
    BY <1>1 DEF IInv, StatusProjection, Posted
  <1>11. CallsSound'
    <2>1. call'[s] = NoCall /\ \A t \in Session : t # s => call'[t] = call[t]
      BY <1>1 DEF Posted, IInv, TypeOK
    <2>2. Valid(c)
      BY <1>1 DEF Post, IInv, CallsSound, Idle
    <2> QED
      BY <1>3, <1>4, <2>1, <2>2 DEF IInv, CallsSound, Idle, NoCall
  <1>12. AnswersStand'
    <2>1. Facts(s)' = Facts(s) \cup {c}
      BY <1>3, <1>4, FactsSplit, FactsSplitNext
    <2>2. \A d \in Facts(s) : d.key # c.key
      BY <1>2, FactsSplit DEF Clash
    <2>3. ASSUME NEW t \in Session, t # s PROVE Facts(t)' = Facts(t)
      BY <1>3, <1>4, <2>3, FactsSplit, FactsSplitNext
    <2>4. ASSUME NEW a \in work[s].answers PROVE Stands(s, a)'
      <3>1. Stands(s, a)
        BY AnswersStandAll DEF IInv
      <3>2. Existing(s, a.cmd) # {}
        BY <3>1 DEF Stands
      <3>3. c.key # a.cmd.key
        BY <2>2, <3>2 DEF Existing
      <3>4. Existing(s, a.cmd)' = Existing(s, a.cmd)
        BY <2>1, <3>3 DEF Existing
      <3> QED
        BY <1>1, <3>1, <3>4 DEF Stands, Posted
    <2>5. ASSUME NEW a, a = [cmd |-> c, status |-> "CREATED"] PROVE Stands(s, a)'
      <3>1. Existing(s, c)' = {c}
        BY <2>1, <2>2 DEF Existing
      <3> QED
        BY <2>5, <3>1 DEF Stands
    <2>6. ASSUME NEW t \in Session, NEW a \in work'[t].answers, t # s PROVE Stands(t, a)'
      <3>1. Stands(t, a)
        BY <1>4, <2>6, AnswersStandAll DEF IInv
      <3>2. work[t].conflicts \subseteq work'[t].conflicts /\ conflicts \subseteq conflicts'
        BY <1>1, <1>4, <2>6 DEF Posted
      <3> QED
        BY <2>3, <2>6, <3>1, <3>2, StandsKept
    <2>7. work'[s].answers = work[s].answers \cup {[cmd |-> c, status |-> "CREATED"]}
      BY <1>1 DEF Posted
    <2> QED
      BY <2>4, <2>5, <2>6, <2>7, AnswersStandNext
  <1> QED
    BY <1>6, <1>7, <1>8, <1>9, <1>10, <1>11, <1>12

-----------------------------------------------------------------------------
(* The end of a transaction.                                               *)

LEMMA UndoStep ==
    ASSUME IInv, NEW s \in Session, Undo(s)
    PROVE  /\ NoClashOpen' /\ TargetsThere' /\ MarksMatch' /\ OpeningsApart'
           /\ StatusProjection' /\ CallsSound' /\ AnswersStand'
  <1>1. /\ ledger' = ledger /\ conflicts' = conflicts
        /\ work'[s] = NoWork /\ call'[s] = NoCall
        /\ \A t \in Session : t # s => work'[t] = work[t] /\ call'[t] = call[t]
    BY DEF Undo, IInv, TypeOK
  <1>2. /\ Committed' = Committed
        /\ work'[s].posted = {} /\ work'[s].marked = {} /\ work'[s].answers = {}
    BY <1>1 DEF Committed, NoWork
  <1>3. NoClashOpen'
    BY <1>1, <1>2 DEF IInv, NoClashOpen
  <1>4. TargetsThere'
    BY <1>1, <1>2 DEF IInv, TargetsThere
  <1>5. MarksMatch'
    BY <1>1, <1>2 DEF IInv, MarksMatch
  <1>6. OpeningsApart'
    <2>1. ASSUME NEW t \in Session, t # s PROVE ActiveIn(t)' = ActiveIn(t)
      BY <1>1, <2>1 DEF ActiveIn
    <2>2. ASSUME NEW c \in ActiveIn(s)', NEW d \in ActiveIn(s)', SameOpening(c, d) PROVE c = d
      BY <1>1, <1>2, <2>2 DEF ActiveIn, IInv, OpeningsApart
    <2> QED
      BY <1>1, <1>2, <2>1, <2>2 DEF IInv, OpeningsApart
  <1>7. StatusProjection'
    BY <1>1 DEF IInv, StatusProjection
  <1>8. CallsSound'
    BY <1>1, <1>2 DEF IInv, CallsSound, Idle, NoCall
  <1>9. ASSUME NEW t \in Session, NEW a \in work'[t].answers PROVE Stands(t, a)'
    <2>1. t # s
      BY <1>2, <1>9
    <2>2. Facts(t)' = Facts(t)
      BY <1>1, <1>2, <2>1, FactsSplit, FactsSplitNext
    <2>3. Stands(t, a)
      BY <1>1, <1>9, <2>1, AnswersStandAll DEF IInv
    <2> QED
      BY <1>1, <2>1, <2>2, <2>3, StandsKept
  <1> QED
    BY <1>3, <1>4, <1>5, <1>6, <1>7, <1>8, <1>9, AnswersStandNext

LEMMA CommitStep ==
    ASSUME IInv, NEW s \in Session, Commit(s)
    PROVE  /\ NoClashOpen' /\ TargetsThere' /\ MarksMatch' /\ OpeningsApart'
           /\ StatusProjection' /\ CallsSound' /\ AnswersStand'
           /\ Committed' = Committed \cup work[s].posted
  <1>1. /\ ledger' = Visible(s) /\ conflicts' = conflicts \cup work[s].conflicts
        /\ work'[s] = NoWork /\ call' = call
        /\ \A t \in Session : t # s => work'[t] = work[t]
    BY DEF Commit, IInv, TypeOK
  <1>2. /\ Committed' = Committed \cup work[s].posted
        /\ work'[s].posted = {} /\ work'[s].marked = {} /\ work'[s].answers = {}
    <2>1. Committed' = Facts(s)
      BY <1>1 DEF Committed, Facts
    <2> QED
      BY <1>1, <2>1, FactsSplit DEF NoWork
  <1>3. NoClashOpen'
    <2>1. ASSUME NEW t \in Session, t # s,
                 NEW c \in Committed \cup work[s].posted \cup work[t].posted,
                 NEW d \in Committed \cup work[s].posted \cup work[t].posted, Clash(c, d)
          PROVE c = d
      BY <2>1, ClashSymmetric DEF IInv, NoClashOpen
    <2>2. ASSUME NEW t \in Session, t # s PROVE work[t].posted \cap work[s].posted = {}
      BY <2>2 DEF IInv, NoClashOpen, Clash
    <2>3. ASSUME NEW t \in Session,
                 NEW c \in (Committed \cup work[t].posted)',
                 NEW d \in (Committed \cup work[t].posted)', Clash(c, d)
          PROVE c = d
      <3>1. CASE t = s
        BY <1>2, <2>3, <3>1 DEF IInv, NoClashOpen
      <3>2. CASE t # s
        BY <1>1, <1>2, <2>1, <2>3, <3>2
      <3> QED
        BY <3>1, <3>2
    <2>4. ASSUME NEW t \in Session, NEW u \in Session, t # u,
                 NEW c \in work'[t].posted, NEW d \in work'[u].posted
          PROVE ~ Clash(c, d)
      BY <1>1, <1>2, <2>4 DEF IInv, NoClashOpen
    <2>5. ASSUME NEW t \in Session PROVE work'[t].posted \cap Committed' = {}
      BY <1>1, <1>2, <2>2 DEF IInv, NoClashOpen
    <2> QED
      BY <2>3, <2>4, <2>5 DEF NoClashOpen
  <1>4. TargetsThere'
    BY <1>1, <1>2 DEF IInv, TargetsThere
  <1>5. MarksMatch'
    <2>1. ASSUME NEW t \in Session, t # s, NEW c \in work[s].posted, NEW r \in work[t].posted
          PROVE ~ (r.kind = "REVERSAL" /\ r.target = c.key)
      <3>1. SUFFICES ASSUME r.kind = "REVERSAL", r.target = c.key PROVE FALSE
        OBVIOUS
      <3>2. PICK d \in Committed \cup work[t].posted : d.key = c.key
        BY <2>1, <3>1 DEF IInv, TargetsThere
      <3>3. Clash(c, d) /\ Clash(d, c)
        BY <3>2 DEF Clash
      <3>4. d \in Committed
        BY <2>1, <3>2, <3>3 DEF IInv, NoClashOpen
      <3> QED
        BY <2>1, <3>3, <3>4 DEF IInv, NoClashOpen
    <2>2. ASSUME NEW t \in Session, t # s, NEW c \in Command
          PROVE c \in work'[t].marked <=>
                  /\ c \in Committed' \cup work'[t].posted
                  /\ \E r \in work'[t].posted : r.kind = "REVERSAL" /\ r.target = c.key
      BY <1>1, <1>2, <2>1, <2>2 DEF IInv, MarksMatch
    <2> QED
      BY <1>2, <2>2 DEF MarksMatch
  <1>6. OpeningsApart'
    <2>1. ASSUME NEW r \in ledger', r.status = "POSTED" PROVE r.cmd \in ActiveIn(s)
      BY <1>1, <2>1, PostedIsActive DEF IInv
    <2>2. ASSUME NEW t \in Session, NEW c \in ActiveIn(t)'
          PROVE (t # s /\ c \in work[t].posted /\ c \notin work[t].marked)
                \/ (c \in ActiveIn(s) /\ (t # s => c \in ActiveIn(t) \/ c \in work[s].posted))
      <3>1. CASE c \in work'[t].posted
        BY <1>1, <1>2, <2>2, <3>1 DEF ActiveIn
      <3>2. CASE \E q \in ledger' : q.cmd = c /\ q.status = "POSTED"
        <4>1. PICK q \in Visible(s) : q.cmd = c /\ q.status = "POSTED"
          BY <1>1, <3>2
        <4>2. c \in ActiveIn(s)
          BY <4>1, PostedIsActive DEF IInv
        <4>3. (\E p \in ledger : p.cmd = c /\ p.status = "POSTED") \/ c \in work[s].posted
          BY <4>1, PostedRow
        <4>4. t # s => c \notin work[t].marked
          BY <1>1, <2>2 DEF ActiveIn
        <4> QED
          BY <4>2, <4>3, <4>4 DEF ActiveIn
      <3> QED
        BY <2>2, <3>1, <3>2 DEF ActiveIn
    <2>3. ASSUME NEW t \in Session, t # s, NEW c \in work[t].posted, c \notin work[t].marked
          PROVE c \in ActiveIn(t)
      BY <2>3 DEF IInv, TypeOK, ActiveIn
    <2>4. ASSUME NEW t \in Session, NEW c \in ActiveIn(t)', NEW d \in ActiveIn(t)', SameOpening(c, d)
          PROVE c = d
      <3>1. CASE c \in ActiveIn(s) /\ d \in ActiveIn(s)
        BY <2>4, <3>1 DEF IInv, OpeningsApart
      <3>2. CASE t # s /\ c \in ActiveIn(t) /\ d \in ActiveIn(t)
        BY <2>4, <3>2 DEF IInv, OpeningsApart
      <3>3. CASE t # s /\ \/ c \in work[t].posted /\ d \in work[s].posted
                          \/ c \in work[s].posted /\ d \in work[t].posted
        BY <2>4, <3>3 DEF IInv, OpeningsApart
      <3> QED
        BY <2>2, <2>3, <2>4, <3>1, <3>2, <3>3
    <2>5. ASSUME NEW t \in Session, NEW u \in Session, t # u,
                 NEW c \in work'[t].posted, NEW d \in work'[u].posted
          PROVE ~ SameOpening(c, d)
      BY <1>1, <1>2, <2>5 DEF IInv, OpeningsApart
    <2>6. ASSUME NEW r \in ledger', NEW q \in ledger',
                 r.status = "POSTED", q.status = "POSTED", SameOpening(r.cmd, q.cmd)
          PROVE r.cmd = q.cmd
      BY <2>1, <2>6 DEF IInv, OpeningsApart
    <2> QED
      BY <2>4, <2>5, <2>6 DEF OpeningsApart
  <1>7. StatusProjection'
    <2>1. ASSUME NEW r \in ledger'
          PROVE r.status = "REVERSED" <=>
                  \E v \in Committed' : v.kind = "REVERSAL" /\ v.target = r.cmd.key
      <3>1. PICK q \in ledger \cup {[cmd |-> c, status |-> "POSTED"] : c \in work[s].posted} :
              r = [cmd |-> q.cmd, status |-> IF q.cmd \in work[s].marked THEN "REVERSED" ELSE q.status]
        BY <1>1 DEF Visible
      <3>2. r.cmd = q.cmd /\ (r.status = "REVERSED" <=> q.cmd \in work[s].marked \/ q.status = "REVERSED")
        BY <3>1
      <3>3. q.cmd \in Command
        BY DEF IInv, TypeOK
      <3>4. q.cmd \in Committed \cup work[s].posted
        BY DEF Committed
      <3>5. q.cmd \in work[s].marked <=>
              \E v \in work[s].posted : v.kind = "REVERSAL" /\ v.target = q.cmd.key
        BY <3>3, <3>4 DEF IInv, MarksMatch
      <3>6. CASE q \in ledger
        <4>1. q.status = "REVERSED" <=>
                \E v \in Committed : v.kind = "REVERSAL" /\ v.target = q.cmd.key
          BY <3>6 DEF IInv, StatusProjection, Committed
        <4> QED
          BY <1>2, <3>2, <3>5, <4>1
      <3>7. CASE q \in {[cmd |-> c, status |-> "POSTED"] : c \in work[s].posted}
        <4>1. q.cmd \in work[s].posted /\ q.status = "POSTED"
          BY <3>7
        <4>2. ASSUME NEW v \in Committed, v.kind = "REVERSAL", v.target = q.cmd.key PROVE FALSE
          <5>1. PICK d \in Committed : d.key = q.cmd.key
            BY <4>2 DEF IInv, TargetsThere
          <5> QED
            BY <4>1, <5>1 DEF IInv, NoClashOpen, Clash
        <4> QED
          BY <1>2, <3>2, <3>5, <4>1, <4>2
      <3> QED
        BY <3>6, <3>7
    <2> QED
      BY <2>1 DEF StatusProjection, Committed
  <1>8. CallsSound'
    <2>1. Idle(s)
      BY DEF Commit
    <2> QED
      BY <1>1, <1>2, <2>1 DEF IInv, CallsSound, Idle
  <1>9. ASSUME NEW t \in Session, NEW a \in work'[t].answers PROVE Stands(t, a)'
    <2>1. t # s /\ a \in work[t].answers
      BY <1>1, <1>2, <1>9
    <2>2. Stands(t, a)
      BY <2>1, AnswersStandAll DEF IInv
    <2>3. Facts(t)' = Facts(t) \cup work[s].posted
      BY <1>1, <1>2, <2>1, FactsSplit, FactsSplitNext
    <2>4. ASSUME NEW c \in Facts(t)', NEW d \in Facts(t)', c.key = d.key PROVE c = d
      BY <1>3, <2>4, FactsSplitNext DEF NoClashOpen, Clash
    <2>5. Existing(t, a.cmd)' = Existing(t, a.cmd)
      BY <2>2, <2>3, <2>4 DEF Existing, Stands
    <2> QED
      BY <1>1, <2>1, <2>2, <2>5 DEF Stands
  <1> QED
    BY <1>2, <1>3, <1>4, <1>5, <1>6, <1>7, <1>8, <1>9, AnswersStandNext

-----------------------------------------------------------------------------
(* The theorems.                                                           *)

LEMMA InvariantInit == Init => IInv
  <1> SUFFICES ASSUME Init PROVE IInv
    OBVIOUS
  <1>1. TypeOK
    BY TypeInit
  <1>2. Committed = {} /\ \A s \in Session : work[s] = NoWork /\ call[s] = NoCall
    BY DEF Init, Committed
  <1>3. NoClashOpen /\ TargetsThere /\ MarksMatch
    BY <1>2 DEF NoClashOpen, TargetsThere, MarksMatch, NoWork
  <1>4. OpeningsApart
    BY <1>2 DEF Init, OpeningsApart, ActiveIn, NoWork
  <1>5. CallsSound
    BY <1>2 DEF CallsSound, NoWork, NoCall, Idle
  <1>6. StatusProjection /\ AnswersStand
    BY <1>2 DEF Init, StatusProjection, AnswersStand, NoWork
  <1> QED
    BY <1>1, <1>3, <1>4, <1>5, <1>6 DEF IInv

LEMMA InvariantStep == IInv /\ [Next]_vars => IInv'
  <1> SUFFICES ASSUME IInv, [Next]_vars PROVE IInv'
    OBVIOUS
  <1>1. TypeOK'
    BY TypeStep DEF IInv
  <1>2. CASE UNCHANGED vars
    <2>1. Quiet
      BY <1>2 DEF vars, Quiet
    <2>2. CallsSound'
      BY <1>2 DEF vars, IInv, CallsSound, Committed, Idle
    <2>3. AnswersStand'
      BY <1>2 DEF vars, IInv, AnswersStand, Existing, Facts, Visible
    <2> QED
      BY <1>1, <2>1, <2>2, <2>3, QuietStep DEF IInv
  <1>3. ASSUME NEW s \in Session, NEW c \in Command,
               Duplicate(s, c) \/ RecordConflict(s, c) \/ Lookup(s, c)
        PROVE IInv'
    BY <1>1, <1>3, AnsweredStep, LookupStep, QuietStep DEF IInv
  <1>4. ASSUME NEW s \in Session, Validate(s) PROVE IInv'
    BY <1>1, <1>4, ValidateStep, QuietStep DEF IInv
  <1>5. ASSUME NEW s \in Session, Post(s) PROVE IInv'
    BY <1>1, <1>5, PostStep DEF IInv
  <1>6. ASSUME NEW s \in Session, Undo(s) PROVE IInv'
    BY <1>1, <1>6, UndoStep DEF IInv
  <1>7. ASSUME NEW s \in Session, Commit(s) PROVE IInv'
    BY <1>1, <1>7, CommitStep DEF IInv
  <1> QED
    BY <1>2, <1>3, <1>4, <1>5, <1>6, <1>7
    DEF Next, Create, InsertFails, AbortedByDeadlock, Rollback

\* Rows, open transactions and calls always have their types.
THEOREM TypeCorrect == Spec => []TypeOK
  BY TypeInit, TypeStep, PTL DEF Spec

\* The inductive invariant of concurrent creates.
THEOREM Invariance == Spec => []IInv
  BY InvariantInit, InvariantStep, PTL DEF Spec

\* The REVERSED status the service writes on a target is the projection of
\* the reversals in the ledger, whatever commits and rollbacks intervene.
THEOREM StatusIsProjection == Spec => []StatusProjection
  <1>1. IInv => StatusProjection
    BY DEF IInv
  <1> QED
    BY <1>1, Invariance, PTL

\* What create has answered in an open transaction stays true of it.
THEOREM AnswersHold == Spec => []AnswersStand
  <1>1. IInv => AnswersStand
    BY DEF IInv
  <1> QED
    BY <1>1, Invariance, PTL

\* The concurrent sessions implement the book: identities and reversals are
\* posted once, scopes have one active opening, nothing posted changes.
THEOREM BookImplemented == Spec => ImplementsBook
  <1>1. Init => Book!Init
    BY DEF Init, Book!Init
  <1>2. ASSUME IInv, IInv', [Next]_vars PROVE [Book!Record]_{r.cmd : r \in ledger}
    <2>1. CASE ledger' = ledger
      BY <2>1
    <2>2. ASSUME NEW s \in Session, Commit(s) PROVE Book!Record
      <3>1. Committed' = Committed \cup work[s].posted
        BY <1>2, <2>2, CommitStep
      <3>2. Committed' \in SUBSET {c \in Command : Valid(c)}
        BY <1>2, <2>2, <3>1 DEF IInv, CallsSound, TypeOK, Committed
      <3>3. Book!Sound(Committed')
        <4>1. Book!NoClash(Committed')
          BY <1>2, <2>2 DEF IInv, NoClashOpen, Book!NoClash, Book!Clash, Clash
        <4>2. Book!ReversalsSound(Committed')
          BY <1>2 DEF IInv, TargetsThere, Book!ReversalsSound, Book!Reverses
        <4>3. ASSUME NEW c \in Book!Active(Committed')
              PROVE \E r \in ledger' : r.cmd = c /\ r.status = "POSTED"
          <5>1. PICK r \in ledger' : r.cmd = c
            BY <4>3 DEF Book!Active, Committed
          <5>2. \A v \in ledger' : ~ (v.cmd.kind = "REVERSAL" /\ v.cmd.target = c.key)
            BY <4>3 DEF Book!Active, Book!Reverses, Committed
          <5>3. r.status # "REVERSED"
            BY <1>2, <5>1, <5>2 DEF IInv, StatusProjection
          <5> QED
            BY <1>2, <5>1, <5>3 DEF IInv, TypeOK
        <4>4. ASSUME NEW c, NEW d, Book!SameOpening(c, d) PROVE SameOpening(c, d)
          BY <4>4 DEF Book!SameOpening, Book!OpeningKinds, SameOpening
        <4>5. \A r, q \in ledger' :
                r.status = "POSTED" /\ q.status = "POSTED" /\ SameOpening(r.cmd, q.cmd) => r.cmd = q.cmd
          BY <1>2 DEF IInv, OpeningsApart
        <4>6. Book!OneOpening(Committed')
          BY <4>3, <4>4, <4>5 DEF Book!OneOpening
        <4> QED
          BY <4>1, <4>2, <4>6 DEF Book!Sound
      <3> QED
        BY <3>1, <3>2, <3>3 DEF Book!Record, Committed
    <2>3. ledger' = ledger \/ \E s \in Session : Commit(s)
      BY <1>2 DEF Next, Create, Duplicate, RecordConflict, Lookup, Validate, Post, InsertFails,
                  AbortedByDeadlock, Rollback, Undo, vars
    <2> QED
      BY <2>1, <2>2, <2>3
  <1>3. IInv /\ IInv' /\ [Next]_vars => [Book!Record]_{r.cmd : r \in ledger}
    BY <1>2
  <1> QED
    BY <1>1, <1>3, Invariance, PTL DEF Spec, ImplementsBook, Book!Spec

-----------------------------------------------------------------------------
(* Imports: the inductive invariant.                                       *)

RowOf(o) == Rows[o.file][o.row]

\* Records R of file f name rows of it, one record for a row.
Numbered(f, R) ==
    /\ \A o \in R : o.file = f /\ o.row \in 1..Len(Rows[f])
    /\ \A o, p \in R : o.row = p.row => o = p

\* Every row of file f has its outcome.
Answered(f, R) ==
    \A n \in 1..Len(Rows[f]) : \E o \in R : o.file = f /\ o.row = n /\ o.status \in Outcomes

\* Import i of file f has its own batch from the flush of the batch on, and a
\* record of every row before the one it is at.
OpenSound(i, f) ==
    /\ i.step \in {"NONE", "OPENING"} => i.batch = {} /\ i.records = {}
    /\ i.step \in {"ROWS", "ENDED"} => \E b \in i.batch : i.batch = {b} /\ b.file = f
    /\ i.step = "ROWS" =>
         /\ i.row \in 1..Len(Rows[f]) + 1
         /\ \A b \in i.batch : b.status = "PROCESSING"
         /\ \A n \in 1..i.row - 1 : \E o \in i.records : o.row = n
         /\ \A o \in i.records : o.row < i.row /\ o.status \in Outcomes
    /\ \A b \in i.batch : b.status # "PROCESSING" => Answered(f, i.records)
    /\ Numbered(f, i.records)

\* Its counts count its records.
Counted(i) ==
    /\ IsFiniteSet(i.records)
    /\ \A x \in Outcomes : i.counts[x] = Cardinality({o \in i.records : o.status = x})
    /\ \A b \in i.batch : b.status # "PROCESSING" =>
         b.counts = i.counts /\ b.status = FinalStatus(i.counts)

ImportsSound == \A s \in Session : OpenSound(importing[s], BatchOf[s]) /\ Counted(importing[s])

\* One batch of a file, committed or not, and none of its records elsewhere.
FilesApart ==
    /\ \A b, d \in batches : b.file = d.file => b = d
    /\ \A s \in Session : importing[s].batch # {} =>
         /\ \A b \in batches : b.file # BatchOf[s]
         /\ \A u \in Session : u # s /\ BatchOf[u] = BatchOf[s] => importing[u].batch = {}
    /\ \A o \in records : \E b \in batches : b.file = o.file

\* The committed evidence.
ArchiveSound ==
    /\ \A f \in File : Numbered(f, {o \in records : o.file = f})
    /\ \A b \in batches : b.status # "PROCESSING" => Answered(b.file, records)
    /\ \A b \in batches : b.status # "PROCESSING" =>
         /\ IsFiniteSet({o \in records : o.file = b.file})
         /\ \A x \in Outcomes :
              b.counts[x] = Cardinality({o \in {p \in records : p.file = b.file} : o.status = x})
         /\ b.status = FinalStatus(b.counts)

\* The facts F are those the records R posted, each by one of them.
Traced(F, R) ==
    /\ \A c \in F : \E o \in R : o.status = "POSTED" /\ RowOf(o) = c
    /\ \A o \in R : o.status = "POSTED" => RowOf(o) \in F
    /\ \A o, p \in R : o.status = "POSTED" /\ p.status = "POSTED" /\ RowOf(o) = RowOf(p) => o = p

PostsTraced ==
    /\ Traced(Committed, records)
    /\ \A s \in Session : Traced(work[s].posted, importing[s].records)

\* What record o says is so in the facts F and the conflicts E.
Holds(o, F, E) ==
    /\ o.status \in {"POSTED", "DUPLICATE"} => RowOf(o) \in F
    /\ o.status = "CONFLICT" =>
         /\ \E d \in F : d.key = RowOf(o).key /\ d # RowOf(o)
         /\ [batch |-> o.file, cmd |-> RowOf(o)] \in E

RecordsHold ==
    /\ \A o \in records : Holds(o, Committed, conflicts)
    /\ \A s \in Session : \A o \in importing[s].records :
         Holds(o, Committed \cup work[s].posted, conflicts \cup work[s].conflicts)

\* A create call is the one of the row its import is at.
CallsAtRows ==
    \A s \in Session : ~ Idle(s) =>
        AtRow(s) /\ Row(s) \in Command /\ call[s].cmd = Row(s)

\* A session without calls has nothing to commit.
CallsCounted ==
    \A s \in Session : work[s].calls = 0 => work[s].posted = {} /\ work[s].conflicts = {}

\* What ImportTypeOK adds to the types of Ledger.
ImportTyped ==
    /\ batches \subseteq Batch
    /\ records \subseteq Record
    /\ importing \in [Session ->
         [step : {"NONE", "OPENING", "ROWS", "ENDED"}, row : Nat, counts : [Outcomes -> Nat],
          batch : SUBSET Batch, records : SUBSET Record]]

\* What an import adds to the invariant of Ledger.
EvidenceInv ==
    /\ ImportTyped
    /\ ImportsSound
    /\ FilesApart
    /\ ArchiveSound
    /\ PostsTraced
    /\ RecordsHold
    /\ CallsAtRows

ImportInv == IInv /\ CallsCounted /\ EvidenceInv

-----------------------------------------------------------------------------
(* An import is a sequence of calls.                                       *)

\* An undone transaction is a rollback, or there was nothing to undo.
LEMMA UndoIsStep ==
    ASSUME TypeOK, NEW s \in Session, Undo(s)
    PROVE  [Next]_vars
  <1>1. CASE work[s] = NoWork /\ Idle(s)
    <2>1. call[s] = NoCall
      BY <1>1 DEF TypeOK, Idle
    <2>2. work' = work /\ call' = call
      BY <1>1, <2>1 DEF Undo, TypeOK
    <2> QED
      BY <2>2 DEF Undo, vars
  <1>2. CASE work[s] # NoWork \/ ~ Idle(s)
    BY <1>2 DEF Rollback, Next
  <1> QED
    BY <1>1, <1>2

LEMMA ImportIsCalls ==
    ASSUME TypeOK, [ImportNext]_importVars
    PROVE  [Next]_vars
  <1>1. CASE UNCHANGED importVars
    BY <1>1 DEF importVars, vars
  <1>2. ASSUME NEW s \in Session,
               Reuse(s) \/ Start(s) \/ OpenBatch(s) \/ RowRefused(s) \/ RowRaises(s) \/ Finish(s)
        PROVE  UNCHANGED vars
    BY <1>2 DEF Reuse, Start, OpenBatch, RowRefused, RowRaises, Finish, importVars, vars
  <1>3. ASSUME NEW s \in Session, RowDuplicate(s) \/ RowConflict(s) \/ RowLookup(s)
        PROVE  Next
    BY <1>3 DEF RowDuplicate, RowConflict, RowLookup, Create, Next
  <1>4. ASSUME NEW s \in Session, RowAccepted(s) \/ RowRejected(s) \/ RowPosted(s)
        PROVE  Next
    BY <1>4 DEF RowAccepted, RowRejected, RowPosted, Create, Next
  <1>5. ASSUME NEW s \in Session, CommitImport(s) PROVE [Next]_vars
    BY <1>5 DEF CommitImport, Next
  <1>6. ASSUME NEW s \in Session, FlushFails(s) \/ DeadlockBroken(s) \/ Abandon(s)
        PROVE  [Next]_vars
    BY <1>6, UndoIsStep DEF FlushFails, DeadlockBroken, Abandon, Lost
  <1> QED
    BY <1>1, <1>2, <1>3, <1>4, <1>5, <1>6 DEF ImportNext, ImportRow

\* What sessions do to the ledger in their imports is what the sessions of
\* Ledger do.
THEOREM ImportsAreCalls == ImportSpec => Spec
  <1>1. ImportInit => Init /\ TypeOK
    BY TypeInit DEF ImportInit
  <1>2. TypeOK /\ [ImportNext]_importVars => TypeOK' /\ [Next]_vars
    BY ImportIsCalls, TypeStep
  <1> QED
    BY <1>1, <1>2, PTL DEF ImportSpec, Spec

-----------------------------------------------------------------------------
(* Type correctness.                                                       *)

OpenImport ==
    [step : {"NONE", "OPENING", "ROWS", "ENDED"}, row : Nat, counts : [Outcomes -> Nat],
     batch : SUBSET Batch, records : SUBSET Record]

LEMMA FileOf == \A s \in Session : BatchOf[s] \in File /\ BatchOf[s] # None
  BY ImporterAssumption

LEMMA NoImportType == NoImport \in OpenImport
  <1>1. NoCounts \in [Outcomes -> Nat]
    BY DEF NoCounts
  <1> QED
    BY <1>1 DEF NoImport, OpenImport

LEMMA FinalStatusType ==
    ASSUME NEW counts
    PROVE  FinalStatus(counts) \in {"COMPLETED", "COMPLETED_WITH_ERRORS"}
  BY DEF FinalStatus

\* What the end of a row does to its import.
LEMMA RecordedFields ==
    ASSUME NEW i \in OpenImport, NEW f \in File, NEW status \in Outcomes, i.row # 0,
           NEW j, j = Recorded(i, f, status)
    PROVE  /\ j \in OpenImport
           /\ j.step = i.step /\ j.batch = i.batch /\ j.row = i.row + 1
           /\ j.records = i.records \cup {[file |-> f, row |-> i.row, status |-> status]}
           /\ j.counts = [i.counts EXCEPT ![status] = @ + 1]
  <1> DEFINE o == [file |-> f, row |-> i.row, status |-> status]
             counts == [i.counts EXCEPT ![status] = @ + 1]
             records1 == i.records \cup {o}
  <1>1. o \in Record /\ records1 \in SUBSET Record
    BY DEF OpenImport, Record
  <1>2. counts \in [Outcomes -> Nat]
    BY DEF OpenImport
  <1>3. i.row + 1 \in Nat
    BY DEF OpenImport
  <1>4. j = [step |-> i.step, row |-> i.row + 1, counts |-> counts,
             batch |-> i.batch, records |-> records1]
    BY DEF Recorded, OpenImport
  <1> HIDE DEF o, counts, records1
  <1>5. j \in OpenImport
    BY <1>1, <1>2, <1>3, <1>4 DEF OpenImport
  <1>6. j.step = i.step /\ j.batch = i.batch /\ j.row = i.row + 1 /\ j.records = records1
        /\ j.counts = counts
    BY <1>4
  <1> QED
    BY <1>5, <1>6 DEF o, counts, records1

\* Session s moves on to j, alone.
Moves(s, j) ==
    /\ importing' = [importing EXCEPT ![s] = j]
    /\ batches' = batches
    /\ records' = records

LEMMA MovesType ==
    ASSUME ImportTyped, NEW s \in Session, NEW j \in OpenImport, Moves(s, j)
    PROVE  ImportTyped'
  BY DEF ImportTyped, OpenImport, Moves

LEMMA MovesOne ==
    ASSUME ImportTyped, NEW s \in Session, NEW j, Moves(s, j)
    PROVE  /\ importing'[s] = j
           /\ \A t \in Session : t # s => importing'[t] = importing[t]
  BY DEF ImportTyped, Moves

LEMMA ImportOpen ==
    ASSUME ImportTyped, NEW s \in Session
    PROVE  importing[s] \in OpenImport
  BY DEF ImportTyped, OpenImport

-----------------------------------------------------------------------------
(* One session moves and commits nothing.                                  *)

LEMMA HoldsMore ==
    ASSUME NEW o, NEW F, NEW E, Holds(o, F, E), NEW G, F \subseteq G, NEW D, E \subseteq D
    PROVE  Holds(o, G, D)
  BY DEF Holds

\* What the parts of the invariant ask of session s and its import j.
Sound(s, j, posted, evidence, c) ==
    /\ OpenSound(j, BatchOf[s]) /\ Counted(j)
    /\ j.batch # {} => importing[s].batch # {} \/ (~ WaitsForBatch(s) /\ ~ BatchTaken(s))
    /\ Traced(posted, j.records)
    /\ \A o \in j.records : Holds(o, Committed \cup posted, conflicts \cup evidence)
    /\ c.step # "IDLE" =>
         /\ j.step = "ROWS" /\ j.row <= Len(Rows[BatchOf[s]])
         /\ Rows[BatchOf[s]][j.row] \in Command
         /\ c.cmd = Rows[BatchOf[s]][j.row]

LEMMA LocalStep ==
    ASSUME EvidenceInv, NEW s \in Session, NEW j \in OpenImport, Moves(s, j),
           ledger' = ledger, conflicts' = conflicts,
           \A t \in Session : t # s => work'[t] = work[t] /\ call'[t] = call[t],
           Sound(s, j, work'[s].posted, work'[s].conflicts, call'[s])
    PROVE  EvidenceInv'
  <1>1. /\ importing'[s] = j
        /\ \A t \in Session : t # s => importing'[t] = importing[t]
        /\ batches' = batches /\ records' = records
    BY MovesOne DEF EvidenceInv, Moves
  <1>2. Committed' = Committed
    BY DEF Committed
  <1>3. ImportsSound'
    BY <1>1 DEF EvidenceInv, ImportsSound, Sound
  <1>4. FilesApart'
    <2>1. ASSUME NEW u \in Session, importing'[u].batch # {}
          PROVE  \A b \in batches : b.file # BatchOf[u]
      BY <1>1, <2>1 DEF EvidenceInv, FilesApart, Sound, BatchTaken
    <2>2. ASSUME NEW u \in Session, NEW v \in Session, u # v, BatchOf[u] = BatchOf[v],
                 importing'[u].batch # {}, importing'[v].batch # {}
          PROVE  FALSE
      <3>1. CASE u # s /\ v # s
        BY <1>1, <2>2, <3>1 DEF EvidenceInv, FilesApart
      <3>2. CASE u = s
        BY <1>1, <2>2, <3>2 DEF EvidenceInv, FilesApart, Sound, WaitsForBatch
      <3>3. CASE v = s
        BY <1>1, <2>2, <3>3 DEF EvidenceInv, FilesApart, Sound, WaitsForBatch
      <3> QED
        BY <3>1, <3>2, <3>3
    <2> QED
      BY <1>1, <2>1, <2>2 DEF EvidenceInv, FilesApart
  <1>5. ArchiveSound'
    BY <1>1 DEF EvidenceInv, ArchiveSound
  <1>6. PostsTraced'
    BY <1>1, <1>2 DEF EvidenceInv, PostsTraced, Sound
  <1>7. RecordsHold'
    BY <1>1, <1>2 DEF EvidenceInv, RecordsHold, Sound
  <1>8. CallsAtRows'
    <2>1. ASSUME NEW u \in Session, call'[u].step # "IDLE"
          PROVE  /\ importing'[u].step = "ROWS" /\ importing'[u].row <= Len(Rows[BatchOf[u]])
                 /\ Rows[BatchOf[u]][importing'[u].row] \in Command
                 /\ call'[u].cmd = Rows[BatchOf[u]][importing'[u].row]
      <3>1. CASE u = s
        BY <1>1, <2>1, <3>1 DEF Sound
      <3>2. CASE u # s
        BY <1>1, <2>1, <3>2 DEF EvidenceInv, CallsAtRows, Idle, AtRow, Row
      <3> QED
        BY <3>1, <3>2
    <2> QED
      BY <2>1 DEF CallsAtRows, Idle, AtRow, Row
  <1>9. ImportTyped'
    BY MovesType DEF EvidenceInv
  <1> QED
    BY <1>3, <1>4, <1>5, <1>6, <1>7, <1>8, <1>9 DEF EvidenceInv

-----------------------------------------------------------------------------
(* The end of a row.                                                       *)

\* Another record, and it is counted.
LEMMA RecordedSound ==
    ASSUME NEW f \in File, NEW i \in OpenImport, OpenSound(i, f), Counted(i),
           i.step = "ROWS", i.row <= Len(Rows[f]), NEW status \in Outcomes,
           NEW j, j = Recorded(i, f, status)
    PROVE  /\ OpenSound(j, f) /\ Counted(j) /\ j \in OpenImport
           /\ j.records = i.records \cup {[file |-> f, row |-> i.row, status |-> status]}
           /\ j.batch = i.batch
  <1> DEFINE o == [file |-> f, row |-> i.row, status |-> status]
  <1>1. i.row \in 1..Len(Rows[f]) /\ i.row \in Nat /\ i.row # 0
    BY DEF OpenSound, OpenImport
  <1>2. /\ j \in OpenImport
        /\ j.step = "ROWS" /\ j.batch = i.batch /\ j.row = i.row + 1
        /\ j.records = i.records \cup {o}
        /\ j.counts = [i.counts EXCEPT ![status] = @ + 1]
    BY <1>1, RecordedFields
  <1>3. /\ Len(Rows[f]) \in Nat
        /\ o.file = f /\ o.row = i.row /\ o.status = status
    BY RowsAssumption
  <1>4. o \notin i.records
    BY <1>1, <1>3 DEF OpenSound
  <1> HIDE DEF o
  <1>5. OpenSound(j, f)
    <2>1. \A p \in i.records : p.row < i.row /\ p.status \in Outcomes /\ p.file = f
                               /\ p.row \in 1..Len(Rows[f])
      BY DEF OpenSound, Numbered
    <2>2. ASSUME NEW n \in 1..j.row - 1 PROVE \E p \in j.records : p.row = n
      <3>1. CASE n = i.row
        BY <1>2, <1>3, <3>1
      <3>2. CASE n \in 1..i.row - 1
        BY <1>2, <3>2 DEF OpenSound
      <3> QED
        BY <1>1, <1>2, <3>1, <3>2
    <2>3. \A p \in j.records : p.row < j.row /\ p.status \in Outcomes
      BY <1>1, <1>2, <1>3, <2>1
    <2>4. Numbered(f, j.records)
      <3>1. \A p \in j.records : p.file = f /\ p.row \in 1..Len(Rows[f])
        BY <1>1, <1>2, <1>3, <2>1
      <3>2. ASSUME NEW p \in j.records, NEW q \in j.records, p.row = q.row PROVE p = q
        <4>1. CASE p \in i.records /\ q \in i.records
          BY <3>2, <4>1 DEF OpenSound, Numbered
        <4>2. ASSUME p = o, q \in i.records PROVE FALSE
          BY <1>1, <1>3, <2>1, <3>2, <4>2
        <4>3. ASSUME q = o, p \in i.records PROVE FALSE
          BY <1>1, <1>3, <2>1, <3>2, <4>3
        <4> QED
          BY <1>2, <4>1, <4>2, <4>3
      <3> QED
        BY <3>1, <3>2 DEF Numbered
    <2>5. j.row \in 1..Len(Rows[f]) + 1
      BY <1>1, <1>2, <1>3
    <2>6. /\ \E b \in j.batch : j.batch = {b} /\ b.file = f
          /\ \A b \in j.batch : b.status = "PROCESSING"
      BY <1>2 DEF OpenSound
    <2> QED
      BY <1>2, <2>2, <2>3, <2>4, <2>5, <2>6 DEF OpenSound
  <1>6. Counted(j)
    <2>1. IsFiniteSet(i.records) /\ IsFiniteSet(j.records)
      BY <1>2, FS_AddElement DEF Counted
    <2>2. ASSUME NEW x \in Outcomes
          PROVE  j.counts[x] = Cardinality({p \in j.records : p.status = x})
      <3> DEFINE old == {p \in i.records : p.status = x}
                 new == {p \in j.records : p.status = x}
      <3>1. i.counts[x] = Cardinality(old) /\ IsFiniteSet(old) /\ i.counts \in [Outcomes -> Nat]
        BY <2>1, FS_Subset DEF Counted, OpenImport
      <3>2. CASE x = status
        <4>1. new = old \cup {o} /\ o \notin old
          BY <1>2, <1>3, <1>4, <3>2
        <4>2. j.counts[x] = i.counts[x] + 1
          BY <1>2, <3>1, <3>2
        <4>3. IsFiniteSet(old)
          BY <3>1
        <4> HIDE DEF old, new
        <4>4. Cardinality(new) = Cardinality(old) + 1
          BY ONLY <4>1, <4>3, FS_AddElement
        <4> QED
          BY <3>1, <4>2, <4>4 DEF new
      <3>3. CASE x # status
        <4>1. new = old
          BY <1>2, <1>3, <3>3
        <4> QED
          BY <1>2, <3>1, <3>3, <4>1
      <3> QED
        BY <3>2, <3>3
    <2>3. \A b \in j.batch : b.status = "PROCESSING"
      BY <1>2 DEF OpenSound
    <2> QED
      BY <2>1, <2>2, <2>3 DEF Counted
  <1> QED
    BY <1>2, <1>5, <1>6 DEF o

\* A record of a row that posted nothing leaves the posted facts traced.
LEMMA StillTraced ==
    ASSUME NEW F, NEW R, Traced(F, R), NEW o, o.status # "POSTED"
    PROVE  Traced(F, R \cup {o})
  BY DEF Traced

\* What a row that ends with `status' asks of the step.
LEMMA RowEndStep ==
    ASSUME EvidenceInv, NEW s \in Session, NEW status \in Outcomes, RowEnds(s, status), AtRow(s),
           ledger' = ledger, conflicts' = conflicts,
           \A t \in Session : t # s => work'[t] = work[t] /\ call'[t] = call[t],
           work[s].posted \subseteq work'[s].posted,
           work[s].conflicts \subseteq work'[s].conflicts,
           call'[s].step = "IDLE",
           NEW o, o = [file |-> BatchOf[s], row |-> importing[s].row, status |-> status],
           Holds(o, Committed \cup work'[s].posted, conflicts \cup work'[s].conflicts),
           Traced(work'[s].posted, importing[s].records \cup {o})
    PROVE  EvidenceInv'
  <1> DEFINE i == importing[s]
             f == BatchOf[s]
  <1>1. PICK j : j = Recorded(i, f, status)
    OBVIOUS
  <1>2. Moves(s, j)
    BY <1>1 DEF RowEnds, Moves
  <1>3. i \in OpenImport /\ f \in File /\ OpenSound(i, f) /\ Counted(i)
    BY ImportOpen, FileOf DEF EvidenceInv, ImportsSound
  <1>4. /\ OpenSound(j, f) /\ Counted(j) /\ j \in OpenImport
        /\ j.records = i.records \cup {o} /\ j.batch = i.batch
    BY <1>1, <1>3, RecordedSound DEF AtRow
  <1>6. ASSUME NEW p \in i.records
        PROVE  Holds(p, Committed \cup work'[s].posted, conflicts \cup work'[s].conflicts)
    <2>1. Holds(p, Committed \cup work[s].posted, conflicts \cup work[s].conflicts)
      BY DEF EvidenceInv, RecordsHold
    <2> QED
      BY <2>1, HoldsMore
  <1>7. Sound(s, j, work'[s].posted, work'[s].conflicts, call'[s])
    BY <1>4, <1>6 DEF Sound
  <1> HIDE DEF i, f
  <1> QED
    BY <1>2, <1>4, <1>7, LocalStep DEF i

LEMMA RefusedStep ==
    ASSUME ImportInv, NEW s \in Session, RowRefused(s)
    PROVE  EvidenceInv'
  <1> DEFINE o == [file |-> BatchOf[s], row |-> importing[s].row, status |-> "REJECTED"]
  <1>1. RowEnds(s, "REJECTED") /\ AtRow(s) /\ "REJECTED" \in Outcomes
        /\ ledger' = ledger /\ conflicts' = conflicts /\ work' = work /\ call' = call
        /\ call'[s].step = "IDLE"
    BY DEF RowRefused, vars, Idle, Outcomes
  <1>2. Holds(o, Committed \cup work'[s].posted, conflicts \cup work'[s].conflicts)
    BY DEF Holds
  <1>3. Traced(work'[s].posted, importing[s].records \cup {o})
    BY <1>1, StillTraced DEF ImportInv, EvidenceInv, PostsTraced
  <1> HIDE DEF o
  <1> QED
    BY <1>1, <1>2, <1>3, RowEndStep DEF ImportInv, o

\* DUPLICATE and CONFLICT.
LEMMA AnsweredRowStep ==
    ASSUME ImportInv, NEW s \in Session, RowDuplicate(s) \/ RowConflict(s)
    PROVE  EvidenceInv'
  <1> DEFINE c == Row(s)
             status == IF RowDuplicate(s) THEN "DUPLICATE" ELSE "CONFLICT"
             evidence == IF RowDuplicate(s) THEN {} ELSE Evidence(s, c)
             o == [file |-> BatchOf[s], row |-> importing[s].row, status |-> status]
  <1>0. Answer(s, c, status, {}, {}, evidence)
    BY DEF RowDuplicate, RowConflict, Duplicate, RecordConflict
  <1>1. /\ AtRow(s) /\ RowEnds(s, status) /\ status \in Outcomes
        /\ ledger' = ledger /\ conflicts' = conflicts /\ call' = call
        /\ call'[s].step = "IDLE"
    BY DEF RowDuplicate, RowConflict, Duplicate, RecordConflict, Outcomes, Idle
  <1>2. /\ work'[s].posted = work[s].posted
        /\ work'[s].conflicts = work[s].conflicts \cup evidence
        /\ \A t \in Session : t # s => work'[t] = work[t]
    <2>1. TypeOK
      BY DEF ImportInv, IInv
    <2> HIDE DEF c, status, evidence
    <2>2. /\ work'[s].posted = work[s].posted \cup {}
          /\ work'[s].marked = work[s].marked \cup {}
          /\ work'[s].conflicts = work[s].conflicts \cup evidence
          /\ work'[s].answers = work[s].answers \cup {[cmd |-> c, status |-> status]}
          /\ \A t \in Session : t # s => work'[t] = work[t]
      BY <1>0, <2>1, AnswerFields
    <2> QED
      BY <2>2
  <1>3. RowOf(o) = c /\ o.status = status /\ o.file = BatchOf[s]
    BY DEF RowOf, Row
  <1>4. Facts(s) = Committed \cup work[s].posted
    BY FactsSplit
  <1>5. Holds(o, Committed \cup work'[s].posted, conflicts \cup work'[s].conflicts)
    <2>1. CASE RowDuplicate(s)
      BY <1>2, <1>3, <1>4, <2>1 DEF RowDuplicate, Duplicate, Existing, SameEconomics, Holds
    <2>2. CASE ~ RowDuplicate(s)
      <3>1. PICK d \in Committed \cup work[s].posted : d.key = c.key /\ d # c
        BY <1>4, <2>2 DEF RowConflict, RecordConflict, Existing, SameEconomics
      <3>2. [batch |-> BatchOf[s], cmd |-> c] \in work'[s].conflicts
        BY <1>2, <2>2, FileOf DEF Evidence
      <3> HIDE DEF o, c
      <3> QED
        BY <1>2, <1>3, <2>2, <3>1, <3>2 DEF Holds
    <2> QED
      BY <2>1, <2>2
  <1>6. Traced(work'[s].posted, importing[s].records \cup {o})
    BY <1>2, StillTraced DEF ImportInv, EvidenceInv, PostsTraced
  <1> HIDE DEF c, status, evidence
  <1> QED
    BY <1>1, <1>2, <1>5, <1>6, RowEndStep DEF ImportInv

\* A LedgerError from the validation.
LEMMA RejectedStep ==
    ASSUME ImportInv, NEW s \in Session, RowRejected(s)
    PROVE  EvidenceInv'
  <1> DEFINE o == [file |-> BatchOf[s], row |-> importing[s].row, status |-> "REJECTED"]
  <1>1. /\ ledger' = ledger /\ conflicts' = conflicts
        /\ \A t \in Session : t # s => work'[t] = work[t] /\ call'[t] = call[t]
        /\ work'[s].posted = work[s].posted /\ work'[s].conflicts = work[s].conflicts
        /\ call'[s].step = "IDLE"
    BY DEF RowRejected, Validate, ImportInv, IInv, TypeOK, NoCall
  <1>2. AtRow(s) /\ RowEnds(s, "REJECTED") /\ "REJECTED" \in Outcomes
    BY DEF RowRejected, Validate, Idle, ImportInv, EvidenceInv, CallsAtRows, Outcomes
  <1>3. Holds(o, Committed \cup work'[s].posted, conflicts \cup work'[s].conflicts)
    BY DEF Holds
  <1>4. Traced(work'[s].posted, importing[s].records \cup {o})
    BY <1>1, StillTraced DEF ImportInv, EvidenceInv, PostsTraced
  <1> HIDE DEF o
  <1> QED
    BY <1>1, <1>2, <1>3, <1>4, RowEndStep DEF ImportInv, o

\* The INSERT of a row.
LEMMA PostedStep ==
    ASSUME ImportInv, NEW s \in Session, RowPosted(s)
    PROVE  EvidenceInv'
  <1> DEFINE c == call[s].cmd
             o == [file |-> BatchOf[s], row |-> importing[s].row, status |-> "POSTED"]
  <1>1. Post(s) /\ RowEnds(s, "POSTED") /\ "POSTED" \in Outcomes /\ ~ Idle(s)
    BY DEF RowPosted, Post, Idle, Outcomes
  <1>2. AtRow(s) /\ c = Row(s)
    BY <1>1 DEF ImportInv, EvidenceInv, CallsAtRows
  <1>3. Posted(s, c)
    BY <1>1, PostEffect DEF ImportInv, IInv
  <1>4. /\ ledger' = ledger /\ conflicts' = conflicts
        /\ \A t \in Session : t # s => work'[t] = work[t] /\ call'[t] = call[t]
        /\ work'[s].posted = work[s].posted \cup {c}
        /\ work'[s].conflicts = work[s].conflicts
        /\ call'[s].step = "IDLE"
    BY <1>3 DEF Posted, ImportInv, IInv, TypeOK, NoCall
  <1>5. c \notin work[s].posted
    BY <1>1 DEF ImportInv, IInv, CallsSound
  <1>6. RowOf(o) = c /\ o.status = "POSTED"
    BY <1>2 DEF RowOf, Row
  <1> HIDE DEF c
  <1>7. Holds(o, Committed \cup work'[s].posted, conflicts \cup work'[s].conflicts)
    BY <1>4, <1>6 DEF Holds
  <1>8. Traced(work'[s].posted, importing[s].records \cup {o})
    <2>1. Traced(work[s].posted, importing[s].records)
      BY DEF ImportInv, EvidenceInv, PostsTraced
    <2> HIDE DEF o
    <2> QED
      BY <1>4, <1>5, <1>6, <2>1 DEF Traced
  <1> QED
    BY <1>1, <1>2, <1>4, <1>7, <1>8, RowEndStep DEF ImportInv

-----------------------------------------------------------------------------
(* The steps between rows and around them.                                 *)

\* An import that keeps its records, and what was posted with them.
LEMMA KeepsRecords ==
    ASSUME ImportInv, NEW s \in Session, NEW j, j.records = importing[s].records,
           work'[s].posted = work[s].posted, work'[s].conflicts = work[s].conflicts
    PROVE  /\ Traced(work'[s].posted, j.records)
           /\ \A o \in j.records :
                Holds(o, Committed \cup work'[s].posted, conflicts \cup work'[s].conflicts)
  BY DEF ImportInv, EvidenceInv, PostsTraced, RecordsHold

\* The exception that ends an import leaves a record without an outcome.
LEMMA RaisesStep ==
    ASSUME ImportInv, NEW s \in Session, RowRaises(s)
    PROVE  EvidenceInv'
  <1> DEFINE i == importing[s]
             f == BatchOf[s]
             o == [file |-> f, row |-> i.row, status |-> "NORMALIZED"]
             j == [i EXCEPT !.step = "ENDED", !.records = @ \cup {o}]
  <1>1. /\ Moves(s, j) /\ i.step = "ROWS" /\ i.row <= Len(Rows[f])
        /\ ledger' = ledger /\ conflicts' = conflicts /\ work' = work /\ call' = call
        /\ call'[s].step = "IDLE"
    BY DEF RowRaises, Moves, AtRow, vars, Idle
  <1>2. i \in OpenImport /\ f \in File /\ OpenSound(i, f) /\ Counted(i)
    BY ImportOpen, FileOf DEF ImportInv, EvidenceInv, ImportsSound
  <1>3. i.row \in 1..Len(Rows[f]) /\ i.row \in Nat /\ i.row # 0 /\ Len(Rows[f]) \in Nat
    BY <1>1, <1>2, RowsAssumption DEF OpenSound, OpenImport
  <1>4. /\ j.step = "ENDED" /\ j.batch = i.batch /\ j.records = i.records \cup {o}
        /\ j.counts = i.counts
    BY <1>2 DEF OpenImport
  <1>5. j \in OpenImport
    <2>1. o \in Record
      BY <1>2, <1>3 DEF Record
    <2> HIDE DEF o
    <2> QED
      BY <1>2, <2>1 DEF OpenImport
  <1>6. o.row = i.row /\ o.file = f /\ o.status = "NORMALIZED"
    OBVIOUS
  <1>7. \A p \in i.records : p.row < i.row /\ p.file = f /\ p.row \in 1..Len(Rows[f])
    BY <1>1, <1>2 DEF OpenSound, Numbered
  <1>8. \E b \in i.batch : i.batch = {b} /\ b.file = f
    BY <1>1, <1>2 DEF OpenSound
  <1>9. \A b \in i.batch : b.status = "PROCESSING"
    BY <1>1, <1>2 DEF OpenSound
  <1> HIDE DEF o, j
  <1>10. Numbered(f, j.records)
    <2>1. \A p \in j.records : p.file = f /\ p.row \in 1..Len(Rows[f])
      BY <1>3, <1>4, <1>6, <1>7
    <2>2. ASSUME NEW p \in j.records, NEW q \in j.records, p.row = q.row PROVE p = q
      <3>1. CASE p \in i.records /\ q \in i.records
        BY <1>2, <2>2, <3>1 DEF OpenSound, Numbered
      <3>2. ASSUME p = o, q \in i.records PROVE FALSE
        BY <1>3, <1>6, <1>7, <2>2, <3>2
      <3>3. ASSUME q = o, p \in i.records PROVE FALSE
        BY <1>3, <1>6, <1>7, <2>2, <3>3
      <3> QED
        BY <1>4, <3>1, <3>2, <3>3
    <2> QED
      BY <2>1, <2>2 DEF Numbered
  <1>11. OpenSound(j, f)
    BY <1>4, <1>8, <1>9, <1>10 DEF OpenSound
  <1>12. Counted(j)
    <2>1. IsFiniteSet(i.records) /\ IsFiniteSet(j.records)
      BY <1>2, <1>4, FS_AddElement DEF Counted
    <2>2. ASSUME NEW x \in Outcomes PROVE {p \in j.records : p.status = x} = {p \in i.records : p.status = x}
      BY <1>4, <1>6 DEF Outcomes
    <2> QED
      BY <1>2, <1>4, <1>9, <2>1, <2>2 DEF Counted
  <1>13. Traced(work'[s].posted, j.records)
    BY <1>1, <1>4, <1>6, StillTraced DEF ImportInv, EvidenceInv, PostsTraced
  <1>14. \A p \in j.records :
            Holds(p, Committed \cup work'[s].posted, conflicts \cup work'[s].conflicts)
    BY <1>1, <1>4, <1>6 DEF ImportInv, EvidenceInv, RecordsHold, Holds
  <1>15. Sound(s, j, work'[s].posted, work'[s].conflicts, call'[s])
    BY <1>1, <1>4, <1>11, <1>12, <1>13, <1>14 DEF Sound
  <1> HIDE DEF i, f
  <1> QED
    BY <1>1, <1>5, <1>15, LocalStep DEF ImportInv

\* The look-up that finds nothing and the validation that passes.
LEMMA GoesOnStep ==
    ASSUME ImportInv, NEW s \in Session, RowLookup(s) \/ RowAccepted(s)
    PROVE  EvidenceInv'
  <1> DEFINE i == importing[s]
             f == BatchOf[s]
  <1>1. Moves(s, i) /\ i \in OpenImport
    BY ImportOpen DEF RowLookup, RowAccepted, RowGoesOn, Moves, ImportInv, EvidenceInv, ImportTyped
  <1>2. /\ ledger' = ledger /\ conflicts' = conflicts /\ work' = work
        /\ \A t \in Session : t # s => call'[t] = call[t]
    BY DEF RowLookup, Lookup, RowAccepted, Validate, ImportInv, IInv, TypeOK
  <1>3. /\ i.step = "ROWS" /\ i.row <= Len(Rows[f]) /\ Rows[f][i.row] \in Command
        /\ call'[s].cmd = Rows[f][i.row]
    <2>1. CASE RowLookup(s)
      BY <2>1 DEF RowLookup, Lookup, AtRow, Row, ImportInv, IInv, TypeOK
    <2>2. CASE RowAccepted(s)
      <3>1. ~ Idle(s) /\ call'[s].cmd = call[s].cmd
        BY <2>2 DEF RowAccepted, Validate, Idle, ImportInv, IInv, TypeOK, NoCall
      <3> QED
        BY <3>1 DEF ImportInv, EvidenceInv, CallsAtRows, AtRow, Row
    <2> QED
      BY <2>1, <2>2
  <1>4. OpenSound(i, f) /\ Counted(i)
    BY DEF ImportInv, EvidenceInv, ImportsSound
  <1>5. Sound(s, i, work'[s].posted, work'[s].conflicts, call'[s])
    BY <1>2, <1>3, <1>4, KeepsRecords DEF Sound
  <1> HIDE DEF i
  <1> QED
    BY <1>1, <1>2, <1>5, LocalStep DEF ImportInv

LEMMA NoImportSound ==
    ASSUME NEW f
    PROVE  OpenSound(NoImport, f) /\ Counted(NoImport)
  <1>1. NoImport.step = "NONE" /\ NoImport.batch = {} /\ NoImport.records = {}
    BY DEF NoImport
  <1>2. \A x \in Outcomes : NoImport.counts[x] = 0 /\ {o \in NoImport.records : o.status = x} = {}
    BY <1>1 DEF NoImport, NoCounts
  <1> QED
    BY <1>1, <1>2, FS_EmptySet DEF OpenSound, Counted, Numbered

\* An import that has no batch has posted nothing.
LEMMA NothingPosted ==
    ASSUME ImportInv, NEW s \in Session, importing[s].step \in {"NONE", "OPENING"}
    PROVE  /\ importing[s].batch = {} /\ importing[s].records = {}
           /\ work[s].posted = {} /\ Idle(s)
  BY DEF ImportInv, EvidenceInv, ImportsSound, OpenSound, PostsTraced, Traced, CallsAtRows, AtRow

LEMMA StartStep ==
    ASSUME ImportInv, NEW s \in Session, Start(s)
    PROVE  EvidenceInv'
  <1> DEFINE i == importing[s]
             f == BatchOf[s]
             j == [i EXCEPT !.step = "OPENING"]
  <1>1. /\ Moves(s, j)
        /\ ledger' = ledger /\ conflicts' = conflicts /\ work' = work /\ call' = call
    BY DEF Start, Moves, vars
  <1>2. i \in OpenImport /\ OpenSound(i, f) /\ Counted(i)
    BY ImportOpen DEF ImportInv, EvidenceInv, ImportsSound
  <1>3. i.step = "NONE"
    BY <1>2 DEF Start, Returned, Stored, VisibleBatches, OpenSound
  <1>4. i.batch = {} /\ i.records = {} /\ Idle(s)
    BY <1>3, NothingPosted
  <1>5. /\ j \in OpenImport /\ j.step = "OPENING" /\ j.batch = {} /\ j.records = {}
        /\ j.counts = i.counts
    BY <1>2, <1>4 DEF OpenImport
  <1>6. OpenSound(j, f) /\ Counted(j)
    BY <1>2, <1>4, <1>5 DEF OpenSound, Counted, Numbered
  <1>7. Traced(work'[s].posted, j.records)
    BY <1>1, <1>4, <1>5 DEF ImportInv, EvidenceInv, PostsTraced
  <1>8. Sound(s, j, work'[s].posted, work'[s].conflicts, call'[s])
    BY <1>1, <1>4, <1>5, <1>6, <1>7 DEF Sound, Idle
  <1> HIDE DEF j
  <1> QED
    BY <1>1, <1>5, <1>8, LocalStep DEF ImportInv

LEMMA OpenBatchStep ==
    ASSUME ImportInv, NEW s \in Session, OpenBatch(s)
    PROVE  EvidenceInv'
  <1> DEFINE f == BatchOf[s]
             b == [file |-> f, status |-> "PROCESSING", counts |-> NoCounts]
             j == [step |-> "ROWS", row |-> 1, counts |-> NoCounts, records |-> {}, batch |-> {b}]
  <1>1. /\ Moves(s, j)
        /\ ledger' = ledger /\ conflicts' = conflicts /\ work' = work /\ call' = call
        /\ ~ WaitsForBatch(s) /\ ~ BatchTaken(s)
    BY DEF OpenBatch, Moves, vars
  <1>2. work[s].posted = {} /\ Idle(s)
    BY NothingPosted DEF OpenBatch
  <1>3. NoCounts \in [Outcomes -> Nat] /\ \A x \in Outcomes : NoCounts[x] = 0
    BY DEF NoCounts
  <1>4. f \in File /\ b \in Batch
    BY <1>3, FileOf DEF Batch
  <1>5. b.file = f /\ b.status = "PROCESSING"
    OBVIOUS
  <1>6. j.step = "ROWS" /\ j.row = 1 /\ j.counts = NoCounts /\ j.records = {} /\ j.batch = {b}
    OBVIOUS
  <1>7. j \in OpenImport
    <2> HIDE DEF b
    <2> QED
      BY <1>3, <1>4 DEF OpenImport
  <1> HIDE DEF b, j
  <1>8. OpenSound(j, f)
    <2>1. 1 \in 1..Len(Rows[f]) + 1
      BY <1>4, RowsAssumption
    <2> HIDE DEF f
    <2> QED
      BY <1>5, <1>6, <2>1 DEF OpenSound, Numbered
  <1>9. Counted(j)
    <2>1. \A x \in Outcomes : {o \in j.records : o.status = x} = {}
      BY <1>6
    <2> QED
      BY <1>3, <1>5, <1>6, <2>1, FS_EmptySet DEF Counted
  <1>10. Traced(work'[s].posted, j.records)
    BY <1>1, <1>2, <1>6 DEF Traced
  <1>11. Sound(s, j, work'[s].posted, work'[s].conflicts, call'[s])
    BY <1>1, <1>2, <1>6, <1>8, <1>9, <1>10 DEF Sound, Idle
  <1> QED
    BY <1>1, <1>7, <1>11, LocalStep DEF ImportInv

LEMMA FinishStep ==
    ASSUME ImportInv, NEW s \in Session, Finish(s)
    PROVE  EvidenceInv'
  <1> DEFINE i == importing[s]
             f == BatchOf[s]
             b == [file |-> f, status |-> FinalStatus(i.counts), counts |-> i.counts]
             j == [i EXCEPT !.step = "ENDED", !.batch = {b}]
  <1>1. /\ Moves(s, j) /\ i.step = "ROWS" /\ i.row > Len(Rows[f]) /\ Idle(s)
        /\ ledger' = ledger /\ conflicts' = conflicts /\ work' = work /\ call' = call
    BY DEF Finish, Moves, vars
  <1>2. i \in OpenImport /\ f \in File /\ OpenSound(i, f) /\ Counted(i)
    BY ImportOpen, FileOf DEF ImportInv, EvidenceInv, ImportsSound
  <1>3. /\ j.step = "ENDED" /\ j.batch = {b} /\ j.records = i.records /\ j.counts = i.counts
        /\ b.file = f /\ b.counts = i.counts /\ b.status = FinalStatus(i.counts)
    BY <1>2 DEF OpenImport
  <1>4. j \in OpenImport
    <2>1. b \in Batch
      BY <1>2, FinalStatusType DEF Batch, OpenImport
    <2> HIDE DEF b
    <2> QED
      BY <1>2, <2>1 DEF OpenImport
  <1> HIDE DEF b, j
  <1>5. Answered(f, i.records)
    <2>1. i.row - 1 = Len(Rows[f]) /\ Len(Rows[f]) \in Nat
      <3>1. Len(Rows[f]) \in Nat
        BY <1>2, RowsAssumption
      <3>2. i.row \in 1..Len(Rows[f]) + 1
        BY <1>1, <1>2 DEF OpenSound
      <3> HIDE DEF i, f
      <3> QED
        BY <1>1, <3>1, <3>2
    <2>2. \A n \in 1..i.row - 1 : \E o \in i.records : o.row = n
      BY <1>1, <1>2 DEF OpenSound
    <2>3. \A o \in i.records : o.file = f /\ o.status \in Outcomes
      BY <1>1, <1>2 DEF OpenSound, Numbered
    <2> HIDE DEF i, f
    <2> QED
      BY <2>1, <2>2, <2>3 DEF Answered
  <1>6. OpenSound(j, f)
    BY <1>2, <1>3, <1>5 DEF OpenSound
  <1>7. Counted(j)
    BY <1>2, <1>3 DEF Counted
  <1>8. i.batch # {}
    BY <1>1, <1>2 DEF OpenSound
  <1>9. Sound(s, j, work'[s].posted, work'[s].conflicts, call'[s])
    <2>1. /\ Traced(work'[s].posted, j.records)
          /\ \A o \in j.records :
               Holds(o, Committed \cup work'[s].posted, conflicts \cup work'[s].conflicts)
      BY <1>1, <1>3, KeepsRecords
    <2> QED
      BY <1>1, <1>6, <1>7, <1>8, <2>1 DEF Sound, Idle
  <1> HIDE DEF i, f
  <1> QED
    BY <1>1, <1>4, <1>9, LocalStep DEF ImportInv

LEMMA LostStep ==
    ASSUME ImportInv, NEW s \in Session, Lost(s)
    PROVE  EvidenceInv'
  <1>1. Moves(s, NoImport)
    BY DEF Lost, Moves
  <1>2. /\ ledger' = ledger /\ conflicts' = conflicts
        /\ \A t \in Session : t # s => work'[t] = work[t] /\ call'[t] = call[t]
        /\ work'[s] = NoWork /\ call'[s] = NoCall
    BY DEF Lost, Undo, ImportInv, IInv, TypeOK
  <1>3. work'[s].posted = {} /\ call'[s].step = "IDLE" /\ NoImport.records = {} /\ NoImport.batch = {}
    BY <1>2 DEF NoWork, NoCall, NoImport
  <1>4. Sound(s, NoImport, work'[s].posted, work'[s].conflicts, call'[s])
    BY <1>3, NoImportSound DEF Sound, Traced
  <1> QED
    BY <1>1, <1>2, <1>4, NoImportType, LocalStep DEF ImportInv

-----------------------------------------------------------------------------
(* The commit of an import.                                                *)

\* What the commit of session s does to the evidence and the ledger.
LEMMA CommitEffect ==
    ASSUME ImportInv, NEW s \in Session, CommitImport(s)
    PROVE  /\ Committed' = Committed \cup work[s].posted
           /\ conflicts' = conflicts \cup work[s].conflicts
           /\ work'[s].posted = {} /\ Idle(s) /\ call' = call
           /\ \A t \in Session : t # s => work'[t] = work[t]
           /\ batches' = batches \cup importing[s].batch
           /\ records' = records \cup importing[s].records
           /\ importing'[s] = NoImport
           /\ \A t \in Session : t # s => importing'[t] = importing[t]
           /\ \E b \in Batch : importing[s].batch = {b} /\ b.file = BatchOf[s]
  <1>1. importing[s].step = "ENDED"
    BY DEF CommitImport
  <1>2. Idle(s)
    BY <1>1 DEF ImportInv, EvidenceInv, CallsAtRows, AtRow
  <1>3. CASE work[s].calls > 0
    <2>1. Commit(s)
      BY <1>3 DEF CommitImport
    <2>2. Committed' = Committed \cup work[s].posted
      BY <2>1, CommitStep DEF ImportInv
    <2> QED
      BY <2>1, <2>2, <1>1, <1>2 DEF Commit, CommitImport, ImportInv, IInv, TypeOK, NoWork, EvidenceInv,
                        ImportTyped, ImportsSound, OpenSound
  <1>4. CASE ~ (work[s].calls > 0)
    <2>1. UNCHANGED vars
      BY <1>4 DEF CommitImport
    <2>2. work[s].calls = 0
      BY <1>4 DEF ImportInv, IInv, TypeOK
    <2>3. work[s].posted = {} /\ work[s].conflicts = {}
      BY <2>2 DEF ImportInv, CallsCounted
    <2> QED
      BY <2>1, <2>3, <1>1, <1>2 DEF vars, Committed, CommitImport, ImportInv, EvidenceInv, ImportTyped,
                               ImportsSound, OpenSound
  <1> QED
    BY <1>3, <1>4

\* A committed file has no evidence from before.
LEMMA FileIsNew ==
    ASSUME ImportInv, NEW s \in Session, importing[s].batch # {}
    PROVE  /\ \A b \in batches : b.file # BatchOf[s]
           /\ \A o \in records : o.file # BatchOf[s]
           /\ \A t \in Session : t # s /\ importing[t].batch # {} => BatchOf[t] # BatchOf[s]
  BY DEF ImportInv, EvidenceInv, FilesApart

LEMMA CommittedStep ==
    ASSUME ImportInv, NEW s \in Session, CommitImport(s)
    PROVE  EvidenceInv'
  <1> DEFINE i == importing[s]
             f == BatchOf[s]
  <1>1. PICK b \in Batch : i.batch = {b} /\ b.file = f
    BY CommitEffect
  <1>2. /\ Committed' = Committed \cup work[s].posted
        /\ conflicts' = conflicts \cup work[s].conflicts
        /\ work'[s].posted = {} /\ call'[s].step = "IDLE" /\ call' = call
        /\ \A t \in Session : t # s => work'[t] = work[t]
        /\ batches' = batches \cup {b}
        /\ records' = records \cup i.records
        /\ importing'[s] = NoImport
        /\ \A t \in Session : t # s => importing'[t] = importing[t]
    BY <1>1, CommitEffect DEF Idle
  <1>3. i \in OpenImport /\ f \in File /\ OpenSound(i, f) /\ Counted(i)
    BY ImportOpen, FileOf DEF ImportInv, EvidenceInv, ImportsSound
  <1>4. /\ \A d \in batches : d.file # f
        /\ \A o \in records : o.file # f
        /\ \A t \in Session : t # s /\ importing[t].batch # {} => BatchOf[t] # f
    BY <1>1, FileIsNew
  <1>5. /\ \A o \in i.records : o.file = f /\ o.row \in 1..Len(Rows[f])
        /\ Numbered(f, i.records)
    BY <1>3 DEF OpenSound, Numbered
  <1>6. NoImport.batch = {} /\ NoImport.records = {} /\ NoImport.step = "NONE"
    BY DEF NoImport
  <1> HIDE DEF i, f
  <1>7. ImportTyped'
    <2>1. batches' \subseteq Batch /\ records' \subseteq Record
      BY <1>2, <1>3 DEF ImportInv, EvidenceInv, ImportTyped, OpenImport
    <2>2. importing \in [Session -> OpenImport]
      BY DEF ImportInv, EvidenceInv, ImportTyped, OpenImport
    <2>3. importing' = [importing EXCEPT ![s] = NoImport]
      BY DEF CommitImport
    <2>4. importing' \in [Session -> OpenImport]
      BY <2>2, <2>3, NoImportType
    <2> QED
      BY <2>1, <2>4 DEF ImportTyped, OpenImport
  <1>8. ImportsSound'
    <2>1. ASSUME NEW t \in Session PROVE OpenSound(importing'[t], BatchOf[t]) /\ Counted(importing'[t])
      BY <1>2, NoImportSound DEF ImportInv, EvidenceInv, ImportsSound
    <2> QED
      BY <2>1 DEF ImportsSound
  <1>9. FilesApart'
    <2>1. \A d, e \in batches' : d.file = e.file => d = e
      BY <1>1, <1>2, <1>4 DEF ImportInv, EvidenceInv, FilesApart
    <2>2. ASSUME NEW t \in Session, importing'[t].batch # {}
          PROVE  /\ \A d \in batches' : d.file # BatchOf[t]
                 /\ \A u \in Session : u # t /\ BatchOf[u] = BatchOf[t] => importing'[u].batch = {}
      <3>1. t # s /\ importing'[t] = importing[t]
        BY <1>2, <1>6, <2>2
      <3> QED
        BY <1>1, <1>2, <1>4, <1>6, <2>2, <3>1 DEF ImportInv, EvidenceInv, FilesApart
    <2>3. \A o \in records' : \E d \in batches' : d.file = o.file
      BY <1>1, <1>2, <1>5 DEF ImportInv, EvidenceInv, FilesApart
    <2> QED
      BY <2>1, <2>2, <2>3 DEF FilesApart
  <1>10. ArchiveSound'
    <2>1. {o \in records' : o.file = f} = i.records
      BY <1>2, <1>4, <1>5
    <2>2. \A g : g # f => {o \in records' : o.file = g} = {o \in records : o.file = g}
      BY <1>2, <1>5
    <2>3. \A g \in File : Numbered(g, {o \in records' : o.file = g})
      BY <1>5, <2>1, <2>2 DEF ImportInv, EvidenceInv, ArchiveSound
    <2>4. ASSUME NEW d \in batches', d.status # "PROCESSING" PROVE Answered(d.file, records')
      <3>1. CASE d \in batches
        BY <1>2, <2>4, <3>1 DEF ImportInv, EvidenceInv, ArchiveSound, Answered
      <3>2. CASE d = b
        <4>1. Answered(f, i.records)
          BY <1>1, <1>3, <2>4, <3>2 DEF OpenSound
        <4> QED
          BY <1>1, <1>2, <3>2, <4>1 DEF Answered
      <3> QED
        BY <1>2, <3>1, <3>2
    <2>5. ASSUME NEW d \in batches', d.status # "PROCESSING"
          PROVE  /\ IsFiniteSet({o \in records' : o.file = d.file})
                 /\ \A x \in Outcomes : d.counts[x] =
                      Cardinality({o \in {p \in records' : p.file = d.file} : o.status = x})
                 /\ d.status = FinalStatus(d.counts)
      <3>1. CASE d \in batches
        <4>1. {o \in records' : o.file = d.file} = {o \in records : o.file = d.file}
          BY <1>4, <2>2, <3>1
        <4> QED
          BY <2>5, <3>1, <4>1 DEF ImportInv, EvidenceInv, ArchiveSound
      <3>2. CASE d = b
        <4>1. d.counts = i.counts /\ d.status = FinalStatus(i.counts)
          BY <1>1, <1>3, <2>5, <3>2 DEF Counted
        <4> QED
          BY <1>1, <1>3, <2>1, <3>2, <4>1 DEF Counted
      <3> QED
        BY <1>2, <3>1, <3>2
    <2> QED
      BY <2>3, <2>4, <2>5 DEF ArchiveSound
  <1>11. PostsTraced'
    <2>1. Traced(Committed, records) /\ Traced(work[s].posted, i.records)
      BY DEF ImportInv, EvidenceInv, PostsTraced, i
    <2>2. work[s].posted \cap Committed = {}
      BY DEF ImportInv, IInv, NoClashOpen
    <2>3. Traced(Committed', records')
      BY <1>2, <2>1, <2>2 DEF Traced
    <2>4. ASSUME NEW t \in Session PROVE Traced(work'[t].posted, importing'[t].records)
      <3>1. CASE t = s
        BY <1>2, <1>6, <3>1 DEF Traced
      <3>2. CASE t # s
        BY <1>2, <3>2 DEF ImportInv, EvidenceInv, PostsTraced
      <3> QED
        BY <3>1, <3>2
    <2> QED
      BY <2>3, <2>4 DEF PostsTraced
  <1>12. RecordsHold'
    <2>1. ASSUME NEW o \in records' PROVE Holds(o, Committed', conflicts')
      <3>1. CASE o \in records
        BY <1>2, <3>1, HoldsMore DEF ImportInv, EvidenceInv, RecordsHold
      <3>2. CASE o \in i.records
        BY <1>2, <3>2 DEF ImportInv, EvidenceInv, RecordsHold, i
      <3> QED
        BY <1>2, <3>1, <3>2
    <2>2. ASSUME NEW t \in Session, NEW o \in importing'[t].records
          PROVE  Holds(o, Committed' \cup work'[t].posted, conflicts' \cup work'[t].conflicts)
      <3>1. t # s /\ o \in importing[t].records /\ work'[t] = work[t]
        BY <1>2, <1>6, <2>2
      <3>2. Holds(o, Committed \cup work[t].posted, conflicts \cup work[t].conflicts)
        BY <3>1 DEF ImportInv, EvidenceInv, RecordsHold
      <3> QED
        BY <1>2, <3>1, <3>2, HoldsMore
    <2> QED
      BY <2>1, <2>2 DEF RecordsHold
  <1>13. CallsAtRows'
    <2>1. ASSUME NEW t \in Session, call'[t].step # "IDLE"
          PROVE  /\ importing'[t].step = "ROWS" /\ importing'[t].row <= Len(Rows[BatchOf[t]])
                 /\ Rows[BatchOf[t]][importing'[t].row] \in Command
                 /\ call'[t].cmd = Rows[BatchOf[t]][importing'[t].row]
      BY <1>2, <2>1 DEF ImportInv, EvidenceInv, CallsAtRows, Idle, AtRow, Row
    <2> QED
      BY <2>1 DEF CallsAtRows, Idle, AtRow, Row
  <1> QED
    BY <1>7, <1>8, <1>9, <1>10, <1>11, <1>12, <1>13 DEF EvidenceInv

-----------------------------------------------------------------------------
(* The invariant holds throughout.                                         *)

LEMMA CallsCountedStep ==
    ASSUME TypeOK, CallsCounted, [Next]_vars
    PROVE  CallsCounted'
  <1>1. work \in [Session -> WorkRecord] /\ \A t \in Session : work[t].calls \in Nat
    BY DEF TypeOK, WorkRecord
  <1>2. CASE UNCHANGED vars
    BY <1>2 DEF vars, CallsCounted
  <1>3. ASSUME NEW s \in Session, NEW c, NEW status, NEW posted, NEW marked, NEW evidence,
               Answer(s, c, status, posted, marked, evidence)
        PROVE  CallsCounted'
    <2>1. work'[s].calls = work[s].calls + 1
      BY <1>1, <1>3 DEF Answer, WorkRecord
    <2>2. \A t \in Session : t # s => work'[t] = work[t]
      BY <1>1, <1>3 DEF Answer
    <2> QED
      BY <1>1, <2>1, <2>2 DEF CallsCounted
  <1>4. ASSUME NEW s \in Session, Validate(s) PROVE CallsCounted'
    <2>1. CASE work' = work
      BY <2>1 DEF CallsCounted
    <2>2. CASE work' = [work EXCEPT ![s].calls = @ + 1]
      <3>1. work'[s].calls = work[s].calls + 1 /\ \A t \in Session : t # s => work'[t] = work[t]
        BY <1>1, <2>2 DEF WorkRecord
      <3> QED
        BY <1>1, <3>1 DEF CallsCounted
    <2> QED
      BY <1>4, <2>1, <2>2 DEF Validate
  <1>5. ASSUME NEW s \in Session, work' = [work EXCEPT ![s] = NoWork] PROVE CallsCounted'
    BY <1>1, <1>5 DEF CallsCounted, NoWork
  <1>6. ASSUME NEW s \in Session, NEW c, Lookup(s, c) PROVE CallsCounted'
    BY <1>6 DEF Lookup, CallsCounted
  <1> QED
    BY <1>2, <1>3, <1>4, <1>5, <1>6
    DEF Next, Create, Duplicate, RecordConflict, Post, Undo, InsertFails, AbortedByDeadlock, Rollback, Commit

LEMMA ImportInvInit == ImportInit => ImportInv
  <1> SUFFICES ASSUME ImportInit PROVE ImportInv
    OBVIOUS
  <1>1. IInv
    BY InvariantInit DEF ImportInit
  <1>2. /\ Committed = {} /\ batches = {} /\ records = {} /\ conflicts = {}
        /\ \A s \in Session : work[s] = NoWork /\ call[s] = NoCall /\ importing[s] = NoImport
        /\ importing = [s \in Session |-> NoImport]
    BY DEF ImportInit, Init, Committed
  <1>3. NoImport.batch = {} /\ NoImport.records = {} /\ NoWork.posted = {} /\ NoWork.conflicts = {}
    BY DEF NoImport, NoWork
  <1>4. ImportTyped
    BY <1>2, NoImportType DEF ImportTyped, OpenImport
  <1>5. ImportsSound
    BY <1>2, NoImportSound DEF ImportsSound
  <1>6. FilesApart /\ PostsTraced /\ RecordsHold
    BY <1>2, <1>3 DEF FilesApart, PostsTraced, Traced, RecordsHold
  <1>7. ArchiveSound
    BY <1>2 DEF ArchiveSound, Numbered
  <1>8. CallsAtRows /\ CallsCounted
    BY <1>2, <1>3 DEF CallsAtRows, CallsCounted, Idle, NoCall
  <1> QED
    BY <1>1, <1>4, <1>5, <1>6, <1>7, <1>8 DEF ImportInv, EvidenceInv

LEMMA ImportInvStep == ImportInv /\ [ImportNext]_importVars => ImportInv'
  <1> SUFFICES ASSUME ImportInv, [ImportNext]_importVars PROVE ImportInv'
    OBVIOUS
  <1>1. [Next]_vars
    BY ImportIsCalls DEF ImportInv, IInv
  <1>2. IInv' /\ CallsCounted'
    BY <1>1, InvariantStep, CallsCountedStep DEF ImportInv, IInv
  <1>3. ASSUME UNCHANGED importVars PROVE EvidenceInv'
    <2>1. /\ ledger' = ledger /\ conflicts' = conflicts /\ work' = work /\ call' = call
          /\ batches' = batches /\ records' = records /\ importing' = importing
          /\ Committed' = Committed
      BY <1>3 DEF importVars, Committed
    <2>2. ImportTyped' /\ ImportsSound' /\ FilesApart' /\ ArchiveSound'
      BY <2>1 DEF ImportInv, EvidenceInv, ImportTyped, ImportsSound, FilesApart, ArchiveSound
    <2>3. PostsTraced' /\ RecordsHold' /\ CallsAtRows'
      BY <2>1 DEF ImportInv, EvidenceInv, PostsTraced, RecordsHold, CallsAtRows, AtRow, Row, Idle
    <2> QED
      BY <2>2, <2>3 DEF EvidenceInv
  <1>4. ASSUME NEW s \in Session, Reuse(s) PROVE EvidenceInv'
    BY <1>3, <1>4 DEF Reuse
  <1>5. ASSUME NEW s \in Session, Start(s) \/ OpenBatch(s) \/ Finish(s) PROVE EvidenceInv'
    BY <1>5, StartStep, OpenBatchStep, FinishStep
  <1>6. ASSUME NEW s \in Session, ImportRow(s) PROVE EvidenceInv'
    BY <1>6, RefusedStep, RaisesStep, AnsweredRowStep, GoesOnStep, RejectedStep, PostedStep
    DEF ImportRow
  <1>7. ASSUME NEW s \in Session, CommitImport(s) PROVE EvidenceInv'
    BY <1>7, CommittedStep
  <1>8. ASSUME NEW s \in Session, FlushFails(s) \/ DeadlockBroken(s) \/ Abandon(s) PROVE EvidenceInv'
    BY <1>8, LostStep DEF FlushFails, DeadlockBroken, Abandon
  <1>9. EvidenceInv'
    BY <1>3, <1>4, <1>5, <1>6, <1>7, <1>8 DEF ImportNext
  <1> QED
    BY <1>2, <1>9 DEF ImportInv

\* The inductive invariant of concurrent imports.
THEOREM ImportInvariance == ImportSpec => []ImportInv
  BY ImportInvInit, ImportInvStep, PTL DEF ImportSpec

\* The ledger, batches, records and open imports always have their types.
THEOREM ImportTypeCorrect == ImportSpec => []ImportTypeOK
  <1>1. ImportInv => ImportTypeOK
    BY DEF ImportInv, IInv, EvidenceInv, ImportTyped, ImportTypeOK
  <1> QED
    BY <1>1, ImportInvariance, PTL

\* The imports of all sessions are one book of facts: the identities,
\* reversals and openings of LedgerBook.
THEOREM ImportsKeepBook == ImportSpec => ImplementsBook
  BY ImportsAreCalls, BookImplemented, PTL

-----------------------------------------------------------------------------
(* What is recorded and reported is true.                                  *)

\* The outcome of a row, in a committed record or in the session's own,
\* is what the session's ledger says of the row, whatever others commit.
THEOREM OutcomesHold == ImportSpec => []OutcomesTrue
  <1>1. ASSUME ImportInv PROVE OutcomesTrue
    <2>1. ASSUME NEW s \in Session, NEW o \in VisibleRecords(s)
          PROVE  /\ o.status \in {"POSTED", "DUPLICATE"} => RowOf(o) \in Facts(s)
                 /\ o.status = "CONFLICT" =>
                      /\ RowOf(o) \notin Facts(s) /\ Existing(s, RowOf(o)) # {}
                      /\ [batch |-> o.file, cmd |-> RowOf(o)] \in conflicts \cup work[s].conflicts
      <3>1. Facts(s) = Committed \cup work[s].posted
        BY FactsSplit
      <3>2. Holds(o, Facts(s), conflicts \cup work[s].conflicts)
        BY <1>1, <2>1, <3>1, HoldsMore DEF VisibleRecords, ImportInv, EvidenceInv, RecordsHold
      <3>3. \A c, d \in Facts(s) : c.key = d.key => c = d
        BY <1>1, <3>1 DEF ImportInv, IInv, NoClashOpen, Clash
      <3> QED
        BY <3>2, <3>3 DEF Holds, Existing
    <2> QED
      BY <2>1 DEF OutcomesTrue, RowOf
  <1>2. ImportInv => OutcomesTrue
    BY <1>1
  <1> QED
    BY <1>2, ImportInvariance, PTL

\* What the counts of a file's records say of them.
LEMMA Reported ==
    ASSUME NEW f \in File, NEW R, Numbered(f, R), Answered(f, R), IsFiniteSet(R),
           NEW counts \in [Outcomes -> Nat],
           \A x \in Outcomes : counts[x] = Cardinality({o \in R : o.status = x})
    PROVE  /\ {o.row : o \in R} = 1..Len(Rows[f])
           /\ FinalStatus(counts) = "COMPLETED" <=> \A o \in R : o.status \in {"POSTED", "DUPLICATE"}
  <1>1. {o.row : o \in R} = 1..Len(Rows[f])
    BY DEF Numbered, Answered
  <1>2. \A o \in R : o.status \in Outcomes
    BY DEF Numbered, Answered
  <1>3. ASSUME NEW x \in Outcomes PROVE counts[x] = 0 <=> \A o \in R : o.status # x
    <2> DEFINE S == {o \in R : o.status = x}
    <2>1. IsFiniteSet(S)
      BY FS_Subset
    <2>2. Cardinality(S) = 0 <=> S = {}
      BY <2>1, FS_EmptySet
    <2> QED
      BY <2>2
  <1>4. {"REJECTED", "CONFLICT"} \subseteq Outcomes
        /\ Outcomes = {"POSTED", "DUPLICATE"} \cup {"REJECTED", "CONFLICT"}
    BY DEF Outcomes
  <1>5. FinalStatus(counts) = "COMPLETED" <=> counts["REJECTED"] = 0 /\ counts["CONFLICT"] = 0
    <2>1. counts["REJECTED"] \in Nat /\ counts["CONFLICT"] \in Nat
      BY <1>4
    <2> QED
      BY <2>1 DEF FinalStatus
  <1> QED
    BY <1>1, <1>2, <1>3, <1>4, <1>5

\* Batch b is the report of its records R.
Accounts(b, R) ==
    /\ {o.row : o \in R} = 1..Len(Rows[b.file])
    /\ \A x \in Outcomes : b.counts[x] = Cardinality({o \in R : o.status = x})
    /\ b.status = "COMPLETED" <=> \A o \in R : o.status \in {"POSTED", "DUPLICATE"}

LEMMA BatchAccounts ==
    ASSUME ImportInv, NEW s \in Session, NEW b \in VisibleBatches(s), b.status # "PROCESSING",
           NEW own, own = {o \in VisibleRecords(s) : o.file = b.file}
    PROVE  Accounts(b, own)
  <1> DEFINE i == importing[s]
  <1>1. OpenSound(i, BatchOf[s]) /\ Counted(i) /\ i \in OpenImport /\ BatchOf[s] \in File
    BY ImportOpen, FileOf DEF ImportInv, EvidenceInv, ImportsSound
  <1>2. \A o \in i.records : o.file = BatchOf[s]
    BY <1>1 DEF OpenSound, Numbered
  <1>3. i.batch = {} => i.records = {}
    BY <1>1 DEF OpenSound, OpenImport
  <1>4. i.batch # {} => /\ \A d \in batches : d.file # BatchOf[s]
                        /\ \A o \in records : o.file # BatchOf[s]
    BY FileIsNew
  <1>5. /\ b.file \in File /\ b.counts \in [Outcomes -> Nat]
        /\ Numbered(b.file, own) /\ Answered(b.file, own) /\ IsFiniteSet(own)
        /\ \A x \in Outcomes : b.counts[x] = Cardinality({o \in own : o.status = x})
        /\ b.status = FinalStatus(b.counts)
    <2>1. CASE b \in batches
      <3>1. own = {o \in records : o.file = b.file}
        BY <1>2, <1>3, <1>4, <2>1 DEF VisibleRecords
      <3>2. b \in Batch
        BY <2>1 DEF ImportInv, EvidenceInv, ImportTyped
      <3>3. Answered(b.file, own)
        BY <2>1, <3>1 DEF ImportInv, EvidenceInv, ArchiveSound, Answered
      <3> QED
        BY <2>1, <3>1, <3>2, <3>3 DEF ImportInv, EvidenceInv, ArchiveSound, Batch
    <2>2. CASE b \in i.batch
      <3>1. b.file = BatchOf[s]
        BY <1>1, <2>2 DEF OpenSound, OpenImport
      <3>2. own = i.records
        BY <1>2, <1>4, <2>2, <3>1 DEF VisibleRecords
      <3>3. b \in Batch
        BY <1>1, <2>2 DEF OpenImport
      <3>4. Numbered(b.file, own) /\ Answered(b.file, own)
        BY <1>1, <2>2, <3>1, <3>2 DEF OpenSound
      <3> QED
        BY <1>1, <2>2, <3>2, <3>3, <3>4 DEF Counted, Batch
    <2> QED
      BY <2>1, <2>2 DEF VisibleBatches
  <1> QED
    BY <1>5, Reported DEF Accounts

\* A completed batch accounts for every row of its file once, in its records
\* and in its counts, and is free of errors exactly when no row failed.
THEOREM ReportsHold == ImportSpec => []ReportsAddUp
  <1>1. ASSUME ImportInv PROVE ReportsAddUp
    <2>1. ASSUME NEW s \in Session, NEW b \in VisibleBatches(s), b.status # "PROCESSING"
          PROVE  Accounts(b, {o \in VisibleRecords(s) : o.file = b.file})
      <3> DEFINE own == {o \in VisibleRecords(s) : o.file = b.file}
      <3>1. Accounts(b, own)
        <4>1. own = {o \in VisibleRecords(s) : o.file = b.file}
          OBVIOUS
        <4> HIDE DEF own
        <4> QED
          BY <1>1, <2>1, <4>1, BatchAccounts
      <3> QED
        BY <3>1
    <2> QED
      BY <2>1 DEF ReportsAddUp, Accounts
  <1>2. ImportInv => ReportsAddUp
    BY <1>1
  <1> QED
    BY <1>2, ImportInvariance, PTL

-----------------------------------------------------------------------------
(* The archive.                                                            *)

Final(R) == {o \in R : o.status \in Outcomes}

Completed(B) == {b \in B : b.status # "PROCESSING"}

\* The evidence that has been committed is what the archive allows.
ArchiveAllows ==
    /\ Committed \in SUBSET Command
    /\ Archive!Unambiguous(Final(records))
    /\ Archive!Complete(Completed(batches), Final(records))
    /\ Archive!Traceable(Committed, Final(records))

LEMMA EvidenceIsArchive == ImportInv => ArchiveAllows
  <1> SUFFICES ASSUME ImportInv PROVE ArchiveAllows
    OBVIOUS
  <1>1. Committed \in SUBSET Command
    BY DEF ImportInv, IInv, TypeOK, Committed
  <1>2. Archive!Unambiguous(Final(records))
    <2>1. ASSUME NEW o \in records, NEW p \in records, o.file = p.file, o.row = p.row
          PROVE  o = p
      <3>1. o.file \in File
        BY DEF ImportInv, EvidenceInv, ImportTyped, Record
      <3>2. Numbered(o.file, {q \in records : q.file = o.file})
        BY <3>1 DEF ImportInv, EvidenceInv, ArchiveSound
      <3> QED
        BY <2>1, <3>2 DEF Numbered
    <2> QED
      BY <2>1 DEF Archive!Unambiguous, Final
  <1>3. Archive!Complete(Completed(batches), Final(records))
    <2>1. \A b, d \in batches : b.file = d.file => b = d
      BY DEF ImportInv, EvidenceInv, FilesApart
    <2>2. \A b \in Completed(batches) : Answered(b.file, records)
      BY DEF ImportInv, EvidenceInv, ArchiveSound, Completed
    <2> QED
      BY <2>1, <2>2 DEF Archive!Complete, Completed, Final, Answered
  <1>4. Archive!Traceable(Committed, Final(records))
    <2>1. Traced(Committed, records) /\ \A o \in records : Holds(o, Committed, conflicts)
      BY DEF ImportInv, EvidenceInv, PostsTraced, RecordsHold
    <2>2. {"POSTED", "DUPLICATE"} \subseteq Outcomes
      BY DEF Outcomes
    <2> QED
      BY <2>1, <2>2 DEF Archive!Traceable, Archive!RowOf, RowOf, Traced, Holds, Final
  <1> QED
    BY <1>1, <1>2, <1>3, <1>4 DEF ArchiveAllows

\* What is committed stays.
LEMMA EvidenceStays ==
    ASSUME ImportInv, [ImportNext]_importVars
    PROVE  Committed \subseteq Committed' /\ batches \subseteq batches' /\ records \subseteq records'
  <1>1. ASSUME NEW s \in Session, CommitImport(s)
        PROVE  Committed \subseteq Committed' /\ batches \subseteq batches' /\ records \subseteq records'
    <2>1. /\ Committed' = Committed \cup work[s].posted
          /\ batches' = batches \cup importing[s].batch
          /\ records' = records \cup importing[s].records
      BY <1>1, CommitEffect
    <2> QED
      BY <2>1
  <1>2. CASE ledger' = ledger /\ batches' = batches /\ records' = records
    BY <1>2 DEF Committed
  <1>3. CASE UNCHANGED importVars
    BY <1>3 DEF importVars, vars, Committed
  <1>4. ASSUME NEW s \in Session, Reuse(s) \/ Start(s) \/ OpenBatch(s) \/ Finish(s)
        PROVE  ledger' = ledger /\ batches' = batches /\ records' = records
    <2>1. CASE Reuse(s)
      BY <2>1 DEF Reuse, importVars, vars
    <2>2. CASE Start(s)
      BY <2>2 DEF Start, vars
    <2>3. CASE OpenBatch(s)
      BY <2>3 DEF OpenBatch, vars
    <2>4. CASE Finish(s)
      BY <2>4 DEF Finish, vars
    <2> QED
      BY <1>4, <2>1, <2>2, <2>3, <2>4
  <1>5. ASSUME NEW s \in Session, ImportRow(s)
        PROVE  ledger' = ledger /\ batches' = batches /\ records' = records
    <2>1. CASE RowRefused(s) \/ RowRaises(s) \/ RowPosted(s)
      BY <2>1 DEF RowRefused, RowRaises, RowPosted, Post, RowEnds, RowGoesOn, vars
    <2>2. CASE RowDuplicate(s) \/ RowConflict(s) \/ RowLookup(s)
      BY <2>2 DEF RowDuplicate, Duplicate, RowConflict, RecordConflict, RowLookup, Lookup, RowEnds, RowGoesOn, vars
    <2>3. CASE RowAccepted(s) \/ RowRejected(s)
      BY <2>3 DEF RowAccepted, RowRejected, Validate, RowEnds, RowGoesOn, vars
    <2> QED
      BY <1>5, <2>1, <2>2, <2>3 DEF ImportRow
  <1>6. ASSUME NEW s \in Session, FlushFails(s) \/ DeadlockBroken(s) \/ Abandon(s)
        PROVE  ledger' = ledger /\ batches' = batches /\ records' = records
    BY <1>6 DEF FlushFails, DeadlockBroken, Abandon, Lost, Undo, vars
  <1> QED
    BY <1>1, <1>2, <1>3, <1>4, <1>5, <1>6 DEF ImportNext

\* The imports of all sessions keep the archive: a file is completed once and
\* in full, every fact is traced to the one row that posted it, and no final
\* evidence changes.
THEOREM ArchiveImplemented == ImportSpec => ImplementsArchive
  <1>1. ImportInit => Archive!Init
    BY DEF ImportInit, Init, Archive!Init
  <1>2. ImportSpec => []ArchiveAllows
    BY EvidenceIsArchive, ImportInvariance, PTL
  <1>3. ASSUME ImportInv, ArchiveAllows', [ImportNext]_importVars
        PROVE  Archive!Record
    <2>1. Committed \subseteq Committed' /\ batches \subseteq batches' /\ records \subseteq records'
      BY <1>3, EvidenceStays
    <2>2. Final(records) \subseteq Final(records') /\ Completed(batches) \subseteq Completed(batches')
      BY <2>1 DEF Final, Completed
    <2> QED
      BY <1>3, <2>1, <2>2 DEF Archive!Record, ArchiveAllows, Committed, Final, Completed
  <1>4. ImportInv /\ ArchiveAllows' /\ [ImportNext]_importVars => [Archive!Record]_Archive!avars
    BY <1>3
  <1> QED
    BY <1>1, <1>2, <1>4, ImportInvariance, PTL DEF ImportSpec, ImplementsArchive, Archive!Spec
=============================================================================
