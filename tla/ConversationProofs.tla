------------------------- MODULE ConversationProofs -------------------------
(***************************************************************************)
(* Proofs about Conversation, for every model, every set of actors and     *)
(* cutoffs, and any number of sessions.                                    *)
(***************************************************************************)
EXTENDS Conversation, FiniteSetTheorems, TLAPS

-----------------------------------------------------------------------------
(* What others have published.                                             *)

BookTyped ==
    /\ revision \in [Cutoff -> Nat]
    /\ evaluations \in Seq([at : Cutoff, created : Cutoff, risk : BOOLEAN])
    /\ valuation \in [Cutoff -> [state : ValuationState, version : Nat]]
    /\ \A t \in Cutoff : valuation[t].state # "MISSING" => valuation[t].version > 0

\* The kind of record a tool reads.
KindOf(tool) ==
    CASE tool \in {"get_holdings", "get_portfolio_snapshot"} -> "portfolio_snapshot"
      [] tool \in {"get_risk", "get_policy_breaches"} -> "risk_evaluation"
      [] OTHER -> "portfolio_reconstruction"

NotAfter(x, y) == x.at < y.at \/ (x.at = y.at /\ Rank(x) <= Rank(y))

\* A reading of a tool at a cutoff: a record of the tool's kind, published,
\* and dated at or before the cutoff.
Reading(x, tool, at) == x \in SourceRow /\ x.kind = KindOf(tool) /\ x.at <= at /\ Published(x)

\* A reading that no published record of the kind and the cutoff supersedes.
Newest(y, kind, at) ==
    \A x \in SourceRow : x.kind = kind /\ x.at <= at /\ Published(x) => NotAfter(x, y)

LEMMA AtMostOneIsFinite ==
    ASSUME NEW S, \A x, y \in S : x = y
    PROVE  IsFiniteSet(S)
  <1>1. CASE S = {}
    BY <1>1, FS_EmptySet
  <1>2. ASSUME NEW x \in S PROVE IsFiniteSet(S)
    <2>1. S = {x}
      BY <1>2
    <2> QED
      BY <2>1, FS_Singleton
  <1> QED
    BY <1>1, <1>2

LEMMA SnapshotReading ==
    ASSUME BookTyped, NEW at \in Cutoff, NEW y \in SnapshotSources(at)
    PROVE  /\ y \in SourceRow /\ y.kind = "portfolio_snapshot" /\ y.at <= at /\ Published(y)
           /\ Newest(y, "portfolio_snapshot", at)
           /\ \A z \in SnapshotSources(at) : z = y
  <1> DEFINE known == {t \in Cutoff : t <= at /\ revision[t] > 0}
  <1>1. PICK t \in known : /\ \A v \in known : v <= t
                           /\ y = Source("portfolio_snapshot", t, revision[t])
    BY DEF SnapshotSources
  <1>2. t \in Cutoff /\ t \in Nat /\ t <= at /\ revision[t] \in Nat /\ revision[t] > 0
    BY <1>1, CutoffAssumption DEF BookTyped
  <1>3. y.kind = "portfolio_snapshot" /\ y.at = t /\ y.place = revision[t] /\ y \in SourceRow
    BY <1>1, <1>2 DEF Source, SourceRow
  <1>4. Published(y)
    BY <1>2, <1>3 DEF Published
  <1>5. ASSUME NEW x \in SourceRow, x.kind = "portfolio_snapshot", x.at <= at, Published(x)
        PROVE  NotAfter(x, y)
    <2>1. x.at \in Cutoff /\ x.place \in 1..revision[x.at]
      BY <1>5 DEF SourceRow, Published
    <2>a. revision[x.at] \in Nat
      BY <2>1 DEF BookTyped
    <2>b. revision[x.at] > 0
      BY <2>1, <2>a
    <2>2. x.at \in known /\ x.at \in Nat
      BY <1>5, <2>1, <2>b, CutoffAssumption
    <2>3. x.at <= t
      BY <1>1, <2>2
    <2> QED
      BY <1>2, <1>3, <1>5, <2>1, <2>a, <2>2, <2>3 DEF NotAfter, Rank
  <1>6. ASSUME NEW z \in SnapshotSources(at) PROVE z = y
    <2>1. PICK u \in known : /\ \A v \in known : v <= u
                             /\ z = Source("portfolio_snapshot", u, revision[u])
      BY <1>6 DEF SnapshotSources
    <2>2. u = t
      BY <1>1, <1>2, <2>1, CutoffAssumption
    <2> QED
      BY <1>1, <2>1, <2>2
  <1> QED
    BY <1>2, <1>3, <1>4, <1>5, <1>6 DEF Newest

LEMMA EvaluationReading ==
    ASSUME BookTyped, NEW at \in Cutoff, NEW needsRisk \in BOOLEAN, NEW i \in Evaluation(at),
           NEW y \in EvaluationSources(i, needsRisk)
    PROVE  /\ y \in SourceRow /\ y.kind = "risk_evaluation" /\ y.at <= at /\ Published(y)
           /\ Newest(y, "risk_evaluation", at)
           /\ \A z \in EvaluationSources(i, needsRisk) : z = y
  <1>1. y = Source("risk_evaluation", evaluations[i].at, i)
    BY DEF EvaluationSources
  <1> DEFINE Row == [at : Cutoff, created : Cutoff, risk : BOOLEAN]
  <1>2. evaluations \in Seq(Row)
    BY DEF BookTyped
  <1>3. \A k \in DOMAIN evaluations : k \in Nat \ {0} /\ evaluations[k] \in Row
    <2> HIDE DEF Row
    <2> QED
      BY <1>2
  <1>4. \A k \in DOMAIN evaluations : k \in Nat /\ evaluations[k].at \in Cutoff
    BY <1>3
  <1>5. /\ i \in DOMAIN evaluations /\ evaluations[i].at <= at
        /\ \A k \in DOMAIN evaluations : evaluations[k].at <= at =>
             \/ evaluations[k].at < evaluations[i].at
             \/ /\ evaluations[k].at = evaluations[i].at
                /\ evaluations[k].created <= evaluations[i].created
    BY DEF Evaluation
  <1>6. y.kind = "risk_evaluation" /\ y.at = evaluations[i].at /\ y.place = i /\ y \in SourceRow
    BY <1>1, <1>4, <1>5 DEF Source, SourceRow
  <1>7. Published(y)
    BY <1>5, <1>6 DEF Published
  <1>8. ASSUME NEW x \in SourceRow, x.kind = "risk_evaluation", x.at <= at, Published(x)
        PROVE  NotAfter(x, y)
    <2>1. x.place \in DOMAIN evaluations /\ evaluations[x.place].at = x.at
      BY <1>8 DEF Published
    <2> QED
      BY <1>5, <1>6, <1>8, <2>1 DEF NotAfter, Rank
  <1>9. \A z \in EvaluationSources(i, needsRisk) : z = y
    BY <1>1 DEF EvaluationSources
  <1> QED
    BY <1>5, <1>6, <1>7, <1>8, <1>9 DEF Newest

LEMMA ValuationReading ==
    ASSUME BookTyped, NEW at \in Cutoff, valuation[at].state # "MISSING",
           NEW y \in ValuationSources(at)
    PROVE  /\ y \in SourceRow /\ y.kind = "portfolio_reconstruction" /\ y.at <= at /\ Published(y)
           /\ Newest(y, "portfolio_reconstruction", at)
           /\ \A z \in ValuationSources(at) : z = y
  <1>1. y = Source("portfolio_reconstruction", at, valuation[at].version)
    BY DEF ValuationSources
  <1>2. at \in Nat /\ valuation[at].version \in Nat /\ valuation[at].version > 0
    BY CutoffAssumption DEF BookTyped
  <1>3. y.kind = "portfolio_reconstruction" /\ y.at = at /\ y.place = valuation[at].version
        /\ y \in SourceRow
    BY <1>1, <1>2 DEF Source, SourceRow
  <1>4. Published(y)
    BY <1>2, <1>3 DEF Published
  <1>5. ASSUME NEW x \in SourceRow, x.kind = "portfolio_reconstruction", x.at <= at, Published(x)
        PROVE  NotAfter(x, y)
    <2>1. x.at \in Cutoff /\ x.at \in Nat /\ x.place \in 1..valuation[x.at].version
      BY <1>5, CutoffAssumption DEF SourceRow, Published
    <2>2. valuation[x.at].version \in Nat
      BY <2>1 DEF BookTyped
    <2> QED
      BY <1>2, <1>3, <1>5, <2>1, <2>2 DEF NotAfter, Rank
  <1> QED
    BY <1>2, <1>3, <1>4, <1>5 DEF Newest, ValuationSources

\* What a tool answers: a success has sources and they are its newest
\* readings, and whatever else it answers has none.
LEMMA OutcomeReading ==
    ASSUME BookTyped, NEW c \in ToolCall, NEW outcome \in Outcomes(c)
    PROVE  /\ outcome.status \in {"SUCCEEDED", "UNAVAILABLE", "INVALID", "RAISES"}
           /\ outcome.status = "SUCCEEDED" <=> outcome.sources # {}
           /\ IsFiniteSet(outcome.sources)
           /\ \A y \in outcome.sources :
                Reading(y, c.tool, c.at) /\ Newest(y, KindOf(c.tool), c.at)
  <1> DEFINE Right(o) ==
               /\ o.status \in {"SUCCEEDED", "UNAVAILABLE", "INVALID", "RAISES"}
               /\ o.status = "SUCCEEDED" <=> o.sources # {}
               /\ IsFiniteSet(o.sources)
               /\ \A y \in o.sources :
                    Reading(y, c.tool, c.at) /\ Newest(y, KindOf(c.tool), c.at)
  <1> SUFFICES Right(outcome)
    OBVIOUS
  <1>1. c.at \in Cutoff /\ c.tool \in Tool \cup {"unknown"}
    BY DEF ToolCall
  <1>2. ASSUME NEW status \in {"UNAVAILABLE", "INVALID", "RAISES"} PROVE Right(Fails(status))
    BY <1>2, FS_EmptySet DEF Fails
  <1>3. ASSUME NEW sources, \A x, y \in sources : x = y,
               \A y \in sources : Reading(y, c.tool, c.at) /\ Newest(y, KindOf(c.tool), c.at)
        PROVE  Right(Evidence(sources))
    <2>1. IsFiniteSet(sources)
      BY <1>3, AtMostOneIsFinite
    <2> QED
      BY <1>3, <2>1 DEF Evidence
  <1>4. CASE c.tool = "unknown" \/ c.args = "BAD"
    <2>1. outcome = Fails("INVALID")
      BY <1>4 DEF Outcomes
    <2> QED
      BY <1>2, <2>1
  <1>5. CASE ~ (c.tool = "unknown" \/ c.args = "BAD") /\ c.tool \in {"get_holdings", "get_portfolio_snapshot"}
    <2>1. outcome = Evidence(SnapshotSources(c.at))
      BY <1>5 DEF Outcomes, Dispatch
    <2>2. KindOf(c.tool) = "portfolio_snapshot"
      BY <1>5 DEF KindOf
    <2> HIDE DEF Right
    <2> QED
      BY <1>1, <1>3, <2>1, <2>2, SnapshotReading DEF Reading
  <1>6. ASSUME NEW needsRisk \in BOOLEAN, KindOf(c.tool) = "risk_evaluation", outcome \in Evaluated(c.at, needsRisk)
        PROVE  Right(outcome)
    <2>1. CASE Evaluation(c.at) = {}
      <3>1. outcome = Fails("UNAVAILABLE")
        BY <1>6, <2>1 DEF Evaluated
      <3> QED
        BY <1>2, <3>1
    <2>2. CASE Evaluation(c.at) # {}
      <3>1. PICK i \in Evaluation(c.at) : outcome = Evidence(EvaluationSources(i, needsRisk))
        BY <1>6, <2>2 DEF Evaluated
      <3>2. ASSUME NEW y \in EvaluationSources(i, needsRisk)
            PROVE  /\ Reading(y, c.tool, c.at) /\ Newest(y, KindOf(c.tool), c.at)
                   /\ \A z \in EvaluationSources(i, needsRisk) : z = y
        BY <1>1, <1>6, EvaluationReading DEF Reading
      <3> HIDE DEF Right
      <3> QED
        BY <1>3, <3>1, <3>2
    <2> QED
      BY <2>1, <2>2
  <1>7. CASE ~ (c.tool = "unknown" \/ c.args = "BAD") /\ c.tool = "get_risk"
    <2>1. outcome \in Evaluated(c.at, TRUE)
      BY <1>7 DEF Outcomes, Dispatch
    <2> QED
      BY <1>6, <1>7, <2>1 DEF KindOf
  <1>8. CASE ~ (c.tool = "unknown" \/ c.args = "BAD") /\ c.tool = "get_policy_breaches"
    <2>1. outcome \in Evaluated(c.at, FALSE)
      BY <1>8 DEF Outcomes, Dispatch
    <2> QED
      BY <1>6, <1>8, <2>1 DEF KindOf
  <1>9. CASE ~ (c.tool = "unknown" \/ c.args = "BAD") /\ c.tool \in {"get_exposure", "run_scenario"}
    <2>1. outcome = IF c.args = "HUGE" THEN Fails("RAISES") ELSE Valued(c)
      BY <1>9 DEF Outcomes, Dispatch
    <2>2. KindOf(c.tool) = "portfolio_reconstruction"
      BY <1>9 DEF KindOf
    <2>3. valuation[c.at].state \in ValuationState
      BY <1>1 DEF BookTyped
    <2>4. CASE c.args = "HUGE"
      <3>1. outcome = Fails("RAISES")
        BY <2>1, <2>4
      <3> QED
        BY <1>2, <3>1
    <2>5. CASE c.args # "HUGE" /\ valuation[c.at].state = "MISSING"
      <3>1. outcome = Fails("UNAVAILABLE")
        BY <2>1, <2>5 DEF Valued
      <3> QED
        BY <1>2, <3>1
    <2>6. CASE c.args # "HUGE" /\ valuation[c.at].state = "EMPTY"
      <3>1. outcome = Fails("RAISES") \/ outcome = Fails("INVALID")
        BY <2>1, <2>6 DEF Valued
      <3> QED
        BY <1>2, <3>1
    <2>7. CASE c.args # "HUGE" /\ valuation[c.at].state = "VALUED"
      <3>1. outcome = Evidence(ValuationSources(c.at))
        BY <2>1, <2>7 DEF Valued
      <3>2. valuation[c.at].state # "MISSING"
        BY <2>7
      <3> HIDE DEF Right
      <3> QED
        BY <1>1, <1>3, <2>2, <3>1, <3>2, ValuationReading DEF Reading
    <2> QED
      BY <2>3, <2>4, <2>5, <2>6, <2>7 DEF ValuationState
  <1> QED
    BY <1>1, <1>4, <1>5, <1>7, <1>8, <1>9 DEF Tool

-----------------------------------------------------------------------------
(* The inductive invariant.                                                *)

SoundCall(r) ==
    /\ r.status = "SUCCEEDED" <=> r.sources # {}
    /\ \A x \in r.sources : Reading(x, r.tool, r.at)

Advancing(calls) ==
    \A i, j \in DOMAIN calls :
        i < j /\ calls[i].at = calls[j].at /\ calls[i].tool = calls[j].tool =>
            \A x \in calls[i].sources, y \in calls[j].sources : NotAfter(x, y)

\* The answer of a conversation follows from its calls.
Answered(c) ==
    /\ c.status # "ACTIVE" => c.citations = SourcesOf(c.calls)
    /\ c.status = "COMPLETED" <=> c.message = "ASSISTANT"
    /\ c.status = "COMPLETED" => c.text /\ SourcesOf(c.calls) # {}
    /\ c.status = "REFUSED" => ~ c.text \/ SourcesOf(c.calls) = {}
    /\ c.status = "ACTIVE" <=> c.message = "NONE"
    /\ c.status = "ACTIVE" => c.citations = {}

\* What holds of every conversation, committed or not.
Sound(c) ==
    /\ Len(c.calls) <= MaxCalls
    /\ IsFiniteSet(SourcesOf(c.calls))
    /\ Answered(c)
    /\ Advancing(c.calls)
    /\ \A i \in DOMAIN c.calls : SoundCall(c.calls[i])

\* The audit events A are those of the conversations C.
Trail(C, A) ==
    /\ \A c \in C : \E a \in A : a.id = c.id /\ a.action = "AI_CONVERSATION_STARTED"
    /\ \A c \in C : c.status # "ACTIVE" =>
         \E a \in A : /\ a.id = c.id /\ a.action = "AI_CONVERSATION_COMPLETED"
                      /\ a.status = c.status /\ a.calls = Len(c.calls)
                      /\ a.sources = Cardinality(c.citations)
    /\ \A a \in A : \E c \in C :
         c.id = a.id /\ (a.action = "AI_CONVERSATION_COMPLETED" => c.status # "ACTIVE")

NoRepeat(c) == \A i, j \in DOMAIN c.calls : c.calls[i].id = c.calls[j].id => i = j

WorkType == [Session -> [conversations : SUBSET ConversationRow, audits : SUBSET AuditRow]]

OpenCall ==
    [step : {"REPLY", "AUTHORIZE", "READ"}, id : Nat, rounds : 0..MaxRounds, pending : Seq(ToolCall)]

Typed ==
    /\ permitted \subseteq Actor
    /\ BookTyped
    /\ published \in Nat /\ asked \in Nat
    /\ conversations \subseteq ConversationRow /\ audits \subseteq AuditRow
    /\ work \in WorkType
    /\ call \in [Session -> OpenCall \cup {NoCall}]

\* An id is of one conversation, in one session or committed.
IdsApart ==
    /\ \A c \in conversations : c.id \in 1..asked
    /\ \A c, d \in conversations : c.id = d.id => c = d
    /\ \A s \in Session : \A c \in work[s].conversations :
         /\ c.id \in 1..asked
         /\ \A d \in work[s].conversations : c.id = d.id => c = d
         /\ \A d \in conversations : c.id # d.id
         /\ \A r \in Session \ {s} : \A d \in work[r].conversations : c.id # d.id

\* A call of ask is about a conversation of its session that is not over,
\* and reads for a call that it has room for.
CallsOpen ==
    \A s \in Session : ~ Idle(s) =>
        \E c \in work[s].conversations :
            /\ c.id = call[s].id /\ c.status = "ACTIVE"
            /\ call[s].step = "READ" => call[s].pending # <<>> /\ Len(c.calls) < MaxCalls

RowsSound ==
    /\ \A c \in conversations : Sound(c)
    /\ \A s \in Session : \A c \in work[s].conversations : Sound(c)

Trails ==
    /\ Trail(conversations, audits)
    /\ \A s \in Session : Trail(work[s].conversations, work[s].audits)

CallsDistinct == \A c \in conversations : NoRepeat(c)

IInv == Typed /\ IdsApart /\ CallsOpen /\ RowsSound /\ Trails /\ CallsDistinct

LEMMA OwnIs ==
    ASSUME IInv, NEW s \in Session, ~ Idle(s)
    PROVE  /\ call[s] \in OpenCall
           /\ Own(s) \in work[s].conversations
           /\ Own(s).id = call[s].id /\ Own(s).status = "ACTIVE"
           /\ call[s].step = "READ" => call[s].pending # <<>> /\ Len(Own(s).calls) < MaxCalls
  <1>1. call[s] \in OpenCall
    BY DEF IInv, Typed, Idle, NoCall
  <1>2. PICK c \in work[s].conversations :
            /\ c.id = call[s].id /\ c.status = "ACTIVE"
            /\ call[s].step = "READ" => call[s].pending # <<>> /\ Len(c.calls) < MaxCalls
    BY DEF IInv, CallsOpen
  <1>3. \A d \in work[s].conversations : d.id = c.id => d = c
    BY DEF IInv, IdsApart
  <1>4. Own(s) = c
    BY <1>2, <1>3 DEF Own
  <1> QED
    BY <1>1, <1>2, <1>4

LEMMA SoundKept ==
    ASSUME NEW c, Sound(c), \A x \in SourceRow : Published(x) => Published(x)' /\ Rank(x)' = Rank(x)
    PROVE  Sound(c)'
  <1>1. ASSUME NEW r, SoundCall(r) PROVE SoundCall(r)'
    <2>1. ASSUME NEW x \in r.sources PROVE Reading(x, r.tool, r.at)'
      <3>1. Reading(x, r.tool, r.at)
        BY <1>1, <2>1 DEF SoundCall
      <3>2. x \in SourceRow /\ Published(x)'
        BY <3>1 DEF Reading
      <3> QED
        BY <3>1, <3>2 DEF Reading
    <2> QED
      BY <1>1, <2>1 DEF SoundCall
  <1>2. \A i \in DOMAIN c.calls : \A x \in c.calls[i].sources : Rank(x)' = Rank(x)
    BY DEF Sound, SoundCall, Reading
  <1>3. Advancing(c.calls)'
    BY <1>2 DEF Sound, Advancing, NotAfter
  <1> QED
    BY <1>1, <1>3 DEF Sound

-----------------------------------------------------------------------------
(* Steps that change calls, or what is published, and no rows.             *)

LEMMA CallStep ==
    ASSUME IInv, UNCHANGED <<permitted, book, stored, asked, work>>,
           call' \in [Session -> OpenCall \cup {NoCall}], CallsOpen'
    PROVE  IInv'
  <1>1. /\ revision' = revision /\ evaluations' = evaluations /\ valuation' = valuation
        /\ published' = published /\ conversations' = conversations /\ audits' = audits
        /\ asked' = asked /\ work' = work /\ permitted' = permitted
    BY DEF book, stored
  <1>2. Typed'
    BY <1>1 DEF IInv, Typed, BookTyped
  <1>3. IdsApart' /\ Trails' /\ CallsDistinct'
    BY <1>1 DEF IInv, IdsApart, Trails, CallsDistinct
  <1>4. \A x \in SourceRow : Published(x) => Published(x)' /\ Rank(x)' = Rank(x)
    BY <1>1 DEF Published, Rank
  <1>5. RowsSound'
    <2>1. \A c \in conversations : Sound(c)'
      BY <1>4, SoundKept DEF IInv, RowsSound
    <2>2. \A s \in Session : \A c \in work[s].conversations : Sound(c)'
      BY <1>4, SoundKept DEF IInv, RowsSound
    <2> QED
      BY <1>1, <2>1, <2>2 DEF RowsSound
  <1> QED
    BY <1>2, <1>3, <1>5 DEF IInv

LEMMA BookStep ==
    ASSUME IInv, UNCHANGED <<stored, asked, work, call>>, permitted' \subseteq Actor,
           BookTyped', published' \in Nat,
           \A x \in SourceRow : Published(x) => Published(x)' /\ Rank(x)' = Rank(x)
    PROVE  IInv'
  <1>1. /\ conversations' = conversations /\ audits' = audits
        /\ asked' = asked /\ work' = work /\ call' = call
    BY DEF stored
  <1>2. Typed'
    BY <1>1 DEF IInv, Typed
  <1>3. IdsApart' /\ Trails' /\ CallsDistinct'
    BY <1>1 DEF IInv, IdsApart, Trails, CallsDistinct
  <1>4. CallsOpen'
    BY <1>1 DEF IInv, CallsOpen, Idle
  <1>5. RowsSound'
    <2>1. \A c \in conversations : Sound(c)'
      BY SoundKept DEF IInv, RowsSound
    <2>2. \A s \in Session : \A c \in work[s].conversations : Sound(c)'
      BY SoundKept DEF IInv, RowsSound
    <2> QED
      BY <1>1, <2>1, <2>2 DEF RowsSound
  <1> QED
    BY <1>2, <1>3, <1>4, <1>5 DEF IInv

\* An error leaves the call, and the rows stay.
LEMMA RaiseStep ==
    ASSUME IInv, NEW s \in Session, Raise(s)
    PROVE  IInv'
  <1>1. UNCHANGED <<permitted, book, stored, asked, work>>
    BY DEF Raise
  <1>2. call' = [call EXCEPT ![s] = NoCall]
    BY DEF Raise
  <1>3. call' \in [Session -> OpenCall \cup {NoCall}]
    BY <1>2 DEF IInv, Typed
  <1>4. \A r \in Session : call'[r] = IF r = s THEN NoCall ELSE call[r]
    BY <1>2 DEF IInv, Typed
  <1>5. CallsOpen'
    BY <1>1, <1>4 DEF IInv, CallsOpen, Idle, NoCall
  <1> QED
    BY <1>1, <1>3, <1>5, CallStep

LEMMA CallToolsStep ==
    ASSUME IInv, NEW s \in Session, NEW turn \in Turn, CallTools(s, turn)
    PROVE  IInv'
  <1>1. UNCHANGED <<permitted, book, stored, asked, work>>
    BY DEF CallTools
  <1>2. call[s].step = "REPLY" /\ call[s].rounds < MaxRounds
    BY DEF CallTools
  <1>3. ~ Idle(s)
    BY <1>2 DEF Idle
  <1>4. call[s] \in OpenCall
    BY <1>3, OwnIs
  <1>5. turn.calls \in Seq(ToolCall)
    BY TurnAssumption DEF TurnFields
  <1>6. \A r \in Session : r # s => call'[r] = call[r]
    BY DEF CallTools, IInv, Typed
  <1>7. /\ call'[s].step = "AUTHORIZE" /\ call'[s].id = call[s].id
        /\ call'[s] \in OpenCall
    <2>1. call'[s] = [call[s] EXCEPT !.step = "AUTHORIZE", !.rounds = @ + 1, !.pending = turn.calls]
      BY DEF CallTools, IInv, Typed
    <2>2. call[s].rounds + 1 \in 0..MaxRounds
      BY <1>2, <1>4, LimitAssumption DEF OpenCall
    <2> QED
      BY <1>4, <1>5, <2>1, <2>2 DEF OpenCall
  <1>8. call' \in [Session -> OpenCall \cup {NoCall}]
    BY <1>7 DEF CallTools, IInv, Typed
  <1>9. CallsOpen'
    BY <1>1, <1>3, <1>6, <1>7 DEF IInv, CallsOpen, Idle
  <1> QED
    BY <1>1, <1>8, <1>9, CallStep

LEMMA AuthorizeStep ==
    ASSUME IInv, NEW s \in Session, Authorize(s)
    PROVE  IInv'
  <1>1. UNCHANGED <<permitted, book, stored, asked, work>>
    BY DEF Authorize
  <1>2. call[s].step = "AUTHORIZE" /\ call[s].pending # <<>> /\ ~ Len(Own(s).calls) >= MaxCalls
    BY DEF Authorize, AtCall, OverCallLimit
  <1>3. ~ Idle(s)
    BY <1>2 DEF Idle
  <1>4. /\ call[s] \in OpenCall /\ Own(s) \in work[s].conversations
        /\ Own(s).id = call[s].id /\ Own(s).status = "ACTIVE"
    BY <1>3, OwnIs
  <1>5. Len(Own(s).calls) < MaxCalls
    <2>1. Own(s).calls \in Seq(CallRow)
      BY <1>4 DEF IInv, Typed, WorkType, ConversationRow
    <2>2. Len(Own(s).calls) \in Nat
      BY <2>1
    <2> QED
      BY <1>2, <2>2, LimitAssumption
  <1>6. \A r \in Session : r # s => call'[r] = call[r]
    BY DEF Authorize, IInv, Typed
  <1>7. call'[s] = [call[s] EXCEPT !.step = "READ"]
    BY DEF Authorize, IInv, Typed
  <1>8. /\ call'[s].step = "READ" /\ call'[s].id = call[s].id /\ call'[s].pending = call[s].pending
        /\ call'[s] \in OpenCall
    BY <1>4, <1>7 DEF OpenCall
  <1>9. call' \in [Session -> OpenCall \cup {NoCall}]
    BY <1>8 DEF Authorize, IInv, Typed
  <1>10. CallsOpen'
    <2>1. ASSUME NEW r \in Session, r # s, ~ Idle(r)'
          PROVE  \E c \in work'[r].conversations :
                    /\ c.id = call'[r].id /\ c.status = "ACTIVE"
                    /\ call'[r].step = "READ" => call'[r].pending # <<>> /\ Len(c.calls) < MaxCalls
      BY <1>1, <1>6, <2>1 DEF IInv, CallsOpen, Idle
    <2>2. \E c \in work'[s].conversations :
             /\ c.id = call'[s].id /\ c.status = "ACTIVE"
             /\ call'[s].step = "READ" => call'[s].pending # <<>> /\ Len(c.calls) < MaxCalls
      BY <1>1, <1>2, <1>4, <1>5, <1>8
    <2> QED
      BY <2>1, <2>2 DEF CallsOpen
  <1> QED
    BY <1>1, <1>9, <1>10, CallStep

LEMMA FlushStep ==
    ASSUME IInv, NEW s \in Session, Flush(s)
    PROVE  IInv'
  <1>1. UNCHANGED <<permitted, book, stored, asked, work>>
    BY DEF Flush
  <1>2. ~ Idle(s)
    BY DEF Flush, TurnDone, Idle
  <1>3. call[s] \in OpenCall
    BY <1>2, OwnIs
  <1>4. \A r \in Session : r # s => call'[r] = call[r]
    BY DEF Flush, IInv, Typed
  <1>5. call'[s] = [call[s] EXCEPT !.step = "REPLY"]
    BY DEF Flush, IInv, Typed
  <1>6. call'[s].step = "REPLY" /\ call'[s].id = call[s].id /\ call'[s] \in OpenCall
    BY <1>3, <1>5 DEF OpenCall
  <1>7. call' \in [Session -> OpenCall \cup {NoCall}]
    BY <1>6 DEF Flush, IInv, Typed
  <1>8. CallsOpen'
    BY <1>1, <1>2, <1>4, <1>6 DEF IInv, CallsOpen, Idle
  <1> QED
    BY <1>1, <1>7, <1>8, CallStep

LEMMA OthersStep ==
    ASSUME IInv, Others
    PROVE  IInv'
  <1>1. ASSUME NEW t \in Cutoff, PublishSnapshot(t) PROVE IInv'
    <2>1. UNCHANGED <<stored, asked, work, call, permitted, evaluations, valuation>> /\ published' \in Nat
      BY <1>1 DEF PublishSnapshot, Publishing, IInv, Typed
    <2>2. revision' = [revision EXCEPT ![t] = @ + 1] /\ revision \in [Cutoff -> Nat]
      BY <1>1 DEF PublishSnapshot, IInv, Typed, BookTyped
    <2>3. BookTyped'
      BY <2>1, <2>2 DEF IInv, Typed, BookTyped
    <2>4. ASSUME NEW x \in SourceRow, Published(x) PROVE Published(x)' /\ Rank(x)' = Rank(x)
      <3>1. /\ x.at \in Cutoff /\ x.place \in Nat
            /\ x.kind \in {"portfolio_snapshot", "risk_evaluation", "portfolio_reconstruction"}
        BY <2>4 DEF SourceRow
      <3>2. revision[x.at] \in Nat /\ revision'[x.at] \in Nat /\ revision'[x.at] >= revision[x.at]
        BY <2>2, <3>1
      <3>3. CASE x.kind = "portfolio_snapshot"
        <4>1. x.place \in 1..revision[x.at]
          BY <2>4, <3>3 DEF Published
        <4>2. x.place \in 1..revision'[x.at]
          BY <3>2, <4>1
        <4> QED
          BY <3>3, <4>2 DEF Published, Rank
      <3>4. CASE x.kind # "portfolio_snapshot"
        BY <2>1, <2>4, <3>1, <3>4 DEF Published, Rank
      <3> QED
        BY <3>3, <3>4
    <2> QED
      BY <2>1, <2>3, <2>4, BookStep DEF IInv, Typed
  <1>2. ASSUME NEW t \in Cutoff, NEW created \in Cutoff, NEW risk \in BOOLEAN, PublishEvaluation(t, created, risk) PROVE IInv'
    <2>1. UNCHANGED <<stored, asked, work, call, permitted, revision, valuation>> /\ published' \in Nat
      BY <1>2 DEF PublishEvaluation, Publishing, IInv, Typed
    <2> DEFINE Row == [at : Cutoff, created : Cutoff, risk : BOOLEAN]
    <2> DEFINE new == [at |-> t, created |-> created, risk |-> risk]
    <2>2. evaluations' = Append(evaluations, new) /\ evaluations \in Seq(Row) /\ new \in Row
      BY <1>2 DEF PublishEvaluation, IInv, Typed, BookTyped
    <2>3. /\ evaluations' \in Seq(Row)
          /\ \A i \in DOMAIN evaluations : i \in DOMAIN evaluations' /\ evaluations'[i] = evaluations[i]
      <3> HIDE DEF Row, new
      <3> QED
        BY <2>2
    <2>4. BookTyped'
      BY <2>1, <2>3 DEF IInv, Typed, BookTyped
    <2>5. ASSUME NEW x \in SourceRow, Published(x) PROVE Published(x)' /\ Rank(x)' = Rank(x)
      <3>1. x.kind \in {"portfolio_snapshot", "risk_evaluation", "portfolio_reconstruction"}
        BY <2>5 DEF SourceRow
      <3>2. CASE x.kind = "risk_evaluation"
        BY <2>3, <2>5, <3>2 DEF Published, Rank
      <3>3. CASE x.kind # "risk_evaluation"
        BY <2>1, <2>5, <3>1, <3>3 DEF Published, Rank
      <3> QED
        BY <3>2, <3>3
    <2> QED
      BY <2>1, <2>4, <2>5, BookStep DEF IInv, Typed
  <1>3. ASSUME NEW t \in Cutoff, NEW state \in ValuationState, ChangeValuation(t, state) PROVE IInv'
    <2>1. UNCHANGED <<stored, asked, work, call, permitted, revision, evaluations>> /\ published' \in Nat
      BY <1>3 DEF ChangeValuation, Publishing, IInv, Typed
    <2>2. /\ valuation' = [valuation EXCEPT ![t] = [state |-> state, version |-> @.version + 1]]
          /\ valuation \in [Cutoff -> [state : ValuationState, version : Nat]]
      BY <1>3 DEF ChangeValuation, IInv, Typed, BookTyped
    <2>3. /\ valuation' \in [Cutoff -> [state : ValuationState, version : Nat]]
          /\ valuation'[t].version = valuation[t].version + 1 /\ valuation[t].version \in Nat
          /\ \A u \in Cutoff : u # t => valuation'[u] = valuation[u]
      BY <2>2
    <2>a. \A u \in Cutoff : valuation'[u].state # "MISSING" => valuation'[u].version > 0
      <3>1. \A u \in Cutoff : valuation[u].state # "MISSING" => valuation[u].version > 0
        BY DEF IInv, Typed, BookTyped
      <3> QED
        BY <2>3, <3>1
    <2>4. BookTyped'
      BY <2>1, <2>3, <2>a DEF IInv, Typed, BookTyped
    <2>5. ASSUME NEW x \in SourceRow, Published(x) PROVE Published(x)' /\ Rank(x)' = Rank(x)
      <3>1. /\ x.at \in Cutoff /\ x.place \in Nat
            /\ x.kind \in {"portfolio_snapshot", "risk_evaluation", "portfolio_reconstruction"}
        BY <2>5 DEF SourceRow
      <3>2. /\ valuation[x.at].version \in Nat /\ valuation'[x.at].version \in Nat
            /\ valuation'[x.at].version >= valuation[x.at].version
        BY <2>2, <2>3, <3>1
      <3>3. CASE x.kind = "portfolio_reconstruction"
        <4>1. x.place \in 1..valuation[x.at].version
          BY <2>5, <3>3 DEF Published
        <4>2. x.place \in 1..valuation'[x.at].version
          BY <3>2, <4>1
        <4> QED
          BY <3>3, <4>2 DEF Published, Rank
      <3>4. CASE x.kind # "portfolio_reconstruction"
        BY <2>1, <2>5, <3>1, <3>4 DEF Published, Rank
      <3> QED
        BY <3>3, <3>4
    <2> QED
      BY <2>1, <2>4, <2>5, BookStep DEF IInv, Typed
  <1>4. ASSUME NEW a \in Actor, ChangeRoles(a) PROVE IInv'
    <2>1. UNCHANGED <<stored, asked, work, call>> /\ UNCHANGED <<revision, evaluations, valuation, published>>
      BY <1>4 DEF ChangeRoles, book
    <2>2. permitted' \subseteq Actor
      BY <1>4 DEF ChangeRoles, IInv, Typed
    <2>3. BookTyped' /\ published' \in Nat
      BY <2>1 DEF IInv, Typed, BookTyped
    <2>4. \A x \in SourceRow : Published(x) => Published(x)' /\ Rank(x)' = Rank(x)
      BY <2>1 DEF Published, Rank
    <2> QED
      BY <2>1, <2>2, <2>3, <2>4, BookStep
  <1> QED
    BY <1>1, <1>2, <1>3, <1>4 DEF Others

-----------------------------------------------------------------------------
(* Steps that write rows.                                                  *)

\* Session s has the conversations X and the audits Y after the step.
Written(s, X, Y) ==
    /\ work' \in WorkType
    /\ work'[s].conversations = X /\ work'[s].audits = Y
    /\ \A r \in Session \ {s} : work'[r] = work[r]

LEMMA WorkWritten ==
    ASSUME work \in WorkType, NEW s \in Session,
           NEW X \in SUBSET ConversationRow, NEW Y \in SUBSET AuditRow,
           work' = [work EXCEPT ![s].conversations = X, ![s].audits = Y]
    PROVE  Written(s, X, Y)
  BY DEF WorkType, Written

LEMMA ConversationsWritten ==
    ASSUME work \in WorkType, NEW s \in Session, NEW X \in SUBSET ConversationRow,
           work' = [work EXCEPT ![s].conversations = X]
    PROVE  Written(s, X, work[s].audits)
  BY DEF WorkType, Written

\* A conversation o of session s becomes d, which B are the audits of.
LEMMA EditStep ==
    ASSUME IInv, NEW s \in Session, UNCHANGED <<permitted, book, stored, asked>>,
           NEW o \in work[s].conversations, o.status = "ACTIVE",
           NEW d \in ConversationRow, d.id = o.id, Sound(d),
           NEW B \in SUBSET AuditRow,
           \A a \in B : a.id = d.id /\ d.status # "ACTIVE",
           d.status # "ACTIVE" =>
             \E a \in B : /\ a.id = d.id /\ a.action = "AI_CONVERSATION_COMPLETED"
                          /\ a.status = d.status /\ a.calls = Len(d.calls)
                          /\ a.sources = Cardinality(d.citations),
           Written(s, (work[s].conversations \ {o}) \cup {d}, work[s].audits \cup B),
           call' \in [Session -> OpenCall \cup {NoCall}],
           \A r \in Session \ {s} : call'[r] = call[r],
           ~ Idle(s)' => /\ d.id = call'[s].id /\ d.status = "ACTIVE"
                         /\ call'[s].step # "READ"
    PROVE  IInv'
  <1> DEFINE X == (work[s].conversations \ {o}) \cup {d}
  <1>1. /\ revision' = revision /\ evaluations' = evaluations /\ valuation' = valuation
        /\ published' = published /\ conversations' = conversations /\ audits' = audits
        /\ asked' = asked /\ permitted' = permitted
    BY DEF book, stored
  <1>2. /\ work' \in WorkType /\ work'[s].conversations = X
        /\ work'[s].audits = work[s].audits \cup B
        /\ \A r \in Session \ {s} : work'[r] = work[r]
    BY DEF Written
  <1>3. Typed'
    BY <1>1, <1>2 DEF IInv, Typed, BookTyped
  <1>4. \A x \in SourceRow : Published(x) => Published(x)' /\ Rank(x)' = Rank(x)
    BY <1>1 DEF Published, Rank
  <1>5. RowsSound'
    <2>1. \A c \in conversations : Sound(c)'
      BY <1>4, SoundKept DEF IInv, RowsSound
    <2>2. \A r \in Session : \A c \in work[r].conversations : Sound(c)'
      BY <1>4, SoundKept DEF IInv, RowsSound
    <2>3. Sound(d)'
      BY <1>4, SoundKept
    <2> QED
      BY <1>1, <1>2, <2>1, <2>2, <2>3 DEF RowsSound
  <1>6. \A r \in Session : \A c \in work'[r].conversations :
           \E e \in work[r].conversations : e.id = c.id
    BY <1>2
  <1>7. IdsApart'
    <2>1. \A c \in X : c.id \in 1..asked /\ \A e \in X : c.id = e.id => c = e
      BY DEF IInv, IdsApart
    <2>2. ASSUME NEW r \in Session, NEW c \in work'[r].conversations
          PROVE  c.id \in 1..asked /\ \A e \in work'[r].conversations : c.id = e.id => c = e
      BY <1>2, <2>1 DEF IInv, IdsApart
    <2>3. ASSUME NEW r \in Session, NEW c \in work'[r].conversations, NEW e \in conversations
          PROVE  c.id # e.id
      BY <1>6 DEF IInv, IdsApart
    <2>4. ASSUME NEW r \in Session, NEW c \in work'[r].conversations,
                 NEW q \in Session \ {r}, NEW e \in work'[q].conversations
          PROVE  c.id # e.id
      BY <1>6 DEF IInv, IdsApart
    <2> QED
      BY <1>1, <2>2, <2>3, <2>4 DEF IInv, IdsApart
  <1>8. CallsOpen'
    <2>1. ASSUME NEW r \in Session \ {s}, ~ Idle(r)'
          PROVE  \E c \in work'[r].conversations :
                    /\ c.id = call'[r].id /\ c.status = "ACTIVE"
                    /\ call'[r].step = "READ" => call'[r].pending # <<>> /\ Len(c.calls) < MaxCalls
      BY <1>2, <2>1 DEF IInv, CallsOpen, Idle
    <2>2. ASSUME ~ Idle(s)'
          PROVE  \E c \in work'[s].conversations :
                    /\ c.id = call'[s].id /\ c.status = "ACTIVE"
                    /\ call'[s].step = "READ" => call'[s].pending # <<>> /\ Len(c.calls) < MaxCalls
      BY <1>2, <2>2
    <2> QED
      BY <2>1, <2>2 DEF CallsOpen
  <1>9. Trail(X, work[s].audits \cup B)
    <2>1. Trail(work[s].conversations, work[s].audits)
      BY DEF IInv, Trails
    <2>2. ASSUME NEW c \in X
          PROVE  \E a \in work[s].audits \cup B : a.id = c.id /\ a.action = "AI_CONVERSATION_STARTED"
      BY <2>1 DEF Trail
    <2>3. ASSUME NEW c \in X, c.status # "ACTIVE"
          PROVE  \E a \in work[s].audits \cup B :
                    /\ a.id = c.id /\ a.action = "AI_CONVERSATION_COMPLETED"
                    /\ a.status = c.status /\ a.calls = Len(c.calls)
                    /\ a.sources = Cardinality(c.citations)
      BY <2>1, <2>3 DEF Trail
    <2>4. ASSUME NEW a \in work[s].audits \cup B
          PROVE  \E c \in X : c.id = a.id /\ (a.action = "AI_CONVERSATION_COMPLETED" => c.status # "ACTIVE")
      BY <2>1, <2>4 DEF Trail
    <2> QED
      BY <2>2, <2>3, <2>4 DEF Trail
  <1>10. Trails'
    <2>1. Trail(conversations, audits)'
      BY <1>1 DEF IInv, Trails
    <2>2. ASSUME NEW r \in Session PROVE Trail(work'[r].conversations, work'[r].audits)
      BY <1>2, <1>9 DEF IInv, Trails
    <2> QED
      BY <2>1, <2>2 DEF Trails
  <1>11. CallsDistinct'
    BY <1>1 DEF IInv, CallsDistinct
  <1> QED
    BY <1>3, <1>5, <1>7, <1>8, <1>10, <1>11 DEF IInv

LEMMA UndoStep ==
    ASSUME IInv, NEW s \in Session, Undo(s)
    PROVE  IInv'
  <1>1. UNCHANGED <<permitted, book, stored, asked>>
    BY DEF Undo
  <1>2. /\ revision' = revision /\ evaluations' = evaluations /\ valuation' = valuation
        /\ published' = published /\ conversations' = conversations /\ audits' = audits
        /\ asked' = asked /\ permitted' = permitted
    BY <1>1 DEF book, stored
  <1>3. /\ work' \in WorkType /\ work'[s].conversations = {} /\ work'[s].audits = {}
        /\ \A r \in Session \ {s} : work'[r] = work[r]
    BY DEF Undo, NoWork, IInv, Typed, WorkType
  <1>4. /\ call' \in [Session -> OpenCall \cup {NoCall}]
        /\ call'[s] = NoCall /\ \A r \in Session \ {s} : call'[r] = call[r]
    BY DEF Undo, IInv, Typed
  <1>5. Typed'
    BY <1>2, <1>3, <1>4 DEF IInv, Typed, BookTyped
  <1>6. \A x \in SourceRow : Published(x) => Published(x)' /\ Rank(x)' = Rank(x)
    BY <1>2 DEF Published, Rank
  <1>7. RowsSound'
    <2>1. \A c \in conversations : Sound(c)'
      BY <1>6, SoundKept DEF IInv, RowsSound
    <2>2. \A r \in Session : \A c \in work[r].conversations : Sound(c)'
      BY <1>6, SoundKept DEF IInv, RowsSound
    <2> QED
      BY <1>2, <1>3, <2>1, <2>2 DEF RowsSound
  <1>8. IdsApart'
    BY <1>2, <1>3 DEF IInv, IdsApart
  <1>9. CallsOpen'
    BY <1>3, <1>4 DEF IInv, CallsOpen, Idle, NoCall
  <1>10. Trails'
    <2>1. Trail(conversations, audits)'
      BY <1>2 DEF IInv, Trails
    <2>2. ASSUME NEW r \in Session PROVE Trail(work'[r].conversations, work'[r].audits)
      <3>1. CASE r = s
        BY <1>3, <3>1 DEF Trail
      <3>2. CASE r # s
        BY <1>3, <3>2 DEF IInv, Trails
      <3> QED
        BY <3>1, <3>2
    <2> QED
      BY <2>1, <2>2 DEF Trails
  <1>11. CallsDistinct'
    BY <1>2 DEF IInv, CallsDistinct
  <1> QED
    BY <1>5, <1>7, <1>8, <1>9, <1>10, <1>11 DEF IInv

LEMMA TrailUnion ==
    ASSUME NEW C, NEW D, NEW A, NEW B, Trail(C, A), Trail(D, B)
    PROVE  Trail(C \cup D, A \cup B)
  <1>1. ASSUME NEW c \in C \cup D
        PROVE  \E a \in A \cup B : a.id = c.id /\ a.action = "AI_CONVERSATION_STARTED"
    BY DEF Trail
  <1>2. ASSUME NEW c \in C \cup D, c.status # "ACTIVE"
        PROVE  \E a \in A \cup B :
                  /\ a.id = c.id /\ a.action = "AI_CONVERSATION_COMPLETED"
                  /\ a.status = c.status /\ a.calls = Len(c.calls)
                  /\ a.sources = Cardinality(c.citations)
    BY <1>2 DEF Trail
  <1>3. ASSUME NEW a \in A \cup B
        PROVE  \E c \in C \cup D : c.id = a.id /\ (a.action = "AI_CONVERSATION_COMPLETED" => c.status # "ACTIVE")
    BY DEF Trail
  <1> QED
    BY <1>1, <1>2, <1>3 DEF Trail

LEMMA CommitStep ==
    ASSUME IInv, NEW s \in Session, Commit(s)
    PROVE  IInv'
  <1>1. /\ revision' = revision /\ evaluations' = evaluations /\ valuation' = valuation
        /\ published' = published /\ asked' = asked /\ permitted' = permitted /\ call' = call
    BY DEF Commit, book
  <1>2. /\ conversations' = conversations \cup work[s].conversations
        /\ audits' = audits \cup work[s].audits
        /\ Idle(s)
    BY DEF Commit
  <1>3. /\ work' \in WorkType /\ work'[s].conversations = {} /\ work'[s].audits = {}
        /\ \A r \in Session \ {s} : work'[r] = work[r]
    BY DEF Commit, NoWork, IInv, Typed, WorkType
  <1>4. Typed'
    <2>1. work[s].conversations \subseteq ConversationRow /\ work[s].audits \subseteq AuditRow
      BY DEF IInv, Typed, WorkType
    <2> QED
      BY <1>1, <1>2, <1>3, <2>1 DEF IInv, Typed, BookTyped
  <1>5. \A x \in SourceRow : Published(x) => Published(x)' /\ Rank(x)' = Rank(x)
    BY <1>1 DEF Published, Rank
  <1>6. RowsSound'
    <2>1. \A c \in conversations : Sound(c)'
      BY <1>5, SoundKept DEF IInv, RowsSound
    <2>2. \A r \in Session : \A c \in work[r].conversations : Sound(c)'
      BY <1>5, SoundKept DEF IInv, RowsSound
    <2> QED
      BY <1>2, <1>3, <2>1, <2>2 DEF RowsSound
  <1>7. IdsApart'
    <2>1. ASSUME NEW c \in conversations', NEW e \in conversations'
          PROVE  c.id \in 1..asked /\ (c.id = e.id => c = e)
      BY <1>2 DEF IInv, IdsApart
    <2>2. ASSUME NEW r \in Session, NEW c \in work'[r].conversations
          PROVE  /\ c.id \in 1..asked
                 /\ \A e \in work'[r].conversations : c.id = e.id => c = e
                 /\ \A e \in conversations' : c.id # e.id
                 /\ \A q \in Session \ {r} : \A e \in work'[q].conversations : c.id # e.id
      <3>1. r # s /\ c \in work[r].conversations
        BY <1>3
      <3>2. \A e \in conversations' : c.id # e.id
        BY <1>2, <3>1 DEF IInv, IdsApart
      <3> QED
        BY <1>3, <3>1, <3>2 DEF IInv, IdsApart
    <2> QED
      BY <1>1, <2>1, <2>2 DEF IdsApart
  <1>8. CallsOpen'
    BY <1>1, <1>2, <1>3 DEF IInv, CallsOpen, Idle
  <1>9. Trails'
    <2>1. Trail(conversations, audits) /\ Trail(work[s].conversations, work[s].audits)
      BY DEF IInv, Trails
    <2>2. Trail(conversations', audits')
      BY <1>2, <2>1, TrailUnion
    <2>3. ASSUME NEW r \in Session PROVE Trail(work'[r].conversations, work'[r].audits)
      <3>1. CASE r = s
        BY <1>3, <3>1 DEF Trail
      <3>2. CASE r # s
        BY <1>3, <3>2 DEF IInv, Trails
      <3> QED
        BY <3>1, <3>2
    <2> QED
      BY <2>2, <2>3 DEF Trails
  <1>10. CallsDistinct'
    <2>1. \A c \in work[s].conversations : NoRepeat(c)
      BY DEF Commit, Flushable, NoRepeat
    <2> QED
      BY <1>2, <2>1 DEF IInv, CallsDistinct
  <1> QED
    BY <1>4, <1>6, <1>7, <1>8, <1>9, <1>10 DEF IInv

LEMMA AskStep ==
    ASSUME IInv, NEW s \in Session, NEW a \in Actor, Ask(s, a)
    PROVE  IInv'
  <1>a. PICK n : n = asked + 1
    OBVIOUS
  <1>b. PICK new : new = Started(a, n)
    OBVIOUS
  <1>c. PICK opened : opened = Opening(n)
    OBVIOUS
  <1>1. /\ revision' = revision /\ evaluations' = evaluations /\ valuation' = valuation
        /\ published' = published /\ conversations' = conversations /\ audits' = audits
        /\ asked' = n /\ permitted' = permitted
    BY <1>a DEF Ask, book, stored
  <1>2. n \in Nat /\ asked \in Nat /\ n \notin 1..asked /\ n \in 1..n /\ \A i \in 1..asked : i \in 1..n
    BY <1>a DEF IInv, Typed
  <1>3. new \in ConversationRow /\ opened \in AuditRow
    BY <1>2, <1>b, <1>c DEF Started, Opening, ConversationRow, AuditRow
  <1>4. new.id = n /\ new.status = "ACTIVE" /\ new.calls = <<>> /\ opened.id = n
        /\ new.message = "NONE" /\ new.citations = {} /\ opened.action = "AI_CONVERSATION_STARTED"
    BY <1>b, <1>c DEF Started, Opening
  <1>5. /\ work' \in WorkType
        /\ work'[s].conversations = work[s].conversations \cup {new}
        /\ work'[s].audits = work[s].audits \cup {opened}
        /\ \A r \in Session \ {s} : work'[r] = work[r]
    <2>1. PICK X : X = work[s].conversations \cup {new}
      OBVIOUS
    <2>2. PICK Y : Y = work[s].audits \cup {opened}
      OBVIOUS
    <2>3. work' = [work EXCEPT ![s].conversations = X, ![s].audits = Y]
      BY <1>a, <1>b, <1>c, <2>1, <2>2 DEF Ask, IInv, Typed, WorkType
    <2>4. X \in SUBSET ConversationRow /\ Y \in SUBSET AuditRow
      BY <1>3, <2>1, <2>2 DEF IInv, Typed, WorkType
    <2>5. work \in WorkType
      BY DEF IInv, Typed
    <2>6. Written(s, X, Y)
      BY <2>3, <2>4, <2>5, WorkWritten
    <2> QED
      BY <2>1, <2>2, <2>6 DEF Written
  <1>6. /\ call' \in [Session -> OpenCall \cup {NoCall}]
        /\ call'[s].id = n /\ call'[s].step = "REPLY"
        /\ \A r \in Session \ {s} : call'[r] = call[r]
    <2>1. [step |-> "REPLY", id |-> n, rounds |-> 0, pending |-> <<>>] \in OpenCall
      BY <1>2, LimitAssumption DEF OpenCall
    <2> QED
      BY <2>1, <1>a DEF Ask, IInv, Typed
  <1>7. Typed'
    <2> QED
      BY <1>1, <1>2, <1>5, <1>6 DEF IInv, Typed, BookTyped
  <1>8. \A x \in SourceRow : Published(x) => Published(x)' /\ Rank(x)' = Rank(x)
    BY <1>1 DEF Published, Rank
  <1>9. Sound(new)'
    <2>1. SourcesOf(<<>>) = {}
      BY DEF SourcesOf
    <2>2. new.status # "COMPLETED" /\ new.status # "REFUSED" /\ new.message # "ASSISTANT"
      BY <1>4
    <2>3. Len(new.calls) <= MaxCalls /\ DOMAIN new.calls = {}
      BY <1>4, LimitAssumption
    <2>4. Answered(new)
      BY <1>4, <2>2 DEF Answered
    <2>5. IsFiniteSet(SourcesOf(new.calls))
      BY <1>4, <2>1, FS_EmptySet
    <2>6. Sound(new)
      BY <2>3, <2>4, <2>5 DEF Sound, Advancing
    <2> QED
      BY <1>8, <2>6, SoundKept
  <1>10. RowsSound'
    <2>1. \A c \in conversations : Sound(c)'
      BY <1>8, SoundKept DEF IInv, RowsSound
    <2>2. \A r \in Session : \A c \in work[r].conversations : Sound(c)'
      BY <1>8, SoundKept DEF IInv, RowsSound
    <2> QED
      BY <1>1, <1>5, <1>9, <2>1, <2>2 DEF RowsSound
  <1>11. IdsApart'
    <2>1. \A c \in conversations : c.id \in 1..n /\ c.id # n
      BY <1>2 DEF IInv, IdsApart
    <2>2. \A r \in Session : \A c \in work[r].conversations : c.id \in 1..n /\ c.id # n
      BY <1>2 DEF IInv, IdsApart
    <2>3. ASSUME NEW r \in Session, NEW c \in work'[r].conversations
          PROVE  /\ c.id \in 1..n
                 /\ \A e \in work'[r].conversations : c.id = e.id => c = e
                 /\ \A e \in conversations : c.id # e.id
                 /\ \A q \in Session \ {r} : \A e \in work'[q].conversations : c.id # e.id
      <3>1. CASE c = new /\ r = s
        <4>1. /\ c.id = n /\ c.id \in 1..n
              /\ work'[r].conversations = work[s].conversations \cup {new}
              /\ \A q \in Session \ {r} : work'[q] = work[q]
          <5>1. c.id = n /\ n \in 1..n
            BY <1>2, <1>4, <3>1
          <5> QED
            BY <1>5, <3>1, <5>1
        <4>2. \A e \in work'[r].conversations : c.id = e.id => c = e
          BY <2>2, <3>1, <4>1
        <4> QED
          BY <2>1, <2>2, <4>1, <4>2
      <3>2. CASE c \in work[r].conversations
        <4>1. \A e \in work'[r].conversations : c.id = e.id => c = e
          BY <1>4, <1>5, <2>2, <3>2 DEF IInv, IdsApart
        <4>2. \A q \in Session \ {r} : \A e \in work'[q].conversations : c.id # e.id
          BY <1>4, <1>5, <2>2, <3>2 DEF IInv, IdsApart
        <4> QED
          BY <2>2, <3>2, <4>1, <4>2 DEF IInv, IdsApart
      <3> QED
        BY <1>5, <3>1, <3>2
    <2> QED
      BY <1>1, <2>1, <2>3 DEF IInv, IdsApart
  <1>12. CallsOpen'
    <2>1. new \in work'[s].conversations /\ new.id = call'[s].id /\ new.status = "ACTIVE"
          /\ call'[s].step # "READ"
      BY <1>4, <1>5, <1>6
    <2>2. ASSUME NEW r \in Session \ {s}, ~ Idle(r)'
          PROVE  \E c \in work'[r].conversations :
                    /\ c.id = call'[r].id /\ c.status = "ACTIVE"
                    /\ call'[r].step = "READ" => call'[r].pending # <<>> /\ Len(c.calls) < MaxCalls
      BY <1>5, <1>6, <2>2 DEF IInv, CallsOpen, Idle
    <2> QED
      BY <2>1, <2>2 DEF CallsOpen
  <1>13. Trails'
    <2>1. Trail(conversations, audits)'
      BY <1>1 DEF IInv, Trails
    <2>2. Trail({new}, {opened})
      BY <1>4 DEF Trail
    <2>3. ASSUME NEW r \in Session PROVE Trail(work'[r].conversations, work'[r].audits)
      <3>1. CASE r = s
        BY <1>5, <2>2, <3>1, TrailUnion DEF IInv, Trails
      <3>2. CASE r # s
        BY <1>5, <3>2 DEF IInv, Trails
      <3> QED
        BY <3>1, <3>2
    <2> QED
      BY <2>1, <2>3 DEF Trails
  <1>14. CallsDistinct'
    BY <1>1 DEF IInv, CallsDistinct
  <1> QED
    BY <1>7, <1>10, <1>11, <1>12, <1>13, <1>14 DEF IInv

LEMMA FinishStep ==
    ASSUME IInv, NEW s \in Session, NEW turn \in Turn, Finish(s, turn)
    PROVE  IInv'
  <1>1. ~ Idle(s)
    BY DEF Finish, Idle
  <1>2. PICK o : o = Own(s)
    OBVIOUS
  <1>3. /\ o \in work[s].conversations /\ o.status = "ACTIVE"
        /\ o \in ConversationRow /\ Sound(o)
    BY <1>1, <1>2, OwnIs DEF IInv, Typed, WorkType, RowsSound
  <1>4. PICK d : d = Finished(o, turn.text)
    OBVIOUS
  <1>5. turn.text \in BOOLEAN
    BY TurnAssumption DEF TurnFields
  <1> DEFINE grounded == Grounded(SourcesOf(o.calls), turn.text)
  <1>6. d = [o EXCEPT !.status = IF grounded THEN "COMPLETED" ELSE "REFUSED",
                      !.message = IF grounded THEN "ASSISTANT" ELSE "REFUSAL",
                      !.text = turn.text,
                      !.citations = SourcesOf(o.calls)]
    BY <1>4 DEF Finished
  <1>7. SourcesOf(o.calls) \in SUBSET SourceRow
    <2>1. \A i \in DOMAIN o.calls : o.calls[i].sources \subseteq SourceRow
      BY <1>3 DEF Sound, SoundCall, Reading
    <2> QED
      BY <2>1 DEF SourcesOf
  <1>8. /\ d.id = o.id /\ d.calls = o.calls /\ d.citations = SourcesOf(o.calls)
        /\ d.status = (IF grounded THEN "COMPLETED" ELSE "REFUSED")
        /\ d.message = (IF grounded THEN "ASSISTANT" ELSE "REFUSAL")
        /\ d.text = turn.text /\ d \in ConversationRow
    <2> HIDE DEF grounded
    <2> QED
      BY <1>3, <1>5, <1>6, <1>7 DEF ConversationRow
  <1>9. d.status # "ACTIVE" /\ Sound(d)
    <2>1. Answered(d)
      BY <1>8 DEF Answered, Grounded
    <2> QED
      BY <1>3, <1>8, <2>1 DEF Sound
  <1>10. PICK b : b = Completion(d)
    OBVIOUS
  <1>11. b \in AuditRow
    <2>1. Len(d.calls) \in Nat /\ d.id \in Nat /\ d.status \in {"ACTIVE", "COMPLETED", "REFUSED"}
      BY <1>8 DEF ConversationRow
    <2>2. Cardinality(d.citations) \in Nat
      BY <1>3, <1>8, FS_CardinalityType DEF Sound
    <2> QED
      BY <1>10, <2>1, <2>2 DEF Completion, AuditRow
  <1>12. /\ b.id = d.id /\ b.action = "AI_CONVERSATION_COMPLETED" /\ b.status = d.status
         /\ b.calls = Len(d.calls) /\ b.sources = Cardinality(d.citations)
    BY <1>10 DEF Completion
  <1>13. Written(s, (work[s].conversations \ {o}) \cup {d}, work[s].audits \cup {b})
    <2>1. PICK X : X = (work[s].conversations \ {o}) \cup {d}
      OBVIOUS
    <2>2. PICK Y : Y = work[s].audits \cup {b}
      OBVIOUS
    <2>3. work' = [work EXCEPT ![s].conversations = X, ![s].audits = Y]
      <3>1. work' = [work EXCEPT ![s].conversations = Replace(s, d), ![s].audits = @ \cup {b}]
        BY <1>2, <1>4, <1>10 DEF Finish
      <3>2. Replace(s, d) = X
        BY <1>2, <2>1 DEF Replace
      <3> QED
        BY <2>2, <3>1, <3>2 DEF IInv, Typed, WorkType
    <2>4. X \in SUBSET ConversationRow /\ Y \in SUBSET AuditRow
      BY <1>8, <1>11, <2>1, <2>2 DEF IInv, Typed, WorkType
    <2>5. work \in WorkType
      BY DEF IInv, Typed
    <2>6. Written(s, X, Y)
      BY <2>3, <2>4, <2>5, WorkWritten
    <2> QED
      BY <2>1, <2>2, <2>6
  <1>14. /\ call' \in [Session -> OpenCall \cup {NoCall}]
         /\ call'[s] = NoCall /\ \A r \in Session \ {s} : call'[r] = call[r]
    BY DEF Finish, IInv, Typed
  <1>15. Idle(s)'
    BY <1>14 DEF Idle, NoCall
  <1>16. UNCHANGED <<permitted, book, stored, asked>>
    BY DEF Finish
  <1>17. {b} \in SUBSET AuditRow /\ \A a \in {b} : a.id = d.id /\ d.status # "ACTIVE"
    BY <1>9, <1>11, <1>12
  <1>18. \E a \in {b} : /\ a.id = d.id /\ a.action = "AI_CONVERSATION_COMPLETED"
                        /\ a.status = d.status /\ a.calls = Len(d.calls)
                        /\ a.sources = Cardinality(d.citations)
    BY <1>12
  <1>19. d \in ConversationRow /\ d.id = o.id
    BY <1>8
  <1> QED
    <2>1. PICK B \in SUBSET AuditRow : B = {b}
      BY <1>17
    <2>2. \A a \in B : a.id = d.id /\ d.status # "ACTIVE"
      BY <1>17, <2>1
    <2>3. \E a \in B : /\ a.id = d.id /\ a.action = "AI_CONVERSATION_COMPLETED"
                       /\ a.status = d.status /\ a.calls = Len(d.calls)
                       /\ a.sources = Cardinality(d.citations)
      BY <1>18, <2>1
    <2>4. Written(s, (work[s].conversations \ {o}) \cup {d}, work[s].audits \cup B)
      BY <1>13, <2>1
    <2>5. o \in work[s].conversations /\ o.status = "ACTIVE" /\ Sound(d)
      BY <1>3, <1>9
    <2> HIDE DEF grounded
    <2> QED
      BY ONLY IInv, s \in Session, <1>14, <1>15, <1>16, <1>19, <2>2, <2>3, <2>4, <2>5, EditStep

\* What a call may be recorded with.
RightOutcome(outcome, k) ==
    /\ outcome.status \in {"SUCCEEDED", "UNAVAILABLE", "DENIED", "INVALID"}
    /\ outcome.status = "SUCCEEDED" <=> outcome.sources # {}
    /\ IsFiniteSet(outcome.sources)
    /\ \A y \in outcome.sources : Reading(y, k.tool, k.at) /\ Newest(y, KindOf(k.tool), k.at)

CallRowOf(outcome, k) ==
    [id |-> k.id, tool |-> k.tool, at |-> k.at, status |-> outcome.status, sources |-> outcome.sources]

\* A conversation stays sound when a reading is recorded: the readings
\* before it were published, and it is the newest.
LEMMA RecordSound ==
    ASSUME NEW o \in ConversationRow, Sound(o), o.status = "ACTIVE", Len(o.calls) < MaxCalls,
           NEW k \in ToolCall, NEW outcome, RightOutcome(outcome, k),
           NEW d, d = [o EXCEPT !.calls = Append(@, CallRowOf(outcome, k))]
    PROVE  d \in ConversationRow /\ d.id = o.id /\ d.status = "ACTIVE" /\ Sound(d)
  <1>1. PICK row : row = CallRowOf(outcome, k)
    OBVIOUS
  <1>2. /\ row.id = k.id /\ row.tool = k.tool /\ row.at = k.at
        /\ row.status = outcome.status /\ row.sources = outcome.sources
    BY <1>1 DEF CallRowOf
  <1>3. row \in CallRow
    <2>1. outcome.sources \in SUBSET SourceRow
      BY DEF RightOutcome, Reading
    <2>2. k.id \in CallId /\ k.tool \in Tool \cup {"unknown"} /\ k.at \in Cutoff
      BY DEF ToolCall
    <2> QED
      BY <1>1, <2>1, <2>2 DEF CallRowOf, CallRow, RightOutcome
  <1>4. o.calls \in Seq(CallRow) /\ o.message \in {"NONE", "ASSISTANT", "REFUSAL"}
    BY DEF ConversationRow
  <1>5. d = [o EXCEPT !.calls = Append(o.calls, row)]
    BY <1>1
  <1>6. /\ d.id = o.id /\ d.status = o.status /\ d.message = o.message /\ d.citations = o.citations
        /\ d.calls = Append(o.calls, row)
    BY <1>5 DEF ConversationRow
  <1>7. PICK n : n = Len(o.calls)
    OBVIOUS
  <1>8. /\ n \in Nat /\ Len(d.calls) = n + 1 /\ DOMAIN o.calls = 1..n /\ DOMAIN d.calls = 1..(n + 1)
        /\ \A i \in 1..n : d.calls[i] = o.calls[i]
        /\ d.calls[n + 1] = row /\ d.calls \in Seq(CallRow)
    BY <1>3, <1>4, <1>6, <1>7
  <1>9. d \in ConversationRow
    <2> HIDE DEF CallRow
    <2> QED
      BY <1>5, <1>6, <1>8 DEF ConversationRow
  <1>10. SourcesOf(d.calls) = SourcesOf(o.calls) \cup outcome.sources
    <2>1. DOMAIN d.calls = (DOMAIN o.calls) \cup {n + 1}
      BY <1>8
    <2>2. \A i \in DOMAIN o.calls : d.calls[i] = o.calls[i]
      BY <1>8
    <2> QED
      BY <1>2, <1>8, <2>1, <2>2 DEF SourcesOf
  <1>11. IsFiniteSet(SourcesOf(d.calls))
    <2>1. IsFiniteSet(SourcesOf(o.calls)) /\ IsFiniteSet(outcome.sources)
      BY DEF Sound, RightOutcome
    <2>2. IsFiniteSet(SourcesOf(o.calls) \cup outcome.sources)
      BY <2>1, FS_Union
    <2> QED
      BY <1>10, <2>2
  <1>12. Len(d.calls) <= MaxCalls
    BY <1>7, <1>8, LimitAssumption
  <1>13. Answered(d)
    BY <1>6 DEF Answered, Sound
  <1>14. SoundCall(row)
    BY <1>2 DEF SoundCall, RightOutcome
  <1>15. \A i \in DOMAIN d.calls : SoundCall(d.calls[i])
    <2>1. \A i \in 1..n : SoundCall(d.calls[i])
      BY <1>8 DEF Sound
    <2>2. \A i \in 1..(n + 1) : i \in 1..n \/ i = n + 1
      BY <1>8
    <2> QED
      BY <1>8, <1>14, <2>1, <2>2
  <1>16. Advancing(d.calls)
    <2> SUFFICES ASSUME NEW i \in 1..(n + 1), NEW j \in 1..(n + 1), i < j,
                        d.calls[i].at = d.calls[j].at, d.calls[i].tool = d.calls[j].tool,
                        NEW x \in d.calls[i].sources, NEW y \in d.calls[j].sources
                 PROVE  NotAfter(x, y)
      BY <1>8 DEF Advancing
    <2>1. i \in 1..n /\ (j \in 1..n \/ j = n + 1)
      BY <1>8
    <2>2. CASE j \in 1..n
      BY <1>8, <2>1, <2>2 DEF Sound, Advancing
    <2>3. CASE j = n + 1
      <3>1. d.calls[i] = o.calls[i] /\ d.calls[j] = row
        BY <1>8, <2>1, <2>3
      <3>2. Reading(x, o.calls[i].tool, o.calls[i].at)
        BY <1>8, <2>1, <3>1 DEF Sound, SoundCall
      <3>3. o.calls[i].tool = k.tool /\ o.calls[i].at = k.at
        BY <1>2, <3>1
      <3>4. Newest(y, KindOf(k.tool), k.at)
        BY <1>2, <3>1 DEF RightOutcome
      <3> QED
        BY <3>2, <3>3, <3>4 DEF Reading, Newest
    <2> QED
      BY <2>1, <2>2, <2>3
  <1> QED
    BY <1>6, <1>9, <1>11, <1>12, <1>13, <1>15, <1>16 DEF Sound

LEMMA RecordStep ==
    ASSUME IInv, NEW s \in Session, ~ Idle(s), call[s].pending # <<>>,
           Len(Own(s).calls) < MaxCalls, NEW outcome, RightOutcome(outcome, Head(call[s].pending)),
           Record(s, outcome)
    PROVE  IInv'
  <1>1. PICK o : o = Own(s)
    OBVIOUS
  <1>2. /\ o \in work[s].conversations /\ o.status = "ACTIVE" /\ o.id = call[s].id
        /\ o \in ConversationRow /\ Sound(o) /\ call[s] \in OpenCall
    BY <1>1, OwnIs DEF IInv, Typed, WorkType, RowsSound
  <1>3. PICK k : k = Head(call[s].pending)
    OBVIOUS
  <1>4. call[s].pending \in Seq(ToolCall)
    BY <1>2 DEF OpenCall
  <1>5. k \in ToolCall /\ Tail(call[s].pending) \in Seq(ToolCall)
    <2> HIDE DEF ToolCall
    <2> QED
      BY <1>3, <1>4
  <1>6. PICK d : d = [o EXCEPT !.calls = Append(@, CallRowOf(outcome, k))]
    OBVIOUS
  <1>7. d \in ConversationRow /\ d.id = o.id /\ d.status = "ACTIVE" /\ Sound(d)
    BY <1>1, <1>2, <1>3, <1>5, <1>6, RecordSound
  <1>8. Written(s, (work[s].conversations \ {o}) \cup {d}, work[s].audits \cup {})
    <2>1. PICK X : X = (work[s].conversations \ {o}) \cup {d}
      OBVIOUS
    <2>2. work' = [work EXCEPT ![s].conversations = X]
      <3>1. work' = [work EXCEPT ![s].conversations = Replace(s, d)]
        BY <1>1, <1>3, <1>6 DEF Record, CallRowOf
      <3>2. Replace(s, d) = X
        BY <1>1, <2>1 DEF Replace
      <3> QED
        BY <3>1, <3>2
    <2>3. X \in SUBSET ConversationRow
      BY <1>7, <2>1 DEF IInv, Typed, WorkType
    <2>4. work \in WorkType
      BY DEF IInv, Typed
    <2>5. Written(s, X, work[s].audits)
      BY <2>2, <2>3, <2>4, ConversationsWritten
    <2>6. work[s].audits \cup {} = work[s].audits
      OBVIOUS
    <2> QED
      BY <2>1, <2>5, <2>6
  <1>9. \A r \in Session \ {s} : call'[r] = call[r]
    BY DEF Record, IInv, Typed
  <1>10. call'[s].id = d.id /\ call'[s].step # "READ" /\ call'[s] \in OpenCall
    <2>1. call'[s] = [call[s] EXCEPT !.step = "AUTHORIZE", !.pending = Tail(call[s].pending)]
      BY DEF Record, IInv, Typed
    <2> QED
      BY <1>2, <1>5, <1>7, <2>1 DEF OpenCall
  <1>11. call' \in [Session -> OpenCall \cup {NoCall}]
    BY <1>10 DEF Record, IInv, Typed
  <1>12. UNCHANGED <<permitted, book, stored, asked>>
    BY DEF Record
  <1>13. PICK B \in SUBSET AuditRow : B = {}
    OBVIOUS
  <1>14. Written(s, (work[s].conversations \ {o}) \cup {d}, work[s].audits \cup B)
    BY <1>8, <1>13
  <1>15. o \in work[s].conversations /\ o.status = "ACTIVE"
    BY <1>2
  <1> QED
    BY ONLY IInv, s \in Session, <1>7, <1>9, <1>10, <1>11, <1>12, <1>13, <1>14, <1>15, EditStep

LEMMA DenyStep ==
    ASSUME IInv, NEW s \in Session, Deny(s)
    PROVE  IInv'
  <1>1. call[s].step = "AUTHORIZE" /\ call[s].pending # <<>> /\ ~ Len(Own(s).calls) >= MaxCalls
    BY DEF Deny, AtCall, OverCallLimit
  <1>2. ~ Idle(s)
    BY <1>1 DEF Idle
  <1>3. Len(Own(s).calls) < MaxCalls
    <2>1. Own(s).calls \in Seq(CallRow)
      BY <1>2, OwnIs DEF IInv, Typed, WorkType, ConversationRow
    <2>2. Len(Own(s).calls) \in Nat
      BY <2>1
    <2> QED
      BY <1>1, <2>2, LimitAssumption
  <1>4. RightOutcome(Fails("DENIED"), Head(call[s].pending))
    BY FS_EmptySet DEF Fails, RightOutcome
  <1>5. Record(s, Fails("DENIED"))
    BY DEF Deny
  <1> QED
    BY <1>1, <1>2, <1>3, <1>4, <1>5, RecordStep

LEMMA ReadStep ==
    ASSUME IInv, NEW s \in Session, ReadTool(s)
    PROVE  IInv'
  <1>1. call[s].step = "READ"
    BY DEF ReadTool
  <1>2. ~ Idle(s)
    BY <1>1 DEF Idle
  <1>3. call[s] \in OpenCall /\ call[s].pending # <<>> /\ Len(Own(s).calls) < MaxCalls
    BY <1>1, <1>2, OwnIs
  <1>4. PICK k : k = Head(call[s].pending)
    OBVIOUS
  <1>5. k \in ToolCall
    <2>1. call[s].pending \in Seq(ToolCall)
      BY <1>3 DEF OpenCall
    <2> HIDE DEF ToolCall
    <2> QED
      BY <1>3, <1>4, <2>1
  <1>6. PICK outcome \in Outcomes(k) :
            IF outcome.status = "RAISES" THEN Raise(s) ELSE Record(s, outcome)
    BY <1>4 DEF ReadTool
  <1>7. CASE outcome.status = "RAISES"
    <2>1. Raise(s)
      BY <1>6, <1>7
    <2> QED
      BY <2>1, RaiseStep
  <1>8. CASE outcome.status # "RAISES"
    <2>1. Record(s, outcome)
      BY <1>6, <1>8
    <2>2. BookTyped
      BY DEF IInv, Typed
    <2>3. RightOutcome(outcome, k)
      BY <1>5, <1>8, <2>2, OutcomeReading DEF RightOutcome
    <2> QED
      BY <1>2, <1>3, <1>4, <2>1, <2>3, RecordStep
  <1> QED
    BY <1>7, <1>8

-----------------------------------------------------------------------------
(* The theorems.                                                           *)

LEMMA InitInv ==
    ASSUME Init
    PROVE  IInv
  <1>1. Typed
    BY LimitAssumption
    DEF Init, Typed, BookTyped, ValuationState, WorkType, NoWork
  <1>2. IdsApart /\ CallsOpen /\ RowsSound /\ CallsDistinct
    BY DEF Init, IdsApart, CallsOpen, RowsSound, CallsDistinct, NoWork, NoCall, Idle
  <1>3. Trails
    BY DEF Init, Trails, Trail, NoWork
  <1> QED
    BY <1>1, <1>2, <1>3 DEF IInv

LEMMA NextInv ==
    ASSUME IInv, [Next]_vars
    PROVE  IInv'
  <1>1. ASSUME NEW s \in Session, NEW a \in Actor, Ask(s, a) PROVE IInv'
    BY <1>1, AskStep
  <1>2. ASSUME NEW s \in Session, Reply(s) PROVE IInv'
    <2>1. ASSUME NEW turn \in Turn, CallTools(s, turn) PROVE IInv'
      BY <2>1, CallToolsStep
    <2>2. ASSUME NEW turn \in Turn, Finish(s, turn) PROVE IInv'
      BY <2>2, FinishStep
    <2>3. CASE ProviderFails(s) \/ RoundLimit(s)
      BY <2>3, RaiseStep DEF ProviderFails, RoundLimit
    <2> QED
      BY <1>2, <2>1, <2>2, <2>3 DEF Reply
  <1>3. ASSUME NEW s \in Session, Execute(s) PROVE IInv'
    <2>1. CASE CallLimit(s)
      BY <2>1, RaiseStep DEF CallLimit
    <2>2. CASE Deny(s)
      BY <2>2, DenyStep
    <2>3. CASE Authorize(s)
      BY <2>3, AuthorizeStep
    <2>4. CASE ReadTool(s)
      BY <2>4, ReadStep
    <2>5. CASE Flush(s)
      BY <2>5, FlushStep
    <2> QED
      BY <1>3, <2>1, <2>2, <2>3, <2>4, <2>5 DEF Execute
  <1>4. ASSUME NEW s \in Session, FlushFails(s) \/ Rollback(s) PROVE IInv'
    BY <1>4, UndoStep DEF FlushFails, Rollback
  <1>5. ASSUME NEW s \in Session, Commit(s) PROVE IInv'
    BY <1>5, CommitStep
  <1>6. CASE Others
    BY <1>6, OthersStep
  <1>7. CASE UNCHANGED vars
    <2>1. UNCHANGED <<permitted, book, stored, asked, work>> /\ call' = call
      BY <1>7 DEF vars, book, stored
    <2>2. call' \in [Session -> OpenCall \cup {NoCall}]
      BY <2>1 DEF IInv, Typed
    <2>3. CallsOpen'
      BY <2>1 DEF IInv, CallsOpen, Idle
    <2> QED
      BY <2>1, <2>2, <2>3, CallStep
  <1> QED
    BY <1>1, <1>2, <1>3, <1>4, <1>5, <1>6, <1>7 DEF Next

\* Whatever the model answers and whoever publishes or loses a role
\* meanwhile, ids stay apart, a call of ask has its conversation, and every
\* conversation, committed or not, follows from its calls and has its trail.
THEOREM Invariance == Spec => []IInv
  <1>1. Init => IInv
    BY InitInv
  <1>2. IInv /\ [Next]_vars => IInv'
    BY NextInv
  <1> QED
    BY <1>1, <1>2, PTL DEF Spec

\* Rows, sessions and calls have the shapes the code gives them, and a call
\* of ask is about an unfinished conversation of its own session.
THEOREM TypeCorrect == Spec => []TypeOK
  <1>1. ASSUME IInv PROVE TypeOK
    <2>1. \A s \in Session : ~ Idle(s) => Own(s) \in work[s].conversations /\ Own(s).status = "ACTIVE"
      BY <1>1, OwnIs
    <2>2. Typed
      BY <1>1 DEF IInv
    <2> QED
      BY <2>1, <2>2 DEF Typed, BookTyped, WorkType, OpenCall, TypeOK
  <1> QED
    BY <1>1, Invariance, PTL

\* An answer is stored only with evidence, cites exactly what its tools read,
\* and what they read was committed and is not after the cutoff (service.py
\* 157-181, tools.py 127-143, sql_tools.py 180-219).
THEOREM AnswersTrue == Spec => []AnswersGrounded
  <1>1. ASSUME IInv, NEW c \in conversations
        PROVE  LET successful == {i \in DOMAIN c.calls : c.calls[i].status = "SUCCEEDED"} IN
               /\ c.status # "ACTIVE" => c.citations = UNION {c.calls[i].sources : i \in successful}
               /\ c.status = "COMPLETED" <=> c.message = "ASSISTANT"
               /\ c.status = "COMPLETED" => c.text /\ successful # {}
               /\ c.status = "REFUSED" => ~ c.text \/ successful = {}
               /\ \A i \in DOMAIN c.calls : \A x \in c.calls[i].sources :
                    Published(x) /\ x.at <= c.calls[i].at
    <2> DEFINE successful == {i \in DOMAIN c.calls : c.calls[i].status = "SUCCEEDED"}
    <2>1. Sound(c)
      BY <1>1 DEF IInv, RowsSound
    <2>2. \A i \in DOMAIN c.calls : c.calls[i].status = "SUCCEEDED" <=> c.calls[i].sources # {}
      BY <2>1 DEF Sound, SoundCall
    <2>3. SourcesOf(c.calls) = UNION {c.calls[i].sources : i \in successful}
      BY <2>2 DEF SourcesOf
    <2>4. SourcesOf(c.calls) = {} <=> successful = {}
      BY <2>2 DEF SourcesOf
    <2>5. Answered(c)
      BY <2>1 DEF Sound
    <2>6. \A i \in DOMAIN c.calls : \A x \in c.calls[i].sources :
             Published(x) /\ x.at <= c.calls[i].at
      BY <2>1 DEF Sound, SoundCall, Reading
    <2> HIDE DEF successful
    <2>7. /\ c.status # "ACTIVE" => c.citations = UNION {c.calls[i].sources : i \in successful}
          /\ c.status = "COMPLETED" <=> c.message = "ASSISTANT"
          /\ c.status = "COMPLETED" => c.text /\ successful # {}
          /\ c.status = "REFUSED" => ~ c.text \/ successful = {}
      BY <2>3, <2>4, <2>5 DEF Answered
    <2> QED
      BY <2>6, <2>7 DEF successful
  <1>2. IInv => AnswersGrounded
    BY <1>1 DEF AnswersGrounded
  <1> QED
    BY <1>2, Invariance, PTL

\* A committed conversation has its trail of audit events and no more calls
\* than the limit, none of them twice (service.py 64-103, 110-145, 182-191).
THEOREM TrailsTrue == Spec => []TrailComplete
  <1>1. ASSUME IInv, NEW c \in conversations
        PROVE  /\ \A d \in conversations : c.id = d.id => c = d
               /\ \E a \in audits : a.id = c.id /\ a.action = "AI_CONVERSATION_STARTED"
               /\ c.status # "ACTIVE" <=>
                    \E a \in audits :
                        /\ a.id = c.id /\ a.action = "AI_CONVERSATION_COMPLETED"
                        /\ a.status = c.status /\ a.calls = Len(c.calls)
                        /\ a.sources = Cardinality(c.citations)
               /\ \A i, j \in DOMAIN c.calls : c.calls[i].id = c.calls[j].id => i = j
               /\ Len(c.calls) <= MaxCalls
    <2>1. \A d \in conversations : c.id = d.id => c = d
      BY <1>1 DEF IInv, IdsApart
    <2>2. Trail(conversations, audits)
      BY <1>1 DEF IInv, Trails
    <2>3. \E a \in audits : a.id = c.id /\ a.action = "AI_CONVERSATION_STARTED"
      BY <2>2 DEF Trail
    <2>4. ASSUME c.status # "ACTIVE"
          PROVE  \E a \in audits :
                    /\ a.id = c.id /\ a.action = "AI_CONVERSATION_COMPLETED"
                    /\ a.status = c.status /\ a.calls = Len(c.calls)
                    /\ a.sources = Cardinality(c.citations)
      BY <2>2, <2>4 DEF Trail
    <2>5. ASSUME NEW a \in audits, a.id = c.id, a.action = "AI_CONVERSATION_COMPLETED"
          PROVE  c.status # "ACTIVE"
      <3>1. PICK d \in conversations : d.id = a.id /\ d.status # "ACTIVE"
        BY <2>2, <2>5 DEF Trail
      <3> QED
        BY <2>1, <2>5, <3>1
    <2>6. NoRepeat(c) /\ Sound(c)
      BY <1>1 DEF IInv, CallsDistinct, RowsSound
    <2> QED
      BY <2>1, <2>3, <2>4, <2>5, <2>6 DEF NoRepeat, Sound
  <1>2. ASSUME IInv PROVE \A a \in audits : \E c \in conversations : a.id = c.id
    BY <1>2 DEF IInv, Trails, Trail
  <1>3. IInv => TrailComplete
    BY <1>1, <1>2 DEF TrailComplete
  <1> QED
    BY <1>3, Invariance, PTL

\* What a tool reads for a cutoff never goes back within an answer, though
\* others publish between its calls with any created_at (sql_tools.py 180-219).
THEOREM ReadingsTrue == Spec => []ReadingsAdvance
  <1>1. ASSUME IInv PROVE ReadingsAdvance
    <2>1. \A c \in conversations : Advancing(c.calls)
      BY <1>1 DEF IInv, RowsSound, Sound
    <2> QED
      BY <2>1 DEF ReadingsAdvance, Advancing, NotAfter
  <1> QED
    BY <1>1, Invariance, PTL

-----------------------------------------------------------------------------
(* The refinement.                                                         *)

LEMMA NumberedHas ==
    ASSUME NEW kind, NEW last, NEW t \in Cutoff, NEW n \in 1..last[t]
    PROVE  Source(kind, t, n) \in Numbered(kind, last)
  BY DEF Numbered

LEMMA NumberedGrows ==
    ASSUME NEW kind, NEW old, NEW last, \A t \in Cutoff : old[t] \in Nat /\ last[t] \in Nat /\ old[t] <= last[t]
    PROVE  Numbered(kind, old) \subseteq Numbered(kind, last)
  <1>1. ASSUME NEW x \in Numbered(kind, old) PROVE x \in Numbered(kind, last)
    <2>1. PICK t \in Cutoff : x \in {Source(kind, t, n) : n \in 1..old[t]}
      BY DEF Numbered
    <2>2. PICK n \in 1..old[t] : x = Source(kind, t, n)
      BY <2>1
    <2>3. n \in 1..last[t]
      BY <2>2
    <2> QED
      BY <2>2, <2>3, NumberedHas
  <1> QED
    BY <1>1

\* What is cited has been published, in the words of the mapping.
LEMMA PublishedIs ==
    ASSUME NEW x \in SourceRow, Published(x)
    PROVE  x \in PublishedSources
  <1>1. x = Source(x.kind, x.at, x.place) /\ x.at \in Cutoff
    BY DEF SourceRow, Source
  <1>2. CASE x.kind = "portfolio_snapshot"
    <2>1. x.place \in 1..revision[x.at]
      BY <1>2 DEF Published
    <2> QED
      BY <1>1, <1>2, <2>1, NumberedHas DEF PublishedSources
  <1>3. CASE x.kind = "risk_evaluation"
    <2>1. x.place \in DOMAIN evaluations /\ evaluations[x.place].at = x.at
      BY <1>3 DEF Published
    <2> QED
      BY <1>1, <1>3, <2>1 DEF PublishedSources
  <1>4. CASE x.kind = "portfolio_reconstruction"
    <2>1. x.place \in 1..[t \in Cutoff |-> valuation[t].version][x.at]
      BY <1>1, <1>4 DEF Published
    <2> QED
      BY <1>1, <1>4, <2>1, NumberedHas DEF PublishedSources
  <1> QED
    BY <1>2, <1>3, <1>4 DEF SourceRow

\* A row that follows from its calls is one the archive accepts.
LEMMA SoundIsSupported ==
    ASSUME NEW c, Sound(c)
    PROVE  Archive!Supported(c)
  <1>1. Answered(c)
    BY DEF Sound
  <1>2. SourcesOf(c.calls) \subseteq PublishedSources
    <2>1. \A i \in DOMAIN c.calls : \A x \in c.calls[i].sources : x \in SourceRow /\ Published(x)
      BY DEF Sound, SoundCall, Reading
    <2> QED
      BY <2>1, PublishedIs DEF SourcesOf
  <1>3. c.citations \subseteq PublishedSources
    BY <1>1, <1>2 DEF Answered
  <1>4. c.message = "ASSISTANT" => c.text /\ c.citations # {}
    BY <1>1 DEF Answered
  <1>5. c.status = "ACTIVE" <=> c.message = "NONE"
    BY <1>1 DEF Answered
  <1> QED
    BY <1>3, <1>4, <1>5 DEF Archive!Supported

\* Others only add to what can be cited.
LEMMA RecordsGrow ==
    ASSUME IInv, Others
    PROVE  PublishedSources \subseteq PublishedSources' /\ UNCHANGED stored
  <1>1. BookTyped
    BY DEF IInv, Typed
  <1>2. ASSUME NEW t \in Cutoff, PublishSnapshot(t)
        PROVE  PublishedSources \subseteq PublishedSources' /\ UNCHANGED stored
    <2>1. \A u \in Cutoff : revision[u] \in Nat /\ revision'[u] \in Nat /\ revision[u] <= revision'[u]
      BY <1>1, <1>2 DEF PublishSnapshot, BookTyped
    <2>2. Numbered("portfolio_snapshot", revision) \subseteq Numbered("portfolio_snapshot", revision')
      BY <2>1, NumberedGrows
    <2>3. evaluations' = evaluations /\ valuation' = valuation /\ UNCHANGED stored
      BY <1>2 DEF PublishSnapshot, Publishing
    <2> QED
      BY <2>2, <2>3 DEF PublishedSources
  <1>3. ASSUME NEW t \in Cutoff, NEW created \in Cutoff, NEW risk \in BOOLEAN, PublishEvaluation(t, created, risk)
        PROVE  PublishedSources \subseteq PublishedSources' /\ UNCHANGED stored
    <2>1. evaluations' = Append(evaluations, [at |-> t, created |-> created, risk |-> risk])
          /\ revision' = revision /\ valuation' = valuation /\ UNCHANGED stored
      BY <1>3 DEF PublishEvaluation, Publishing
    <2> DEFINE Row == [at : Cutoff, created : Cutoff, risk : BOOLEAN]
    <2> DEFINE new == [at |-> t, created |-> created, risk |-> risk]
    <2>2. evaluations' = Append(evaluations, new) /\ evaluations \in Seq(Row) /\ new \in Row
      BY <1>1, <2>1 DEF BookTyped
    <2>3. \A i \in DOMAIN evaluations : i \in DOMAIN evaluations' /\ evaluations'[i] = evaluations[i]
      <3> HIDE DEF Row, new
      <3> QED
        BY <2>2
    <2> QED
      BY <2>1, <2>3 DEF PublishedSources
  <1>4. ASSUME NEW t \in Cutoff, NEW state \in ValuationState, ChangeValuation(t, state)
        PROVE  PublishedSources \subseteq PublishedSources' /\ UNCHANGED stored
    <2>1. \A u \in Cutoff : /\ valuation[u].version \in Nat /\ valuation'[u].version \in Nat
                            /\ valuation[u].version <= valuation'[u].version
      BY <1>1, <1>4 DEF ChangeValuation, BookTyped
    <2>2. Numbered("portfolio_reconstruction", [u \in Cutoff |-> valuation[u].version])
            \subseteq Numbered("portfolio_reconstruction", [u \in Cutoff |-> valuation'[u].version])
      BY <2>1, NumberedGrows
    <2>3. evaluations' = evaluations /\ revision' = revision /\ UNCHANGED stored
      BY <1>4 DEF ChangeValuation, Publishing
    <2> QED
      BY <2>2, <2>3 DEF PublishedSources
  <1>5. ASSUME NEW a \in Actor, ChangeRoles(a)
        PROVE  PublishedSources \subseteq PublishedSources' /\ UNCHANGED stored
    BY <1>5 DEF ChangeRoles, book, PublishedSources
  <1> QED
    BY <1>2, <1>3, <1>4, <1>5 DEF Others

\* A commit files the conversations of its session, which are all new, with
\* their audit events.
LEMMA CommitFiles ==
    ASSUME IInv, NEW s \in Session, Commit(s)
    PROVE  Archive!File
  <1>1. /\ conversations' = conversations \cup work[s].conversations
        /\ audits' = audits \cup work[s].audits
        /\ revision' = revision /\ evaluations' = evaluations /\ valuation' = valuation
    BY DEF Commit, book
  <1>2. \A c \in work[s].conversations : \A d \in conversations : c.id # d.id
    BY DEF IInv, IdsApart
  <1>3. \A c, d \in work[s].conversations : c.id = d.id => c = d
    BY DEF IInv, IdsApart
  <1>4. conversations' \ conversations = work[s].conversations
    BY <1>1, <1>2
  <1>5. Trail(conversations, audits) /\ Trail(work[s].conversations, work[s].audits)
    BY DEF IInv, Trails
  <1>6. \A a \in audits : \E d \in conversations : d.id = a.id
    BY <1>5 DEF Trail
  <1>7. \A a \in work[s].audits : \E c \in work[s].conversations : c.id = a.id
    BY <1>5 DEF Trail
  <1>8. audits' \ audits = work[s].audits
    BY <1>1, <1>2, <1>6, <1>7
  <1>9. \A c \in work[s].conversations :
           \E a \in work[s].audits : a.id = c.id /\ a.action = "AI_CONVERSATION_STARTED"
    BY <1>5 DEF Trail
  <1>10. \A c \in work[s].conversations : Archive!Supported(c)
    BY SoundIsSupported DEF IInv, RowsSound
  <1>11. \A c \in work[s].conversations : \A d \in conversations' : d.id = c.id => d = c
    BY <1>1, <1>2, <1>3
  <1>12. PublishedSources' = PublishedSources
    BY <1>1 DEF PublishedSources
  <1>13. conversations \subseteq conversations' /\ audits \subseteq audits'
    BY <1>1
  <1> QED
    BY <1>4, <1>7, <1>8, <1>9, <1>10, <1>11, <1>12, <1>13 DEF Archive!File

\* Every other step of a session leaves the archive as it is.
LEMMA SessionsFile ==
    ASSUME IInv, NEW s \in Session,
           (\E a \in Actor : Ask(s, a)) \/ Reply(s) \/ Execute(s)
             \/ FlushFails(s) \/ Rollback(s) \/ Commit(s)
    PROVE  Archive!Next \/ UNCHANGED <<conversations, audits, PublishedSources>>
  <1>1. CASE Commit(s)
    BY <1>1, CommitFiles DEF Archive!Next
  <1>2. CASE ~ Commit(s)
    <2>1. UNCHANGED book /\ UNCHANGED stored
      BY <1>2 DEF Ask, Reply, CallTools, Finish, ProviderFails, RoundLimit, Raise,
                  Execute, CallLimit, Deny, Authorize, ReadTool, Record, Flush,
                  FlushFails, Rollback, Undo
    <2> QED
      BY <2>1 DEF book, stored, PublishedSources
  <1> QED
    BY <1>1, <1>2

\* Conversation implements AnswerArchive: what was committed, a conversation
\* that an error left unfinished too, is never changed nor audited again,
\* and answers cite what had been published (service.py 64-86, 157-191).
THEOREM ArchiveImplemented == Spec => ImplementsArchive
  <1>1. Init => Archive!Init
    <2>1. ASSUME NEW kind, NEW last, \A t \in Cutoff : last[t] = 0
          PROVE  Numbered(kind, last) = {}
      <3>1. \A t \in Cutoff : {Source(kind, t, n) : n \in 1..last[t]} = {}
        BY <2>1
      <3> QED
        BY <3>1 DEF Numbered
    <2>2. ASSUME Init PROVE PublishedSources = {}
      <3>1. /\ Numbered("portfolio_snapshot", revision) = {}
            /\ Numbered("portfolio_reconstruction", [t \in Cutoff |-> valuation[t].version]) = {}
        BY <2>1, <2>2 DEF Init
      <3> QED
        BY <2>2, <3>1 DEF Init, PublishedSources
    <2> QED
      BY <2>2 DEF Init, Archive!Init
  <1>2. ASSUME IInv, [Next]_vars
        PROVE  Archive!Next \/ UNCHANGED <<conversations, audits, PublishedSources>>
    <2>1. CASE Others
      BY <1>2, <2>1, RecordsGrow DEF Archive!Next, Archive!Publish, Archive!file, stored
    <2>2. CASE UNCHANGED vars
      BY <2>2 DEF vars, PublishedSources
    <2> QED
      BY <1>2, <2>1, <2>2, SessionsFile DEF Next
  <1>3. IInv /\ [Next]_vars => [Archive!Next]_<<conversations, audits, PublishedSources>>
    BY <1>2
  <1> QED
    BY <1>1, <1>3, Invariance, PTL DEF Spec, ImplementsArchive, Archive!Spec
=============================================================================
