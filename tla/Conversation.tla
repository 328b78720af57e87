---------------------------- MODULE Conversation ----------------------------
(***************************************************************************)
(* AIIntelligenceService.ask of app/ai/service.py with the tool registry   *)
(* of tools.py and the SQL tools of sql_tools.py, while others publish     *)
(* snapshots, evaluations and prices and give and take roles.              *)
(*                                                                         *)
(* A call of ask writes an ACTIVE conversation, asks the model, executes   *)
(* the tools each turn of the model calls for, and writes the answer or    *)
(* the refusal.  Every tool call reads what is committed when it runs.     *)
(* ask only flushes: its caller commits, or rolls back, and may commit     *)
(* what a call that raised an error has left in the session.               *)
(*                                                                         *)
(* A source is what an answer cites: a kind of record, the instant it is   *)
(* of, and its place: a revision, a version, or for an evaluation the      *)
(* place of its commit.                                                    *)
(* Text is modelled by whether it is blank.                                *)
(***************************************************************************)
EXTENDS Naturals, Sequences, FiniteSets

CONSTANTS
    Actor,
    Cutoff,         \* the instants of records, of their creation and of tool arguments
    CallId,         \* provider_call_id of tool calls
    Turn,           \* what the model may answer: see TurnFields
    Session,
    MaxRounds,      \* max_tool_rounds
    MaxCalls,       \* max_tool_calls
    MaxAsks,        \* bound: conversations
    MaxRecords      \* bound: records others publish

Tool ==
    {"get_holdings", "get_exposure", "get_risk", "get_portfolio_snapshot",
     "run_scenario", "get_policy_breaches"}

\* The arguments parse, do not, or have an age no timedelta holds.
Arguments == {"OK", "BAD", "HUGE"}

ToolCall == [id : CallId, tool : Tool \cup {"unknown"}, args : Arguments, at : Cutoff]

TurnFields == [text : BOOLEAN, calls : Seq(ToolCall)]

ASSUME CutoffAssumption == Cutoff \subseteq Nat
ASSUME TurnAssumption == Turn \subseteq TurnFields
ASSUME LimitAssumption == MaxRounds \in Nat \ {0} /\ MaxCalls \in Nat \ {0}

VARIABLES
    permitted,      \* actors who may use the assistant
    revision,       \* revision[t]: the current fund snapshot at t, 0 for none
    evaluations,    \* risk evaluations in the order of their commits: [at, created, risk]
    valuation,      \* valuation[t]: what value_at makes of t: [state, version]
    conversations,  \* committed rows: see ConversationRow
    audits,         \* committed audit events of conversations
    published,      \* records others have published, which the bound is on
    asked,          \* conversations started, which names the next one
    work,           \* work[s]: rows session s has written since its last commit
    call            \* call[s]: the call of ask session s is in

book == <<revision, evaluations, valuation, published>>
stored == <<conversations, audits>>
vars == <<permitted, revision, evaluations, valuation, published, conversations, audits,
          asked, work, call>>

-----------------------------------------------------------------------------
(* The tools.                                                              *)

Source(kind, at, place) == [kind |-> kind, at |-> at, place |-> place]

\* _snapshot: the current fund snapshot at or before the cutoff.
SnapshotSources(at) ==
    LET known == {t \in Cutoff : t <= at /\ revision[t] > 0}
    IN {Source("portfolio_snapshot", t, revision[t]) : t \in {u \in known : \A v \in known : v <= u}}

\* Mutant of Evaluation: created last, whatever it is of.
LastCreated(at) ==
    {i \in DOMAIN evaluations :
        /\ evaluations[i].at <= at
        /\ \A j \in DOMAIN evaluations : evaluations[j].at <= at =>
             evaluations[j].created <= evaluations[i].created}

\* _risk_evaluation: the latest as_of at or before the cutoff and the latest
\* created_at of it.  The caller of the service chooses created_at, and of
\* two that are equal the query returns either.
Evaluation(at) ==
    {i \in DOMAIN evaluations :
        /\ evaluations[i].at <= at
        /\ \A j \in DOMAIN evaluations : evaluations[j].at <= at =>
             \/ evaluations[j].at < evaluations[i].at
             \/ /\ evaluations[j].at = evaluations[i].at
                /\ evaluations[j].created <= evaluations[i].created}

\* What evaluation i gives to cite: get_risk needs one with risk metrics.
EvaluationSources(i, needsRisk) ==
    IF needsRisk => evaluations[i].risk
    THEN {Source("risk_evaluation", evaluations[i].at, i)} ELSE {}

ValuationSources(at) == {Source("portfolio_reconstruction", at, valuation[at].version)}

\* What a tool answers: its status and sources; or it raises an exception
\* that is no ValueError, and ask with it: the age overflows a timedelta, or
\* the scenario divides by the value of an empty portfolio.
Evidence(sources) ==
    IF sources = {} THEN [status |-> "UNAVAILABLE", sources |-> {}]
    ELSE [status |-> "SUCCEEDED", sources |-> sources]

Fails(status) == [status |-> status, sources |-> {}]

\* The answers of a tool that reads one of the latest evaluations, if any.
Evaluated(at, needsRisk) ==
    IF Evaluation(at) = {} THEN {Fails("UNAVAILABLE")}
    ELSE {Evidence(EvaluationSources(i, needsRisk)) : i \in Evaluation(at)}

Valued(c) ==
    CASE valuation[c.at].state = "MISSING" -> Fails("UNAVAILABLE")
      [] valuation[c.at].state = "EMPTY" ->
           Fails(IF c.tool = "run_scenario" THEN "RAISES" ELSE "INVALID")
      [] valuation[c.at].state = "VALUED" -> Evidence(ValuationSources(c.at))

Dispatch(c) ==
    CASE c.tool \in {"get_holdings", "get_portfolio_snapshot"} -> {Evidence(SnapshotSources(c.at))}
      [] c.tool = "get_risk" -> Evaluated(c.at, TRUE)
      [] c.tool = "get_policy_breaches" -> Evaluated(c.at, FALSE)
      [] OTHER -> {IF c.args = "HUGE" THEN Fails("RAISES") ELSE Valued(c)}

Outcomes(c) == IF c.tool = "unknown" \/ c.args = "BAD" THEN {Fails("INVALID")} ELSE Dispatch(c)

-----------------------------------------------------------------------------
(* Conversations.                                                          *)

NoWork == [conversations |-> {}, audits |-> {}]

NoCall == [step |-> "IDLE"]

Idle(s) == call[s].step = "IDLE"

Started(a, id) ==
    [id |-> id, actor |-> a, status |-> "ACTIVE", calls |-> <<>>, message |-> "NONE",
     text |-> FALSE, citations |-> {}]

\* The conversation session s is in.
Own(s) == CHOOSE c \in work[s].conversations : c.id = call[s].id

SourcesOf(calls) == UNION {calls[i].sources : i \in DOMAIN calls}

\* Mutant of Grounded: a successful tool is enough, whatever the prose.
Sourced(sources, text) == sources # {}

Grounded(sources, text) == sources # {} /\ text

\* Mutant of Finished: prose without evidence fails the conversation.
Failed(c, text) ==
    [c EXCEPT !.status = IF Grounded(SourcesOf(c.calls), text) THEN "COMPLETED" ELSE "FAILED",
              !.message = "ASSISTANT", !.text = text, !.citations = SourcesOf(c.calls)]

\* The conversation after its final turn.
Finished(c, text) ==
    LET sources == SourcesOf(c.calls)
        grounded == Grounded(sources, text)
    IN [c EXCEPT !.status = IF grounded THEN "COMPLETED" ELSE "REFUSED",
                 !.message = IF grounded THEN "ASSISTANT" ELSE "REFUSAL",
                 !.text = text,
                 !.citations = sources]

Replace(s, c) == (work[s].conversations \ {Own(s)}) \cup {c}

\* Mutant of Completion: the audit counts the calls that succeeded.
SuccessfulOnly(c) ==
    [id |-> c.id, action |-> "AI_CONVERSATION_COMPLETED", status |-> c.status,
     calls |-> Cardinality({i \in DOMAIN c.calls : c.calls[i].status = "SUCCEEDED"}),
     sources |-> Cardinality(c.citations)]

Completion(c) ==
    [id |-> c.id, action |-> "AI_CONVERSATION_COMPLETED", status |-> c.status,
     calls |-> Len(c.calls), sources |-> Cardinality(c.citations)]

Opening(id) ==
    [id |-> id, action |-> "AI_CONVERSATION_STARTED", status |-> "ACTIVE", calls |-> 0, sources |-> 0]

\* uq_ai_tool_call, for every row a flush of session s would write.
Flushable(s) ==
    \A c \in work[s].conversations : \A i, j \in DOMAIN c.calls :
        c.calls[i].id = c.calls[j].id => i = j

Init ==
    /\ permitted = Actor
    /\ revision = [t \in Cutoff |-> 0]
    /\ evaluations = <<>>
    /\ valuation = [t \in Cutoff |-> [state |-> "MISSING", version |-> 0]]
    /\ published = 0
    /\ conversations = {} /\ audits = {} /\ asked = 0
    /\ work = [s \in Session |-> NoWork]
    /\ call = [s \in Session |-> NoCall]

-----------------------------------------------------------------------------
(* The steps of ask.                                                       *)

\* Permission is required, and the conversation and the question are flushed.
Ask(s, a) ==
    /\ Idle(s) /\ asked < MaxAsks
    /\ a \in permitted
    /\ Flushable(s)
    /\ asked' = asked + 1
    /\ work' = [work EXCEPT ![s].conversations = @ \cup {Started(a, asked + 1)},
                            ![s].audits = @ \cup {Opening(asked + 1)}]
    /\ call' = [call EXCEPT ![s] = [step |-> "REPLY", id |-> asked + 1, rounds |-> 0, pending |-> <<>>]]
    /\ UNCHANGED <<permitted, book, stored>>

\* Mutant of Raise: an error is retried.
Retry(s) == UNCHANGED vars

\* An error leaves ask; what it has added stays in the session.
Raise(s) ==
    /\ call' = [call EXCEPT ![s] = NoCall]
    /\ UNCHANGED <<permitted, book, stored, asked, work>>

\* The model fails, or its answer is no turn.
ProviderFails(s) == call[s].step = "REPLY" /\ Raise(s)

\* The turn after the last permitted round is not looked at.
RoundLimit(s) == call[s].step = "REPLY" /\ call[s].rounds = MaxRounds /\ Raise(s)

CallTools(s, turn) ==
    /\ call[s].step = "REPLY" /\ call[s].rounds < MaxRounds
    /\ turn.calls # <<>>
    /\ call' = [call EXCEPT ![s].step = "AUTHORIZE", ![s].rounds = @ + 1, ![s].pending = turn.calls]
    /\ UNCHANGED <<permitted, book, stored, asked, work>>

Finish(s, turn) ==
    /\ call[s].step = "REPLY" /\ call[s].rounds < MaxRounds
    /\ turn.calls = <<>>
    /\ Flushable(s)
    /\ LET c == Finished(Own(s), turn.text) IN
         work' = [work EXCEPT ![s].conversations = Replace(s, c),
                              ![s].audits = @ \cup {Completion(c)}]
    /\ call' = [call EXCEPT ![s] = NoCall]
    /\ UNCHANGED <<permitted, book, stored, asked>>

AtCall(s) == call[s].step = "AUTHORIZE" /\ call[s].pending # <<>>

OverCallLimit(s) == AtCall(s) /\ Len(Own(s).calls) >= MaxCalls

CallLimit(s) == OverCallLimit(s) /\ Raise(s)

\* The row of a call is added and the next call is at hand.
Record(s, outcome) ==
    LET c == Head(call[s].pending)
        row == [id |-> c.id, tool |-> c.tool, at |-> c.at,
                status |-> outcome.status, sources |-> outcome.sources]
    IN /\ work' = [work EXCEPT ![s].conversations =
                     Replace(s, [Own(s) EXCEPT !.calls = Append(@, row)])]
       /\ call' = [call EXCEPT ![s].step = "AUTHORIZE", ![s].pending = Tail(@)]
       /\ UNCHANGED <<permitted, book, stored, asked>>

Deny(s) ==
    /\ AtCall(s) /\ ~ OverCallLimit(s)
    /\ Own(s).actor \notin permitted
    /\ Record(s, Fails("DENIED"))

Authorize(s) ==
    /\ AtCall(s) /\ ~ OverCallLimit(s)
    /\ Own(s).actor \in permitted
    /\ call' = [call EXCEPT ![s].step = "READ"]
    /\ UNCHANGED <<permitted, book, stored, asked, work>>

ReadTool(s) ==
    /\ call[s].step = "READ"
    /\ \E outcome \in Outcomes(Head(call[s].pending)) :
         IF outcome.status = "RAISES" THEN Raise(s) ELSE Record(s, outcome)

TurnDone(s) == call[s].step = "AUTHORIZE" /\ call[s].pending = <<>>

\* The rows of the turn's calls are flushed and the model gets the results.
Flush(s) ==
    /\ TurnDone(s)
    /\ Flushable(s)
    /\ call' = [call EXCEPT ![s].step = "REPLY"]
    /\ UNCHANGED <<permitted, book, stored, asked, work>>

Undo(s) ==
    /\ work' = [work EXCEPT ![s] = NoWork]
    /\ call' = [call EXCEPT ![s] = NoCall]
    /\ UNCHANGED <<permitted, book, stored, asked>>

\* The model has used an id twice: IntegrityError at the flush, or at the
\* flush of a later statement when an error came first.
FlushFails(s) == ~ Flushable(s) /\ (Idle(s) \/ TurnDone(s)) /\ Undo(s)

\* The caller gives up, or its process dies.
Rollback(s) == (work[s] # NoWork \/ ~ Idle(s)) /\ Undo(s)

\* Mutant of Commit: rows are committed as they are written.
CommitEarly(s) ==
    /\ work[s] # NoWork
    /\ conversations' = conversations \cup work[s].conversations
    /\ audits' = audits \cup work[s].audits
    /\ UNCHANGED <<permitted, book, asked, work, call>>

Commit(s) ==
    /\ Idle(s) /\ work[s] # NoWork
    /\ Flushable(s)
    /\ conversations' = conversations \cup work[s].conversations
    /\ audits' = audits \cup work[s].audits
    /\ work' = [work EXCEPT ![s] = NoWork]
    /\ UNCHANGED <<permitted, book, asked, call>>

Execute(s) ==
    CallLimit(s) \/ Deny(s) \/ Authorize(s) \/ ReadTool(s) \/ Flush(s)

Reply(s) ==
    (\E turn \in Turn : CallTools(s, turn) \/ Finish(s, turn)) \/ ProviderFails(s) \/ RoundLimit(s)

-----------------------------------------------------------------------------
(* What others do meanwhile.                                               *)

Publishing ==
    /\ published < MaxRecords
    /\ published' = published + 1
    /\ UNCHANGED <<permitted, stored, asked, work, call>>

\* SnapshotService commits a revision of the fund's snapshot.
PublishSnapshot(t) ==
    /\ Publishing
    /\ revision' = [revision EXCEPT ![t] = @ + 1]
    /\ UNCHANGED <<evaluations, valuation>>

\* RiskPolicyService commits an evaluation, of risk metrics or not, created
\* when its caller says.
PublishEvaluation(t, created, risk) ==
    /\ Publishing
    /\ evaluations' = Append(evaluations, [at |-> t, created |-> created, risk |-> risk])
    /\ UNCHANGED <<revision, valuation>>

\* Transactions and prices change what the valuation of an instant is.
ChangeValuation(t, state) ==
    /\ Publishing
    /\ valuation' = [valuation EXCEPT ![t] = [state |-> state, version |-> @.version + 1]]
    /\ UNCHANGED <<revision, evaluations>>

ChangeRoles(a) ==
    /\ permitted' = IF a \in permitted THEN permitted \ {a} ELSE permitted \cup {a}
    /\ UNCHANGED <<book, stored, asked, work, call>>

ValuationState == {"MISSING", "EMPTY", "VALUED"}

Others ==
    \/ \E t \in Cutoff : PublishSnapshot(t)
    \/ \E t, created \in Cutoff, risk \in BOOLEAN : PublishEvaluation(t, created, risk)
    \/ \E t \in Cutoff, state \in ValuationState : ChangeValuation(t, state)
    \/ \E a \in Actor : ChangeRoles(a)

Next ==
    \/ \E s \in Session :
         \/ \E a \in Actor : Ask(s, a)
         \/ Reply(s)
         \/ Execute(s)
         \/ FlushFails(s) \/ Rollback(s) \/ Commit(s)
    \/ Others

\* The model answers or the request times out, and ask runs on.
Fairness == \A s \in Session : WF_vars(Reply(s)) /\ WF_vars(Execute(s)) /\ WF_vars(FlushFails(s))

Spec == Init /\ [][Next]_vars

FairSpec == Spec /\ Fairness

-----------------------------------------------------------------------------
(* Properties.                                                             *)

SourceRow ==
    [kind : {"portfolio_snapshot", "risk_evaluation", "portfolio_reconstruction"},
     at : Cutoff, place : Nat]

CallRow ==
    [id : CallId, tool : Tool \cup {"unknown"}, at : Cutoff,
     status : {"SUCCEEDED", "UNAVAILABLE", "DENIED", "INVALID"}, sources : SUBSET SourceRow]

ConversationRow ==
    [id : Nat, actor : Actor, status : {"ACTIVE", "COMPLETED", "REFUSED"}, calls : Seq(CallRow),
     message : {"NONE", "ASSISTANT", "REFUSAL"}, text : BOOLEAN, citations : SUBSET SourceRow]

AuditRow ==
    [id : Nat, action : {"AI_CONVERSATION_STARTED", "AI_CONVERSATION_COMPLETED"},
     status : {"ACTIVE", "COMPLETED", "REFUSED"}, calls : Nat, sources : Nat]

\* Rows, open transactions and calls have the shapes the code gives them;
\* a call of ask is about a conversation of its session that is not over.
TypeOK ==
    /\ permitted \subseteq Actor
    /\ revision \in [Cutoff -> Nat]
    /\ evaluations \in Seq([at : Cutoff, created : Cutoff, risk : BOOLEAN])
    /\ valuation \in [Cutoff -> [state : ValuationState, version : Nat]]
    /\ published \in Nat /\ asked \in Nat
    /\ conversations \subseteq ConversationRow /\ audits \subseteq AuditRow
    /\ work \in [Session -> [conversations : SUBSET ConversationRow, audits : SUBSET AuditRow]]
    /\ call \in [Session ->
         [step : {"REPLY", "AUTHORIZE", "READ"}, id : Nat, rounds : 0..MaxRounds, pending : Seq(ToolCall)]
           \cup {NoCall}]
    /\ \A s \in Session : ~ Idle(s) => Own(s) \in work[s].conversations /\ Own(s).status = "ACTIVE"

\* What a source names has been published.
Published(x) ==
    CASE x.kind = "portfolio_snapshot" -> x.place \in 1..revision[x.at]
      [] x.kind = "risk_evaluation" ->
           x.place \in DOMAIN evaluations /\ evaluations[x.place].at = x.at
      [] x.kind = "portfolio_reconstruction" -> x.place \in 1..valuation[x.at].version

\* Model prose is stored as an answer only with evidence (ADR 0018): it cites
\* exactly the sources of its stored tool calls that succeeded, each of them
\* a record that was committed, and none dated after the cutoff the model
\* asked for, whatever was published while it answered; every other
\* conversation that is over has the refusal.
AnswersGrounded ==
    \A c \in conversations :
        LET successful == {i \in DOMAIN c.calls : c.calls[i].status = "SUCCEEDED"} IN
        /\ c.status # "ACTIVE" => c.citations = UNION {c.calls[i].sources : i \in successful}
        /\ c.status = "COMPLETED" <=> c.message = "ASSISTANT"
        /\ c.status = "COMPLETED" => c.text /\ successful # {}
        /\ c.status = "REFUSED" => ~ c.text \/ successful = {}
        /\ \A i \in DOMAIN c.calls : \A x \in c.calls[i].sources :
             Published(x) /\ x.at <= c.calls[i].at

\* A committed conversation has its trail: its start is audited, its end is
\* audited exactly when it is over, with the number of the calls that were
\* executed and of the sources cited; no call is recorded twice, and there
\* are no more of them than the limit, which an ask that failed and was
\* committed has kept too.
TrailComplete ==
    /\ \A c \in conversations :
         /\ \A d \in conversations : c.id = d.id => c = d
         /\ \E a \in audits : a.id = c.id /\ a.action = "AI_CONVERSATION_STARTED"
         /\ c.status # "ACTIVE" <=>
              \E a \in audits :
                  /\ a.id = c.id /\ a.action = "AI_CONVERSATION_COMPLETED"
                  /\ a.status = c.status /\ a.calls = Len(c.calls)
                  /\ a.sources = Cardinality(c.citations)
         /\ \A i, j \in DOMAIN c.calls : c.calls[i].id = c.calls[j].id => i = j
         /\ Len(c.calls) <= MaxCalls
    /\ \A a \in audits : \E c \in conversations : a.id = c.id

\* What the queries order records of one kind and instant by.
Rank(x) == IF x.kind = "risk_evaluation" THEN evaluations[x.place].created ELSE x.place

\* The tools of one answer read at different moments, and others publish in
\* between, with a created_at that may be backdated or used before, but what a
\* tool reads for a cutoff never goes back: no later call has a record that
\* the record of an earlier one supersedes, though two evaluations with equal
\* times may take turns.
ReadingsAdvance ==
    \A c \in conversations : \A i, j \in DOMAIN c.calls :
        i < j /\ c.calls[i].at = c.calls[j].at /\ c.calls[i].tool = c.calls[j].tool =>
            \A x \in c.calls[i].sources, y \in c.calls[j].sources :
                x.at < y.at \/ (x.at = y.at /\ Rank(x) <= Rank(y))

\* What a citation can name of each kind, up to now.
Numbered(kind, last) == UNION {{Source(kind, t, n) : n \in 1..last[t]} : t \in Cutoff}

PublishedSources ==
    Numbered("portfolio_snapshot", revision)
      \cup {Source("risk_evaluation", evaluations[i].at, i) : i \in DOMAIN evaluations}
      \cup Numbered("portfolio_reconstruction", [t \in Cutoff |-> valuation[t].version])

Archive == INSTANCE AnswerArchive
             WITH filed <- conversations, trail <- audits, records <- PublishedSources

\* The sessions together keep one archive: a conversation that was committed,
\* the unfinished one of an ask that failed too, is never changed nor audited
\* again, and what it cites had been published by then.
ImplementsArchive == Archive!Spec

\* An ask ends, however the model goes on calling tools and whatever others
\* do meanwhile: rounds and calls are limited (service.py 105-116).
AskReturns == \A s \in Session : ~ Idle(s) ~> Idle(s)
=============================================================================
