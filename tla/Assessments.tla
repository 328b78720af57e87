---------------------------- MODULE Assessments ----------------------------
(***************************************************************************)
(* The services that store derived evidence, called by several database    *)
(* sessions: ReconciliationService of app/snapshots/reconciliation.py,     *)
(* RiskPolicyService of app/risk/service.py behind PortfolioRiskPipeline,  *)
(* and ScenarioService of app/scenarios/service.py.                        *)
(*                                                                         *)
(* Each reads its inputs, looks a row up by what it was made from, and     *)
(* answers with it or inserts one.  Observations and reconciliation runs   *)
(* are flushed and their caller commits; evaluations and scenario runs are *)
(* committed by the service, with whatever else the session has written.   *)
(* The unique constraints are PostgreSQL's (see Ledger).                   *)
(*                                                                         *)
(* A column keeps twelve decimals of a value and four of money, and rounds *)
(* the rest away from zero.  What a session has inserted stays in its      *)
(* objects as it was given, until they are expired or dropped.             *)
(*                                                                         *)
(* The hash of an evaluation or a run covers the metrics or the inputs and *)
(* not the policy's rules, which may grow.  The hash of a reconciliation   *)
(* covers the text of every reported value as the session's objects have   *)
(* it.  The snapshot was made by another session and is read as stored.    *)
(***************************************************************************)
EXTENDS Stress

CONSTANTS
    Observation,    \* what may be reported: [id, account, line, value, text, at]; the line
                    \* None is cash, the text tells how the value is written
    Snapshot,       \* [account, at, expected]; the account None is the whole fund
    Tolerance,
    Analysis,       \* what may be evaluated: [book, returns, benchmark, confidence]
    Scenario,       \* rows of scenario_definitions with their shocks
    Execution,      \* what may be executed: [scenario, analysis]
    Rule,           \* rows the policy has or may get: [id, metric, operator, threshold]
    PolicyFrom, PolicyTo,
    Session,
    Grain,          \* what a column keeps of a reported value, in units of Observation
    Cent,           \* what it keeps of money, in units of a book's values
    Places,         \* how many parts of one it keeps of a quotient
    MaxRows         \* bound: rows after which a call that may insert another is not begun

ASSUME MissingAssumption == None \notin Int \cup Quotient
ASSUME KeptAssumption == Grain \in Nat \ {0} /\ Cent \in Nat \ {0} /\ Places \in Nat \ {0}

IsObservation(o) ==
    /\ o = [id |-> o.id, account |-> o.account, line |-> o.line, value |-> o.value, text |-> o.text, at |-> o.at]
    /\ o.line \in Instrument \cup {None} /\ o.value \in Int /\ o.at \in Nat

ASSUME ObservationAssumption == \A o \in Observation : IsObservation(o)
ASSUME SnapshotAssumption ==
    \A p \in Snapshot :
        p.at \in Nat /\ \A line \in DOMAIN p.expected : p.expected[line] \in Int /\ p.expected[line] % Grain = 0
ASSUME ToleranceAssumption == Tolerance \subseteq Int

IsAnalysis(a) ==
    IsBook(a.book) /\ a.returns \in Seq(Quotient) /\ a.benchmark \in Nat /\ a.confidence \in Quotient

ASSUME AnalysisAssumption == \A a \in Analysis : IsAnalysis(a)
ASSUME ExecutionAssumption ==
    /\ \A x \in Scenario : AreShocks(x.shocks)
    /\ \A e \in Execution : e.scenario \in Scenario /\ IsAnalysis(e.analysis)
ASSUME RuleAssumption ==
    \A rule \in Rule :
        /\ rule = [id |-> rule.id, metric |-> rule.metric, operator |-> rule.operator, threshold |-> rule.threshold]
        /\ rule.threshold \in Quotient

VARIABLES
    rules,      \* the rules of the policy
    rows,       \* committed rows: [table, key, content]
    work,       \* work[s]: since its last commit, the rows session s has written, as
                \* stored, and what its calls have answered
    held,       \* held[s]: observations and reconciliation runs, as they were given, whose
                \* objects session s holds
    call        \* call[s]: the call session s is in

vars == <<rules, rows, work, held, call>>

-----------------------------------------------------------------------------
(* What the columns keep.                                                  *)

\* The whole number nearest to n/d, of two the one farther from zero.
Nearest(n, d) == IF n >= 0 THEN (2 * n + d) \div (2 * d) ELSE -((d - 2 * n) \div (2 * d))

Value(v) == Grain * Nearest(v, Grain)

Money(v) == Cent * Nearest(v, Cent)

Share(q) == Ratio(Nearest(q.n * Places, q.d), Places)

-----------------------------------------------------------------------------
(* Rows, as they are given.                                                *)

Row(table, key, content) == [table |-> table, key |-> key, content |-> content]

ObservationRow(o) == Row("observation", o.id, o)

Expected(snapshot, o) ==
    LET line == <<o.account, o.line>>
    IN IF line \in DOMAIN snapshot.expected THEN snapshot.expected[line] ELSE 0

Within(difference, tolerance) == -tolerance <= difference /\ difference <= tolerance

\* What is reported against what the snapshot expects.
Compare(snapshot, tolerance, o) ==
    LET difference == o.value - Expected(snapshot, o)
    IN [observation |-> o.id, expected |-> Expected(snapshot, o), reported |-> o.value,
        difference |-> difference,
        status |-> IF Within(difference, tolerance) THEN "MATCHED" ELSE "BREACH"]

\* Mutant of RunStatus: nothing to compare is no discrepancy.
StatusOfItems(items) == IF \A i \in items : i.status = "MATCHED" THEN "MATCHED" ELSE "BREACH"

RunStatus(items) ==
    CASE items = {} -> "UNAVAILABLE"
      [] items # {} /\ \A i \in items : i.status = "MATCHED" -> "MATCHED"
      [] OTHER -> "BREACH"

\* reconcile: an item for each observation, and the status of the run.  Its
\* hash covers the observations.
ReconciliationRow(snapshot, tolerance, observed) ==
    LET items == {Compare(snapshot, tolerance, o) : o \in observed}
    IN Row("reconciliation",
           [snapshot |-> snapshot, tolerance |-> tolerance, evidence |-> observed],
           [items |-> items, status |-> RunStatus(items)])

\* Mutant of EvaluationKey: the cutoff alone.
CutoffKey(at, metrics) == [at |-> at]

EvaluationKey(at, metrics) == [at |-> at, metrics |-> metrics]

\* The metrics of an analysis, and the comparison of an execution: what the
\* engines make of them, or nothing where they raise an error.
Metered ==
    [a \in {b \in Analysis : Measurable(b.book) /\ Assessable(b.returns, b.benchmark, b.confidence)} |->
        Metrics(a.book, a.returns, a.confidence)]

Compared ==
    [e \in {f \in Execution : LET a == f.analysis IN
              Comparable(f.scenario.shocks, a.book, a.returns, a.benchmark, a.confidence)} |->
        Comparison(e.scenario.shocks, e.analysis.book, e.analysis.returns, e.analysis.confidence)]

EvaluationRow(a) ==
    Row("evaluation", EvaluationKey(a.book.at, Metered[a]), Items(rules, Metered[a]))

ScenarioRow(e) ==
    Row("scenario", e,
        [comparison |-> Compared[e],
         before |-> Items(rules, Compared[e].metrics.before),
         after |-> Items(rules, Compared[e].metrics.after)])

-----------------------------------------------------------------------------
(* Rows, as they are stored.  Statuses were decided on what was given.     *)

StoredObservation(o) == [o EXCEPT !.value = Value(o.value), !.text = "STORED"]

StoredItem(i) ==
    [i EXCEPT !.expected = Value(i.expected), !.reported = Value(i.reported), !.difference = Value(i.difference)]

StoredOutcome(outcome) ==
    IF outcome.observed = None THEN outcome
    ELSE [outcome EXCEPT !.observed = Share(outcome.observed), !.amount = Share(outcome.amount)]

StoredOutcomes(items) == [rule \in DOMAIN items |-> StoredOutcome(items[rule])]

StoredPosition(result) ==
    [before |-> Money(result.before), after |-> Money(result.after),
     pnl |-> Money(result.after - result.before),
     impact |-> Share(Ratio(result.impact, Unit)), evidence |-> result.evidence]

\* The weights, the risk and what the policy says are kept as text, exactly.
StoredComparison(run) ==
    [baseline |-> Money(run.baseline), projected |-> Money(run.projected), pnl |-> Money(run.pnl),
     return |-> Share(Ratio(run.pnl, run.baseline)),
     positions |-> [p \in DOMAIN run.positions |-> StoredPosition(run.positions[p])],
     weights |-> run.weights, risk |-> run.risk]

Stored(row) ==
    CASE row.table = "observation" -> Row(row.table, row.key, StoredObservation(row.content))
      [] row.table = "reconciliation" ->
           Row(row.table, [row.key EXCEPT !.tolerance = Value(row.key.tolerance)],
               [row.content EXCEPT !.items = {StoredItem(i) : i \in row.content.items}])
      [] row.table = "evaluation" -> Row(row.table, row.key, StoredOutcomes(row.content))
      [] row.table = "scenario" ->
           Row(row.table, row.key,
               [row.content EXCEPT !.comparison = StoredComparison(row.content.comparison)])

\* ck_scenario_run_values.
Storable(row) ==
    row.table = "scenario" =>
        Money(row.content.comparison.baseline) > 0 /\ Money(row.content.comparison.projected) > 0

-----------------------------------------------------------------------------
(* What a session sees and holds.                                          *)

NoWork == [rows |-> {}, answers |-> {}]

NoCall == [step |-> "IDLE"]

Idle(s) == call[s].step = "IDLE"

Visible(s) == rows \cup work[s].rows

\* A query that selects rows answers with the objects the session holds of
\* them, which are as they were given, and with the other rows as stored.
Answer(s, selected) ==
    LET objects == {g \in held[s] : Stored(g) \in selected}
    IN objects \cup (selected \ {Stored(g) : g \in objects})

SameKey(a, b) == a.table = b.table /\ a.key = b.key

\* The database compares what it keeps with what is asked for.
Existing(s, row) == Answer(s, {r \in Visible(s) : SameKey(r, row)})

\* The observations reconcile reads.
Applicable(s, snapshot) ==
    {r.content : r \in Answer(s, {q \in Visible(s) :
        /\ q.table = "observation" /\ q.content.at = snapshot.at
        /\ snapshot.account \in {None, q.content.account}})}

Init ==
    /\ rules = {}
    /\ rows = {}
    /\ work = [s \in Session |-> NoWork]
    /\ held = [s \in Session |-> {}]
    /\ call = [s \in Session |-> NoCall]

-----------------------------------------------------------------------------
(* uq_reconciliation_observation_source, uq_reconciliation_run,            *)
(* uq_risk_evaluation_input and uq_scenario_run_input.                     *)

WaitsFor(s, u) ==
    u # s /\ call[s].step = "INSERT" /\ \E r \in work[u].rows : SameKey(r, Stored(call[s].row))

\* Mutant of Violates: uq_risk_evaluation_input and uq_scenario_run_input are missing.
SourceTaken(s) ==
    /\ call[s].step = "INSERT" /\ call[s].row.table \in {"observation", "reconciliation"}
    /\ \E r \in Visible(s) : SameKey(r, Stored(call[s].row))

Violates(s) == call[s].step = "INSERT" /\ \E r \in Visible(s) : SameKey(r, Stored(call[s].row))

-----------------------------------------------------------------------------
(* The calls.                                                              *)

\* A call has read its inputs and computed the row it is to find or insert;
\* one that raises an error on the way has changed nothing.
Begin(s, row) ==
    /\ Idle(s)
    /\ Cardinality(rows \cup UNION {work[u].rows : u \in Session} \cup {Stored(row)}) <= MaxRows
    /\ call' = [call EXCEPT ![s] = [step |-> "LOOKUP", row |-> row]]
    /\ UNCHANGED <<rules, rows, work, held>>

Observe(s, o) == (o.line # None => o.value >= 0) /\ Begin(s, ObservationRow(o))

Reconcile(s, snapshot, tolerance) ==
    tolerance >= 0 /\ Begin(s, ReconciliationRow(snapshot, tolerance, Applicable(s, snapshot)))

Effective(at) == PolicyFrom <= at /\ at < PolicyTo

Analyze(s, a) == a \in DOMAIN Metered /\ Effective(a.book.at) /\ Begin(s, EvaluationRow(a))

Execute(s, e) ==
    e \in DOMAIN Compared /\ Effective(e.analysis.book.at) /\ Begin(s, ScenarioRow(e))

Return(s) == call' = [call EXCEPT ![s] = NoCall]

\* What a call that found row r answers: the observation, the run with its
\* items, or the id of r with what the call has computed itself.
Reused(s, r) == IF r.table \in {"observation", "reconciliation"} THEN r ELSE call[s].row

\* Evidence of one identity disagrees, however its values are written.
Conflicts(o, p) == o # [p EXCEPT !.text = o.text]

Find(s) ==
    /\ call[s].step = "LOOKUP"
    /\ \E r \in Existing(s, call[s].row) :
         IF r.table = "observation" /\ Conflicts(r.content, call[s].row.content)
         THEN UNCHANGED work
         ELSE work' = [work EXCEPT ![s].answers = @ \cup {Reused(s, r)}]
    /\ Return(s)
    /\ UNCHANGED <<rules, rows, held>>

Miss(s) ==
    /\ call[s].step = "LOOKUP" /\ Existing(s, call[s].row) = {}
    /\ call' = [call EXCEPT ![s].step = "INSERT"]
    /\ UNCHANGED <<rules, rows, work, held>>

Committing == {"evaluation", "scenario"}

Free(s) == ~ Violates(s) /\ \A u \in Session : ~ WaitsFor(s, u)

Insert(s) ==
    /\ call[s].step = "INSERT" /\ Storable(call[s].row) /\ Free(s)
    /\ LET row == call[s].row IN
         /\ work' = [work EXCEPT ![s].rows = @ \cup {Stored(row)},
                                 ![s].answers = @ \cup {row}]
         /\ held' = [held EXCEPT ![s] = @ \cup (IF row.table \in Committing THEN {} ELSE {row})]
         /\ call' = [call EXCEPT ![s] =
              IF row.table \in Committing THEN [step |-> "COMMIT", row |-> row] ELSE NoCall]
    /\ UNCHANGED <<rules, rows>>

\* Mutant of KeptObjects: a rollback keeps the objects of what it undoes.
AllObjects(s) == held[s]

\* A rollback drops or expires every object of the session.
KeptObjects(s) == {}

\* The session's transaction is undone, with every answer it gave.
Undo(s) ==
    /\ work' = [work EXCEPT ![s] = NoWork]
    /\ held' = [held EXCEPT ![s] = KeptObjects(s)]
    /\ Return(s)
    /\ UNCHANGED <<rules, rows>>

\* IntegrityError from the flush.
InsertFails(s) == call[s].step = "INSERT" /\ (Violates(s) \/ ~ Storable(call[s].row)) /\ Undo(s)

\* The caller gives up, its process dies, or PostgreSQL ends a circle of
\* waiting sessions.
Rollback(s) == (work[s] # NoWork \/ ~ Idle(s)) /\ Undo(s)

Settle(s) ==
    /\ rows' = Visible(s)
    /\ work' = [work EXCEPT ![s] = NoWork]
    /\ UNCHANGED <<rules, held>>

\* The results of a scenario's positions are flushed by the commit.
Resulting(s) == call[s].row.table = "scenario" => Recordable(call[s].row.key.analysis.book)

\* The service commits what the session has written.
CommitOwn(s) == call[s].step = "COMMIT" /\ Resulting(s) /\ Settle(s) /\ Return(s)

\* IntegrityError from that flush.
CommitFails(s) == call[s].step = "COMMIT" /\ ~ Resulting(s) /\ Undo(s)

\* Its caller does.
Commit(s) == Idle(s) /\ work[s] # NoWork /\ Settle(s) /\ UNCHANGED call

\* Nobody refers to the object of a row any more.
Release(s, row) ==
    /\ row \in held[s]
    /\ held' = [held EXCEPT ![s] = @ \ {row}]
    /\ UNCHANGED <<rules, rows, work, call>>

\* The policy gets another rule.
AddRule(rule) ==
    /\ \A r \in rules : r.metric # rule.metric
    /\ rules' = rules \cup {rule}
    /\ UNCHANGED <<rows, work, held, call>>

BeginCall(s) ==
    \/ \E o \in Observation : Observe(s, o)
    \/ \E p \in Snapshot, t \in Tolerance : Reconcile(s, p, t)
    \/ \E a \in Analysis : Analyze(s, a)
    \/ \E e \in Execution : Execute(s, e)

Next ==
    \/ \E s \in Session :
         \/ BeginCall(s)
         \/ Find(s) \/ Miss(s) \/ Insert(s) \/ CommitOwn(s)
         \/ InsertFails(s) \/ CommitFails(s) \/ Rollback(s) \/ Commit(s)
         \/ \E row \in held[s] : Release(s, row)
    \/ \E rule \in Rule : AddRule(rule)

Spec == Init /\ [][Next]_vars

-----------------------------------------------------------------------------
(* Properties.                                                             *)

Table == {"observation", "reconciliation", "evaluation", "scenario"}

IsRow(r) == r = Row(r.table, r.key, r.content) /\ r.table \in Table

\* Rows, open transactions and calls have the shapes the code gives them; a
\* call at its commit has flushed its row, and the objects a session holds
\* are of rows it sees.
TypeOK ==
    /\ rules \subseteq Rule /\ \A r, q \in rules : r.metric = q.metric => r = q
    /\ \A r \in rows : IsRow(r)
    /\ work = [s \in Session |-> [rows |-> work[s].rows, answers |-> work[s].answers]]
    /\ held = [s \in Session |-> held[s]]
    /\ call = [s \in Session |-> call[s]]
    /\ \A s \in Session :
         /\ \A r \in work[s].rows \cup work[s].answers \cup held[s] : IsRow(r)
         /\ call[s].step \in {"IDLE", "LOOKUP", "INSERT", "COMMIT"}
         /\ Idle(s) => call[s] = NoCall
         /\ ~ Idle(s) => call[s] = [step |-> call[s].step, row |-> call[s].row] /\ IsRow(call[s].row)
         /\ call[s].step = "COMMIT" =>
              Stored(call[s].row) \in work[s].rows /\ call[s].row.table \in Committing
         /\ \A g \in held[s] : Stored(g) \in Visible(s)

\* Outcomes under two states of the rules: a rule that both have has one.
SameOutcomes(a, b) == \A rule \in DOMAIN a \cap DOMAIN b : a[rule] = b[rule]

Agree(table, a, b) ==
    CASE table \in {"observation", "reconciliation"} -> a = b
      [] table = "evaluation" -> SameOutcomes(a, b)
      [] table = "scenario" ->
           /\ a.comparison = b.comparison
           /\ SameOutcomes(a.before, b.before) /\ SameOutcomes(a.after, b.after)

\* An answer, found or fresh, is of a row its session sees, and says what the
\* columns keep of that row and nothing else: digits that the columns drop
\* apart, a found evaluation or scenario run is answered with outcomes computed
\* afresh (risk/service.py 60-61, scenarios/service.py 111-112), which differ
\* from the stored ones at most in rules that were added in between.
AnswersStand ==
    \A s \in Session : \A a \in work[s].answers :
        \E r \in Visible(s) : SameKey(r, Stored(a)) /\ Agree(a.table, r.content, Stored(a).content)

\* The conservative nearest rank of ADR 0012: no loss, or the least loss that
\* a share of the sample as large as the confidence does not exceed.
IsQuantile(var, returns, confidence) ==
    LET Below(x) == {i \in DOMAIN returns : ~ Less(x, Minus(returns[i]))}
        Covers(x) == Cardinality(Below(x)) * confidence.d >= confidence.n * Len(returns)
    IN /\ Covers(var)
       /\ \A i \in DOMAIN returns : Covers(Minus(returns[i])) => ~ Less(Positive(Minus(returns[i])), var)

RiskSound(risk, returns, confidence) ==
    /\ IsQuantile(risk.var, returns, confidence)
    /\ ~ Less(risk.shortfall, risk.var)

\* A rule whose metric is missing is UNAVAILABLE, and never passes.
ItemsSound(items, metrics) ==
    \A rule \in DOMAIN items :
        /\ items[rule].status = "UNAVAILABLE" <=> rule.metric \notin DOMAIN metrics
        /\ items[rule].status = "BREACH" <=> items[rule].amount # None /\ Less(Zero, items[rule].amount)

\* An evaluation decides on the metrics as they were given: a stored breach
\* may have the amount zero.  But no status is against the figures beside it.
EvaluationSound(items, metrics) ==
    \A rule \in DOMAIN items :
        LET item == items[rule]
            kept == Breach([rule EXCEPT !.threshold = Share(rule.threshold)], item.observed)
        IN /\ item.status = "UNAVAILABLE" <=> rule.metric \notin DOMAIN metrics
           /\ item.status = "BREACH" <=>
                rule.metric \in DOMAIN metrics /\ Less(Zero, Breach(rule, metrics[rule.metric]))
           /\ item.status = "BREACH" => ~ Less(kept, Zero) /\ ~ Less(item.amount, Zero)
           /\ item.status = "PASS" => ~ Less(Zero, kept) /\ item.amount.n = 0

\* A comparison as the engines make it.
ScenarioSound(e, run) ==
    LET a == e.analysis IN
    /\ run.baseline > 0 /\ run.projected > 0
    /\ run.pnl = SumFunction([p \in DOMAIN run.positions |-> run.positions[p].after - run.positions[p].before])
    /\ \A p \in DOMAIN run.positions :
         LET result == run.positions[p] IN
         /\ result.after >= 0
         /\ Unit * (result.after - result.before) = result.before * result.impact
         /\ result.impact = SumFunction([shock \in result.evidence |-> Impact(shock, InstrumentOf(p), a.book.at)])
    /\ \A d \in Dimension :
         /\ SumFunction([c \in DOMAIN run.weights[d] |-> run.weights[d][c].before]) = run.baseline
         /\ SumFunction([c \in DOMAIN run.weights[d] |-> run.weights[d][c].after]) = run.projected
    /\ RiskSound(run.risk.before, a.returns, a.confidence)
    /\ RiskSound(run.risk.after, Append(a.returns, Ratio(run.pnl, run.baseline)), a.confidence)

\* x and y differ by half of size at most.
Near(x, y, size) == -size <= 2 * (x - y) /\ 2 * (x - y) <= size

\* A comparison as it is stored.  Each amount of money is rounded by itself:
\* a profit is the difference of two others up to three halves of a cent, and
\* the profits of the positions add up to that of the run up to half a cent
\* for each and for the run.
StoredScenarioSound(e, run) ==
    LET a == e.analysis IN
    /\ run.baseline > 0 /\ run.projected > 0
    /\ Near(run.projected - run.baseline, run.pnl, 3 * Cent)
    /\ Near(SumFunction([p \in DOMAIN run.positions |-> run.positions[p].pnl]), run.pnl,
            SumFunction([p \in DOMAIN run.positions |-> Cent]) + Cent)
    /\ \A p \in DOMAIN run.positions :
         LET result == run.positions[p] IN
         /\ result.before >= 0 /\ result.after >= 0
         /\ Near(result.after - result.before, result.pnl, 3 * Cent)
         /\ result.impact =
              Share(Ratio(SumFunction([shock \in result.evidence |-> Impact(shock, InstrumentOf(p), a.book.at)]), Unit))
    /\ \A d \in Dimension :
         /\ Money(SumFunction([c \in DOMAIN run.weights[d] |-> run.weights[d][c].before])) = run.baseline
         /\ Money(SumFunction([c \in DOMAIN run.weights[d] |-> run.weights[d][c].after])) = run.projected
    /\ Recordable(a.book)
    /\ RiskSound(run.risk.before, a.returns, a.confidence)
    /\ LET sample == StressedReturns(e.scenario.shocks, a.book, a.returns) IN
         RiskSound(run.risk.after, sample, a.confidence) /\ run.return = Share(sample[Len(sample)])

\* A reconciliation compares each observation in its hash once.  A status was
\* decided before rounding, but not against the figures beside it.
RunSound(key, run) ==
    /\ {i.observation : i \in run.items} = {o.id : o \in key.evidence}
    /\ \A i, j \in run.items : i.observation = j.observation => i = j
    /\ \A i \in run.items :
         /\ Near(i.reported - i.expected, i.difference, 2 * Grain)
         /\ i.status = "MATCHED" => Within(i.difference, key.tolerance)
         /\ i.status = "BREACH" => key.tolerance <= i.difference \/ i.difference <= -key.tolerance
    /\ run.status = "UNAVAILABLE" <=> key.evidence = {}
    /\ run.status = "BREACH" <=> \E i \in run.items : i.status = "BREACH"

\* The hash may tell apart what is the same evidence, so that there is more
\* than one run of it.
SameEvidence(a, b) ==
    /\ a.table = "reconciliation" /\ b.table = "reconciliation"
    /\ a.key.snapshot = b.key.snapshot /\ a.key.tolerance = b.key.tolerance
    /\ {e.id : e \in a.key.evidence} = {e.id : e \in b.key.evidence}

\* Two such runs compare the same figures, and their differences are one grain
\* apart at most; where that is on both sides of the tolerance they may differ
\* in status.
Alike(a, b) ==
    \A i \in a.items, j \in b.items : i.observation = j.observation =>
        /\ i.expected = j.expected /\ i.reported = j.reported
        /\ Near(i.difference, j.difference, 2 * Grain)

\* What is stored is what its key says it was made from, as far as the columns
\* keep it: a reconciliation run has an item for each observation in its hash
\* and a status its figures do not contradict, and two runs of one evidence
\* agree up to a grain (reconciliation.py 228-243 hashes the text of a value,
\* which the database rounds and writes in its own way); an evaluation and a
\* scenario run never pass a rule without its metric; the profits and the
\* weights of a scenario add up, before and after, up to the rounding, from the
\* shocks on record, and its losses are the quantile and the tail of ADR 0012.
StoredSound ==
    /\ \A a, b \in rows : SameEvidence(a, b) => Alike(a.content, b.content)
    /\ \A r \in rows :
        CASE r.table = "observation" -> TRUE
          [] r.table = "reconciliation" -> RunSound(r.key, r.content)
          [] r.table = "evaluation" -> EvaluationSound(r.content, r.key.metrics)
          [] r.table = "scenario" ->
               /\ StoredScenarioSound(r.key, r.content.comparison)
               /\ ItemsSound(r.content.before, Compared[r.key].metrics.before)
               /\ ItemsSound(r.content.after, Compared[r.key].metrics.after)

Store == INSTANCE EvidenceStore WITH stored <- rows

\* The services together keep one store of evidence.
ImplementsStore == Store!Spec
=============================================================================
