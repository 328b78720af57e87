# HawkFundOS: a TLA+ verification project

HawkFundOS is the investment platform of a student-managed fund: a modular
monolith in Python (`src/apps/api/app`) over one PostgreSQL database. There is
no HTTP surface for the domain yet: `main.py` serves two health endpoints, and
the services are called in process, each with a SQLAlchemy session. What is
hard happens in two places: between sessions and the database, where services
read, decide and write with other sessions committing in between, and inside
the pure engines, which replay a ledger in an order no test has tried. This
project models both, checks the models with TLC and proves the most important
properties with TLAPS.

    tlc -workers 2 -config Governance.cfg MCGovernance.tla
    tlapm GovernanceProofs.tla

## 1. Inventory

| Component | State | Operations | Hard behaviour | What makes it correct |
|---|---|---|---|---|
| **governance** `governance/service.py`, `authorization.py`, migration 0008 | proposals with a row version, content versions, analyses, reviews, transitions; a copy of the proposal in each session | create, revise, record_analysis, submit, start_review, record_review, request_changes, approve, reject, withdraw | stale copies; checks several queries before the compare-and-swap; evidence chosen by timestamp and random id | a gapless history; no lost commit; final decisions; separation of duties; decisions rest on evidence |
| **ledger** `ledger/*.py`, migration 0002 | transactions and their status, import conflicts | create (look-up, validation, insert with the status of a reversed target) | three statements of a call, other sessions between them; unique indexes that wait and fail; one error loses a whole import | an identity posted once, a fact reversed once, one active opening; answers stay true |
| **imports** `imports/csv_pipeline.py`, `provenance.py`, migration 0003 | batches, records of rows, conflicts | import_text | retries after an exception; rows that end the batch; two imports of one file | a file is one batch; every row has one outcome |
| **portfolio** `portfolio/engine.py` | cash, positions, recorded effects, reversed targets | reconstruct | reversals long after the fact; average cost; unknown cost | conservation; long-only; a known cost covers what is held; scopes independent |
| **valuation** `valuation/*.py` | effects of sales, their total, sales of unknown cost | value_at, realized profit | a second replay beside the portfolio's | the two replays explain one value |
| **snapshots** `snapshots/service.py`, migration 0004 | revisions of a snapshot per scope and cutoff | create, verify | ledger and current snapshot read in two statements; hash over text | one CURRENT; one growing chain; reproducible |
| **reconciliation** `snapshots/reconciliation.py`, migration 0004 | observations, runs, items | record_observation, reconcile | two sessions reconcile the same evidence; hash over text; columns that round what was compared | a run is what its evidence makes it, up to the rounding of the columns |
| **market data** `market_data/service.py`, `csv_provider.py`, migration 0005 | batches, prices, price conflicts, identifiers | ingest, latest_quote | errors half way through a batch; restatements; identifiers that change hands; rounding columns | an observation has one price; counts and results are true; quotes move only to new observations |
| **risk policies** `risk/service.py`, `policy.py`, `pipeline.py`, migration 0006 | policies, rules, stored evaluations | analyze, evaluate_and_record | rules that change after an evaluation; a commit inside the service | an answer differs from the stored row in digits the columns drop and in added rules at most |
| **exposure and risk arithmetic** `exposures/*.py`, `risk/engine.py` | none | weights, concentration, value at risk, shortfall | ranks, ties, empty tails | their definitions |
| **scenarios** `scenarios/*.py`, migration 0007 | stored runs and results of positions | preview, execute | a hash that leaves the rules out; results flushed by the commit | profits and weights add up, to the rounding of the columns, from the shocks on record |
| **AI assistant** `ai/*.py`, migration 0009 | conversations, messages, tool calls, audit events | ask, six tools | rounds and calls that must end; exceptions between rounds; roles revoked, records published meanwhile | grounded, permissioned, audited, bounded |
| **sessions** `db.py` | identity map | get, commit, rollback | `expire_on_commit=False` | modelled where it bites |
| **schema** `models.py`, migration 0001 | constraints, triggers | | | modelled where it bites |
| **analytics, liquidity** `analytics/engine.py`, `governance/liquidity.py` | none | roots and quotients of decimals | | not modelled |
| **the rest** `main.py`, `observability.py`, fixtures, web client, `infra/`, `scripts/` | none of the domain's | | I/O | not modelled |

**How they interact.** An import calls `TransactionService.create` once for
each row and commits them together; the same call with a batch records
conflicts as evidence. Snapshots, valuation and the pipelines of risk and
scenarios read the ledger and call `PortfolioEngine.reconstruct`, a function of
what they read; valuation adds the latest quotes. Risk evaluations and scenario
runs are functions of a valuation, a sample of returns, classifications and the
rules of a policy. A proposal is bound to a risk evaluation and, optionally, a
scenario run, which it reads and never writes. The assistant's tools read
snapshots, evaluations and valuations and write nothing but its own
conversation. Ledger, imports, snapshots, reconciliation and assistant flush
and leave the commit to their caller; market data, risk, scenarios and
governance commit themselves, with whatever else the session has written. So the
only shared state is the database, and the only messages are commits,
unique-index waits, and the errors of PostgreSQL and its triggers.

## 2. Modules

| Module | Models | Composes |
|---|---|---|
| `ProposalWorkflow` | the workflow ADR 0016 promises | |
| `Governance` | `ProposalService` in several sessions, the triggers of 0008 | implements `ProposalWorkflow` |
| `LedgerBook` | what the ledger promises its readers | |
| `Ledger` | `TransactionService.create` in several sessions, the indexes of 0002 | implements `LedgerBook` |
| `ImportArchive` | what the documents promise of imported facts and their evidence | |
| `Imports` | `import_text` in several sessions, the uniqueness of a batch | extends `Ledger`, whose calls its rows are; implements `ImportArchive` and, through `Ledger`, `LedgerBook` |
| `Portfolio` | `PortfolioEngine.reconstruct` | |
| `PortfolioScopes` | the fund's reconstruction seen from one account | implements `Portfolio` of that account |
| `Valuation` | the realized profit's replay and the value of what is held | extends `Portfolio`, whose steps its own are |
| `SnapshotHistory` | what the snapshots of one scope and cutoff promise | |
| `Snapshots` | `SnapshotService.create` and `verify` in several sessions, beside postings | implements `SnapshotHistory` |
| `PriceBook` | what the price tables promise a valuation | |
| `MarketData` | `ingest` and `latest_quote` in several sessions, the CSV provider | implements `PriceBook` |
| `Stress` | exposure, risk, policy and scenario engines on exact quotients | |
| `EvidenceStore` | what the tables of derived evidence promise | |
| `Assessments` | reconciliation, policy evaluation and scenario execution in several sessions | extends `Stress`; implements `EvidenceStore` |
| `AnswerArchive` | what stored conversations promise whoever reads them later | |
| `Conversation` | `ask` with its tools, while others publish and roles change | reads what `Snapshots`, `Assessments` and `Valuation` model, as versions; implements `AnswerArchive` |
| `MC...` | model values of each for TLC | |
| `Sums` | finite sums and folds, for the proofs | |
| `...Proofs` | theorems and proofs of each (`PortfolioProofs` also of `Valuation`, `LedgerProofs` also of `Imports`) | `PortfolioProofs` and `AssessmentsProofs` extend `Sums` |

### What every session model assumes of SQLAlchemy and PostgreSQL

Code outside `src/` is modelled as `src/` uses it.

- READ COMMITTED, PostgreSQL's default, which nothing in `db.py` changes: a
  statement sees what is committed when it starts and what its own transaction
  has written.
- The identity map keeps a copy that was loaded. `expire_on_commit=False`
  (`db.py:14`): a commit leaves it as it is. A rollback expires it. It refers to
  objects weakly: one the caller lets go of is loaded again.
- A bulk UPDATE (`_advance`) synchronizes by evaluating its WHERE on the
  session's copies: only a copy at the expected row version is brought in
  line. Assignments to any other copy make it dirty, and the flush sends a
  second UPDATE.
- A unit of work sends UPDATEs of a table before its INSERTs here: a snapshot
  is superseded before its successor is inserted, as partial unique indexes need.
- An INSERT that clashes with an uncommitted row of another transaction waits
  for its end; one that clashes with a committed row raises `IntegrityError`,
  and the whole transaction is lost; of transactions that wait in a circle one
  is aborted.

### Governance

One proposal, since the commands of one touch no rows of another. `proposal`
is the row, `cached[s]` the copy in session `s`, `pending[s]` a command whose
reads are done and whose write is not. A command is therefore two
actions. The first (`Revise`, `RecordAnalysis`, `Submit`, `Approve`, ...) checks
role, owner, status, time and evidence: the proposal on the session's copy, and
analyses and reviews in the database. The second (`CommitRevision`,
`CommitAnalysis`, `CommitReview`, `CommitStatus`, or `Conflict`) is `_advance`,
flush, the trigger `protect_proposal_identity` and commit, one step because the
row lock is held from the UPDATE to the commit. `Close` is the end of a session
or its process at any moment. Roles, cutoffs and evidence are constants; titles,
lines and comments are left out.

### Ledger

`ledger` is the committed table, `work[s]` what a session has written since its
last commit (rows, targets marked REVERSED, conflict evidence) with the answers
it gave, `call[s]` the statement it has reached. `Duplicate`, `RecordConflict`
and `Lookup` are the outcomes of the look-up by identity, `Validate` the query of
the opening or reversal check, `Post` and `InsertFails` the flush. A command
that `validate_transaction` refuses changes nothing and is left out by `Valid`,
as is a call whose import batch `_validate_import_batch` refuses. Payload
hashes are compared, so a command stands for its payload.

### Imports

`Imports` extends `Ledger`: every row that can be normalized is a call of `create`
in the session of its import, statement by statement, so other sessions post,
wait and commit between any two statements of an import. `importing[s]` is the
import of session `s`: the step it has reached, the row it is at, its counts, and
the batch and the records it has written; `batches` and `records` are what is
committed. `Reuse` and `Start` are the look-up by content hash, `OpenBatch` or
`FlushFails` the flush of the batch, `RowRefused`, `RowRaises`, `RowDuplicate`,
`RowConflict`, `RowRejected` and `RowPosted` the ends of a row, `Finish` the last
flush. `import_text` never commits: `CommitImport`, `Abandon` and the lost
transaction of `FlushFails` and `DeadlockBroken` are its caller's. A caller may
commit what an import left when it raised, since nothing in the code says
otherwise; after an exception the session is usable.

A row is the command it normalizes to, `Malformed`, or `NotANumber`, whose
comparison raises. All sessions are imports of one fund and one source; postings
by hand are in `Ledger`'s own run. The `conflict_count` of a PROCESSING batch,
which the ledger raises and the last flush overwrites, is not kept. Amounts the
database cannot store, such as Infinity, are not modelled.

### Portfolio and Valuation

A step of `Portfolio` applies one transaction that has not been applied, in any
order: the engine sorts by timestamps, which may be any, so every order is one
the program can meet. `effects` is the engine's own record of what each original
did and `failed` the exception that ends a replay. Decimals are integers of an
arbitrary unit. Python keeps 28 significant digits and rounds every operation half
to even. Amounts of the ledger are multiples of `Grain`, and their products and sums
are exact (a ledger of amounts long enough to use all 28 digits is outside the model);
a quotient uses all the digits, so what it is part of may miss the exact value either
way, by `Slack`, and any result within it is a step of the model: `Near` is what a
basis removed may come to (`Removable`), `Totals` what a sum may. A sum of multiples of
`Grain`, or with zero, is exact, and a sum keeps its sign. So a full sale may remove more
than the cost, and raise `NEGATIVE_COST_BASIS`, or leave a residue, as in the code. The
sums of the result from which nothing else is computed (`PortfolioValue`,
`Unrealized`) are taken exactly.

`Valuation` adds `RealizedPnlEngine`: `profits` (its `effects`), `realized` (its
`total`) and `doubtful` (its `active_unknown_sales`). The code reconstructs the
prefix before each sale; the prefix of a replay is the state of the replay, so
`Value` takes a transaction in both replays at once: `Realize` for a sale,
`TakeBack` for a reversal. `value_at` reconstructs before it computes a profit,
so no profit is taken of a transaction that fails. `Open`, `MarketValue`,
`PortfolioValue`, `Unrealized` and `Realized` are the result. `Price` is a
constant: which quote is the latest is `LatestQuote` of `MarketData`. The age of
a quote, currencies and warnings are left out.

### Snapshots

One scope and one cutoff. `create` is three statements: `ReadLedger` (with the
replay, a pure function of what it reads), `Reuse` or `ReadCurrent`, and `Flush`
or `FlushFails`. The input of a revision is the rendering of each fact it read,
since the hash covers the text of amounts: as given, in the session that posted
the fact and still holds the object, and as stored everywhere else. Every fact
is taken to be spelled differently as given and as stored, as `fees` of
`Decimal("0")` against `0.0000` always is. A ledger that cannot be replayed
raises before anything is written and is left out. `verify` writes nothing: it is
the property `Reproducible`.

### MarketData

`batches`, `prices` and `conflicts` are the committed tables; `work[s]` is what a
session has written and `call[s]` the call it is in. `LookupBatch` answers a
request that was seen before, or goes on; `Open` is the flush of the RECEIVED
batch with the answer of the provider; a row is `RefuseRow` (no instrument, or
not valid), `Duplicate`, `RecordConflict` or `LookupPrice` with `Insert`;
`Complete` sets the counts and the status and commits. `FlushFails` and
`AbortedByDeadlock` lose the transaction; an error of the provider ends the call
and leaves the batch in the session, as an exception does in the code, and the
caller may roll back or call again. No code in `src/` but the tests calls
`ingest`, so nothing fixes what a caller does.

Prices are whole numbers of a unit `Scale` times finer than the column, so
`Stored` rounds as Numeric(28, 8) does. `Resolved` is the choice among the
identifiers in effect; `FetchPrices` is the CSV provider, and what any other
provider may answer is the constant `Fetched`. `LatestQuote` is the set of quotes
the query may put first: it has one member, since the unique constraint leaves
no tie for the random id to break.

### Stress and Assessments

`Stress` has no state. Its operators are the engines on exact quotients: weights,
Herfindahl index and categories (`ExposureEngine`), value at risk by nearest rank
and expected shortfall (`RiskEngine`), `Items` (`PolicyEngine`: a rule passes, is
breached or is UNAVAILABLE), and shocks, projections and the comparison before
and after (`ScenarioEngine`, `BeforeAfterEngine`). What the engines refuse is
`Measurable`, `Assessable` and `Comparable`. The division of zero by zero that an
empty tail of losses leads to is not refused but an exception in the code; either
way nothing is stored.

`Assessments` runs the three services that store what they derive. `rows` is the
union of their tables: a row has a table, a key (what its unique constraint
covers) and a content, as the columns keep them. `Observe`, `Reconcile`, `Analyze` and `Execute` are the
calls up to their look-up, `Find` the answer with a stored row, `Miss` the lack of
one, `Insert` or `InsertFails` the flush. `Resulting`, `CommitOwn` and
`CommitFails` are the commit inside the service of risk and scenarios: it flushes
the results of the positions of a scenario run, whose unique constraint fails for
a fund that holds one instrument in two accounts. `Commit` and `Rollback` are the
caller's. `AddRule` changes the policy under the services' feet.

What the columns keep is part of it. A call makes a row as it is given, `Stored` is
what the database makes of it: Numeric(28, 12) rounds what is reported, expected and
observed, differences, tolerances and breach amounts (`Value`, `Share`),
Numeric(28, 4) rounds each amount of a scenario run by itself (`Money`), and the
statuses, which were decided on the unrounded numbers, stay. The constants `Grain`,
`Cent` and `Places` say how coarse that is. `ck_scenario_run_values` looks at the
rounded amounts (`Storable`). A session that has flushed an observation or a run keeps
it as it was given (`held`), and its queries answer with that object (`Answer`), since
`expire_on_commit` is off; `Release` drops the object (of a run, with its items), after
which the session reads what the columns kept, in the text of the database. That text
is part of the evidence hash of a reconciliation. The conditions of a query are
compared in the database, so a row is looked up by what is kept. Evaluations and
scenario runs answer with an id and with results that the call has calculated itself.
The snapshot is one that another session made, read as it is stored: a snapshot made
in the same session may still have cash and quantities of more digits than its columns,
which could move an expected value by a part of a grain and is left out. Severities
and explanations are text and left out, as are volatility, beta, tracking error,
skipped-shock warnings (which are not stored) and the cut to the first positions.

### Conversation

`ask` starts a conversation (`Ask`) and asks the model (`Reply`, whose disjuncts
are what `ask` does with a turn: `Raise`, `ProviderFails`, `RoundLimit`,
`CallTools`, `Finish`). `Execute` goes through the calls of a turn: `OverCallLimit`
ends the ask, `Authorize` and `Deny` are the first half of a tool call, `ReadTool`
the second, so roles may change between them and records be published between
any two; `TurnDone` is the flush. `FlushFails` is the unique constraint on the id
the model gives a call. `ask` never commits and an exception leaves the
conversation ACTIVE in the session: `Commit` may come after one.

Tools read what is committed. A source is its kind, the instant it is of and which
record of its kind it is, so what is modelled of a record is which one
a tool reads. `PublishSnapshot`, `PublishEvaluation`, `ChangeValuation` and
`ChangeRoles` are the rest of the program. An evaluation's `created_at` is an argument
of its caller (`risk/service.py:27`) and any instant here: it may be earlier than that of
an evaluation committed before, or equal. The query orders by `as_of` and `created_at` and
by nothing else (`sql_tools.py:209-214`), so of two evaluations with equal times each
reading takes either (`Evaluation`, `Evaluated`). Text is blank or not.

## 3. Runs

| Run | Distinct states | What it shows |
|---|---|---|
| `governance` | 1,486,038 | two sessions, two users with overlapping roles, two cutoffs, clear, late and blocking evidence, two timestamps: `TypeOK`, `HistoryChain`, `ApprovalSupported`, `SeparationOfDuties`, `EvidenceUnderReview`, `DecisionFinal`, `NoLostUpdate`, and the refinement `ImplementsWorkflow` |
| `ledger_races` | 202,925 | two sessions, one an import: `StatusProjection`, `AnswersStand`, the refinement `ImplementsBook`, and `CallReturns` |
| `ledger_opening` | violated | finding 1 |
| `portfolio_replay` | 240,200 | twelve transactions in every order with every rounding, under `ValuationSpec`: `TypeOK`, `BooksBalance`, `KnownCovered`, and the refinement `ScopeIsolated` |
| `portfolio_liquidation` | violated | finding 4 |
| `snapshot_revisions` | 62,258 | two sessions, two facts: `TypeOK`, `OneCurrent`, and the refinement `ImplementsHistory` |
| `snapshot_reproducible` | violated | finding 2 |
| `import_files` | 5,924 | four sessions, three files: `ImportTypeOK` (with the types of `Ledger`), `OutcomesTrue`, `ReportsAddUp`, the refinement `ImplementsArchive`, and `ImportReturns` |
| `import_invalid_row` | violated | finding 3 |
| `market_data` | 26,091 | two sessions, three requests of two providers: `TypeOK`, `ResultsStand`, `CountsTrue`, `QuoteMoves`, the refinement `ImplementsBook`, and `IngestReturns` |
| `conversation` | 549,100 | one session with turns that repeat tools and ids and records published meanwhile, or two sessions, or one that asks twice: `TypeOK`, `AnswersGrounded`, `TrailComplete`, `ReadingsAdvance`, the refinement `ImplementsArchive`, and `AskReturns` |
| `assessments` | 974,723 | two sessions, two observations of one identity, two tolerances, two analyses, three executions, a rule that is added, columns coarser than the figures: `TypeOK`, `AnswersStand`, `StoredSound`, and the refinement `ImplementsStore` |

The properties are worded where they are defined. Four of them say more than
their names. `BooksBalance`: cash, quantities and costs are conserved; the realized
profit is unavailable exactly while a sale of unknown cost stands; and the value of
the fund is what was brought into it plus both profits, less the cost that
reversals have left on positions of which nothing is held, up to the rounding of
quotients and sums, in either direction. `KnownCovered`: of a position whose cost is
reported as known no more is held than the facts in force acquired at a known cost. `AnswersStand` of `Assessments`: an answer is of a row its session sees, and what
the columns keep of it is what they keep of that row, but for rules added since; it
describes an answer that the hash allows and section 5 lists, and does not approve of it.
`StoredSound`: what is stored is what its key says, as far as the columns keep it. No
status is against the figures beside it (a stored BREACH may have the amount zero, never
a PASS one above it), two runs of one evidence have the same figures and differences
that are one grain apart at most, and the profits of a scenario are the differences of
its amounts and add up to within half a cent for each number that was rounded.
`ReadingsAdvance`: of two readings with one tool and one cutoff in one answer the
later one is never superseded by the earlier: of two snapshots it is the later revision or
the same one, of two evaluations it is not the one of the earlier `as_of`, nor with
the same `as_of` the one of the earlier `created_at`.

### Bounds, and why they are enough

- *Governance.* `MaxRow = 7`: an approval needs five commits after the creation
  (analysis, submission, start of review, review, approval), so seven row
  versions leave one for a revision or a request for changes in between, in either
  session. Two users cover the roles: one is analyst and manager, the other manager
  and advisor. `MaxTime = 2` distinguishes equal, later and earlier timestamps, and
  `MaxAnalysis = 2` is a pair to choose from. The constraint `OneAtATime` keeps the
  two dimensions apart: two sessions race over one instant, one cutoff and evidence
  that clears, and as soon as a second instant, a second cutoff or other evidence is
  in use only one session at a time is open, which leaves the commands of the two
  in every order but not within one another. Two sessions are one that commits
  and one that is stale; the race of three is a race of two at each
  compare-and-swap. The theorems have none of these bounds.
- *Ledger.* Seven commands: two openings of one scope, a second payload under
  one identity, two reversals of one fact, a deposit, and a reversal of a reversal
  under the deposit's identity. `MaxCalls = 2` lets a session reverse what it
  posted, and lets two sessions post the same two identities in opposite orders,
  which is the shortest deadlock.
- *Portfolio and valuation.* An opening of unknown cost, purchases of three shares
  and of two at different prices, one with a fee, sales of two shares and of one, so of
  a part, of all or of a third, and the reversals of the opening, a purchase and a sale,
  so that a reversal can follow any use of what it takes back; a repeated reversal; a
  second account with a trade, a fee and a reversal across accounts. The quoted price
  differs from every price paid. `Grain = 2` and `Slack = 1` let a quotient fall on a
  multiple or between two, and each rounded result go either way. The states include a
  stranded cost, a full sale that leaves a residue and one that is refused, and a
  sale of unknown cost that is taken back.
- *Snapshots.* `MaxRevision = 4`: an empty revision, one for each fact, and one
  more. Sessions and facts are interchangeable, so symmetry is sound (no run with
  symmetry checks liveness). The violated run needs one fact and two revisions.
- *Imports.* Two sessions have one file, so that a second flush of its batch waits,
  fails or finds it. The second file has the identities of the first in the
  opposite order (a deadlock needs two), one with another payload (a conflict), a
  second opening of the scope (refused by the validation, or by the index when
  both are open) and a row that raises. The third has a malformed row, a command
  without an amount, and one row of the first file twice, so a row is a
  duplicate of one in the same file. `MaxCalls = 4` is the longest file.
- *Market data.* Two requests of one provider overlap and a third is another
  provider's. Exports have two observations in both orders (a deadlock needs
  two), a restatement, a second name of a priced instrument with the same price
  and with another, a price of more decimals than the column keeps (`Scale = 10`,
  price 12), one that rounds to zero, and a row that does not parse. One identifier
  passes from one instrument to another for one provider.
- *Conversation.* Two rounds and three calls: both limits are met, by a turn of two
  calls, a turn whose calls repeat an id of an earlier one, and repeated readings.
  Two cutoffs and two published records let a later reading differ, also by an
  evaluation that is backdated or has the times of another. The constraint `Explored`
  keeps two dimensions apart: with one `ask` turns, publications and roles are as rich
  as this, and as soon as there are two, of two sessions or of one, before or after the
  first was committed, rolled back or left ACTIVE by an error, each has one round of one
  call, and one record is published. Sessions share only the books, the ids and the
  committed rows. `TLC` follows no behaviour that leaves the constraint, so `AskReturns` is
  checked of those that stay in it; one `ask` alone is complete.
- *Assessments.* `MaxRows = 2` rows after which no call begins that may insert one,
  so two sessions race on a first and on a second row, of one service or of two.
  The columns keep tens of a reported value, fours of money and thirds of a quotient
  (`Grain`, `Cent`, `Places`), so all of them round. The two observations are one
  identity, once with digits the column drops and once without, and lie on either side
  of the tolerances 0 and 4, of which 4 is not kept itself; the two analyses have one
  cutoff and different metrics; of the executions one is of a fund that holds an
  instrument in two accounts and one of a fund that is worth less than half a cent.
  Two assumptions of `MCAssessments` compare the engines and the columns with their
  definitions on many more inputs: `EnginesSound` on books, samples and shocks,
  `ReconciliationsSound` on observations of two lines, of which the snapshot has one,
  around every boundary of the rounding.

Deadlock is checked wherever the system runs on. Three runs say
`CHECK_DEADLOCK FALSE`: a replay ends with its ledger, `market_data` stops when every
request is answered, and `assessments` when `MaxRows` is reached.

### Fairness

Four runs check liveness. `ledger_races` does under `FairSpec`. A session that is between
two statements goes on (weak fairness of `Validate`), since nothing in `create`
can wait there. PostgreSQL wakes a waiting INSERT when the transaction it waits
for ends, so an INSERT that can proceed again and again does (strong fairness of
`Post \/ InsertFails`). PostgreSQL's detector aborts a circle of waiting sessions
(weak fairness of `AbortedByDeadlock`); the mutant without it breaks `CallReturns`.
A caller that has made its calls commits (weak fairness of `Commit`): an import
has finitely many rows, which is what `MaxCalls` stands for. Nothing is assumed of
`Rollback`, of new calls, or of crashes.

`import_files` has the same fairness for the statements of an import
(`ImportFairness`): the steps that wait for nobody are weakly fair, the flushes
of a batch or a row that PostgreSQL wakes strongly, the detector and the
caller's commit weakly. Nothing is assumed of `Start`, `Reuse` or `Abandon`. The
mutant without the detector breaks `ImportReturns`: two imports then wait for
each other's rows for ever.

`market_data` alike: strong fairness of `Open \/ IngestRow`, the steps an index may
delay, weak fairness of `Complete` and of the detector. A caller whose call failed
closes its session in the end (weak fairness of an idle `Rollback`, which `get_db`
does, `db.py:17-19`), since what it has flushed makes others wait.

`conversation`: weak fairness of `Reply`, `Execute` and `FlushFails`, none of which
waits for anyone in the program. That a turn comes or fails in the end is the
client's, which is injected (`openai_responses.py:20`): the library's has a time
limit by default and nothing in `src/` sets another. Nothing is assumed of the model: it may call tools for ever, and
`AskReturns` holds because of the two limits.

## 4. Proofs

Every theorem holds for all values of the constants that satisfy the named
assumptions of the modules (bounds included: they are any natural numbers). No
fairness is used.

**Governance** (`GovernanceProofs`). `IInv` is the conjunction of `TypeOK`,
`CopyCurrent` (a copy whose row version is the committed one *is* the committed
row, and none is newer), `CommandsSound` (what the reads of a pending command
established still holds if its expected version is still the committed one: it is
a statement about the gap between check and write), `HistoryChain`,
`TransitionsSound`, `SeparationOfDuties`, `EvidenceSound`, `SubmissionStands` and
`ApprovalSupported`. None of the safety properties is inductive without the first
three: a decision is checked on the copy, and only the compare-and-swap with the
trigger's count of row versions ties the copy to the row it changes. Theorems:
`TypeCorrect`, `Invariance`, `HistoryComplete`, `DutiesSeparated`, `EvidenceStands`,
`ApprovalsSupported`, `DecisionsFinal`, `NoUpdateLost`, `WorkflowImplemented`.

**Ledger** (`LedgerProofs`). `IInv` is `TypeOK`, `NoClashOpen` (uncommitted rows of
different sessions clash neither with each other nor with the ledger: this is what
waiting at the unique indexes buys), `TargetsThere`, `MarksMatch` (a session's
marks are the targets of its own reversals), `OpeningsApart`, `CallsSound`,
`StatusProjection` and `AnswersStand`. Theorems: `TypeCorrect`, `Invariance`,
`StatusIsProjection`, `AnswersHold`, `BookImplemented`.

**Imports** (`LedgerProofs`, second half). `ImportsAreCalls` shows that an import is a
sequence of the calls of `Ledger`, so `IInv` holds in every import.
`EvidenceInv` adds `ImportsSound` (an open import has one record of every row
before the one it is at, and its counts count them), `FilesApart` (at most one
session or the database has a batch of a file: the unique index, with its
waiting), `ArchiveSound`, `PostsTraced` (a session's facts are those its records
posted, each by one of them), `RecordsHold` and `CallsAtRows` (a call is the one of
the row its import is at). Lemma `LocalStep` says what a step that commits nothing
must establish about its own session alone, and one lemma for each action
establishes it; `CommittedStep` is the commit. Theorems: `ImportsAreCalls`,
`ImportInvariance`, `ImportTypeCorrect`, `ImportsKeepBook`, `OutcomesHold`,
`ReportsHold`, `ArchiveImplemented`.

**Portfolio and Valuation** (`PortfolioProofs`). `IInv` is `TypeOK`, `EffectsSound`
(recorded effects belong to applied originals, name their account and instrument, and
an opening without a price is a reason for doubt) and `DoubtsCounted`: the count a
position keeps is the number of facts that stand and made its cost unknown, a
statement about the cardinality of a set of facts, which the proof carries through
each insertion and removal.
`ScopeIsolation` is a step simulation: a step of another account is a stutter of
the chosen one. `ValuationReplays` shows that a step of the valuation is a step of
the portfolio, so `IInv` holds of both; with it `ProfitSound` is inductive: a sale
has a profit or none exactly as its effect is certain or not, and `doubtful` is the
set of standing sales of uncertain effect. That the two replays' accounts of
unknown costs agree is what `RealizedIsKnown` rests on.

`BooksConserved` is about sums: cash and quantities are what the facts that
stand add up to, and costs are too but for `Drift`. `Balanced` adds `DeltasRecorded` (a
recorded effect has the cash and quantity of its fact) to the invariant and to
`Conservation`; lemma `OriginalBalances` adds one term to each sum, `ReversalBalances`
takes it away again, wherever in the order it stands, and `CostDrifts` bounds what
each sum of costs may miss. `KnownIsCovered` compares two of these sums: when no
doubt stands, every opening that stands has a price, and what is held is what was acquired
at known cost less what was sold.

`BooksAlwaysBalance` compares the two replays. `Accounts` adds that
the realized total is the sum of the sales' profits but for `Slack` for each
transaction, and that each profit differs from the sale's proceeds less its recorded
cost by `Slack` times the quantity sold and one, either way (`SaleGap`: one quotient
rounds the basis, the other the average, which is then multiplied; `RoundedAverage` and
`WholeQuotient` are the two cases). Then cash, costs, profits and
stranded costs are all sums over the standing facts; term by term they differ by
what a fact brings in and its gap (`StandingTerms`), and `ValueExplained` adds the
terms up. `Rounding` is the sum of the limits. `BookAssumption` says that accounts
and instruments are finitely many, `RoundingAssumption` that `Grain` is positive and
`Slack` is not negative. Theorems: `TypeCorrect`, `Invariance`,
`KnownIsCovered`, `ScopeIsolation`, `ValuationReplays`, `RealizedIsKnown`,
`BooksConserved`, `BooksAlwaysBalance`.

**Snapshots** (`SnapshotsProofs`). `IInv` is `TypeOK`, `ChainSeen` (the committed
rows and what each session sees are one chain whose newest row is the CURRENT
one), `OneWriter` (at most one session has uncommitted revisions: the partial
unique index on CURRENT makes every other wait), `InputsThere` and `PriorThere`.
Lemma `Extended` says that a chain with its newest row superseded and a successor
added is a chain. Theorems: `TypeCorrect`, `Invariance`, `CurrentIsOne`,
`HistoryImplemented`.

**Market data** (`MarketDataProofs`). `IInv` is `TypeOK`, `KeysApart` (no
observation is priced twice in what a session sees or by two open transactions),
`ConflictsFounded` (a refused value has an accepted one beside it), `InsertsNew` (a
call about to insert an observation has not written it) and `AllStand` (each result
returned so far is backed by a row of the session or of the database). `AllStand`
needs no rows to disappear, `InsertsNew` is what the look-up leaves after other
sessions have gone on, and `KeysApart` after the insertion is what the index
gives. `QuotesMove` is an action property: it needs only that rows are kept and
new ones have new keys. Theorems: `TypeCorrect`, `Invariance`, `ResultsTrue`,
`QuotesMove`, `BookImplemented`, and `CountsAreTrue`, whose own invariant
`CountsInv` adds that what a session has written belongs to unfinished batches of
its own, no committed batch among them, and that the rows of the batch a call is in
are as many as its results say (`FS_AddElement`, row by row).

**Assessments** (`AssessmentsProofs`). `IInv` is `TypeOK`, `KeysApart` as above,
`RowsSound` and `AnswersStand`. `RowsSound` speaks of rows as they were given: `Sound`
says that one is what its key says (an observation one that was reported, an evaluation
or a scenario run what the engines make of some metrics or execution under some set of
the rules, a reconciliation the comparison of observations that are `Seen`, each once,
as given or as stored), and of every row in the store `Kept` says that it is what the
columns keep of such a row. The row an open call wants is `Sound`, and of the rows a
session sees it holds at most one object each (`Objects`), so that no query answers with
one observation twice. Since every row is a function of its key, of the columns and of
rules that only grow, answering with an old row is answering with fewer rules.

Rounding is proved about once: `NearestIs` bounds the distance, `NearestIsOdd` and
`ValueKeepsOrder` say that it does not depend on the sign and keeps the order, and what
is kept is kept again as it is. From that a difference of two rounded numbers is near the
rounded difference (`NearDifference`), and a sum of rounded numbers is near the rounded
sum by half a cent for each (`NearlyAdds`, by the induction of `Sums`).

`StoredIsSound` needs two things more. `ScenariosHeld` says that a scenario run is
never uncommitted except at the commit that flushes its positions' results, so a
stored one has passed their unique constraint. And the engines must calculate what
their names say, for any input they accept: sorting is a permutation that leaves no
smaller loss after a larger one (`UpToOrder`, `RanksTaken`, `Sorted`), the nearest rank
is a place of the sample (`NearestRankIs`), the value at risk there is the quantile
(`QuantileFound`), the average of a tail whose members are all at least a number is
at least that number (`TotalCovers`, `ShortfallFound`), the categories of a dimension
add up to the book's total (`CategoriesAddUp`), a shock changes a position by exactly
its value times its impact (`Shocked`, `ProjectedIs`) and the profit is the sum of the
positions' (`ProfitAddsUp`, `ComparisonSound`). The observations of a reconciliation
are told by their ids, which `KeysApart` makes unique, so two runs over one evidence
compare what the column made of the same observations (`RunsAgree`). What the engines
made survives the columns as far as the rounding lemmas say (`ItemIsSound`,
`OutcomeIsSound`, `StoredComparisonSound`). Assumptions: the inputs have the types of
the code (`IsObservation`, `IsAnalysis`, `AreShocks`), positions are worth multiples of
`Unit`, the expected values of a snapshot are as its columns keep them, `Grain`, `Cent`
and `Places` are any positive numbers, and `None` is no number.
Theorems: `TypeCorrect`, `Invariance`, `AnswersTrue`, `StoredIsSound`, `StoreImplemented`.

**Sums** (`Sums`). The library's sums and folds are defined by a CHOOSE of a recursion,
and its induction theorems over an operator cannot be instantiated here. The module
replaces them by one argument, induction by least counterexample: a nonempty set of
finite sets has a least member (`LeastSet`, as strict inclusion of finite sets is well
founded), so a property is proved by taking a least set on which it fails. With it
`FoldExists` builds the recursion, and `SumTakes` shows that any element may be taken
first; `SumAdds`, `SumPlus`, `SumOrder`, `SumUnion`, `SumParts` and `SumSupport` are
what the proofs above cite.

**Conversation** (`ConversationProofs`). `IInv` is `Typed`, `IdsApart` (an id is of one
conversation, in one session or committed), `CallsOpen` (an open call has its own
unfinished conversation, and room for the call it reads for), `RowsSound` (every
conversation, committed or not, has the status, message and citations its calls
give it, and its calls read records in an order that nothing published since has
reversed), `Trails` (of the database and of each session) and `CallsDistinct`.
`EditStep` says what a step that changes one conversation of one session must
establish; `RecordSound` carries "no later reading is superseded" by stating it
against the books as they are now rather than between readings: what a tool reads has
no published record after it (`OutcomeReading`), one of the last if evaluations tie, and
publications leave the times of what was read (`Rank`) as they are. The refinement maps the records
an answer can cite to `PublishedSources`, which nothing takes back (`RecordsGrow`);
that a commit files only new conversations and only their audit events is `IdsApart`
with `Trails` (`CommitFiles`). It includes the ACTIVE conversation that an error left
and the caller committed: no later `ask` touches it. Theorems: `TypeCorrect`,
`Invariance`, `AnswersTrue`, `TrailsTrue`, `ReadingsTrue`, `ArchiveImplemented`.

**Only model-checked.** `CallReturns`, `ImportReturns`, `IngestReturns` and
`AskReturns` are liveness under fairness, which the prover cannot do. The four
violated properties are refuted by TLC. Every other property of a run is
a theorem.

**What the proofs changed in the models.** The first model of `RiskEngine` sorted with
`SortSeq`, which chooses a permutation that orders the sequence strictly: of two
equal returns written differently, such as 1/10 and 2/20, neither comes first, so
there is none to choose. TLC sorts natively and never shows it; the proof that a
sorted sample exists did. `Ascending` ranks equal values by their place, as a stable
sort does. `Assessable` now has the check that the confidence is between zero and one
(`risk/engine.py:27`), without which the nearest rank is no place of the sample, and
`Reconcile` the one that the tolerance is not negative (`reconciliation.py:109`).

## 5. Findings

1. `ledger_opening`. `docs/domain/transaction-semantics.md:217` and `:223` say that
   an opening is the earliest fact of its scope; the code checks the order of
   posting only (`ledger/service.py:81`), so a later, backdated transaction
   precedes it.
2. `snapshot_reproducible`. A session that posted a fact and still holds its object
   hashes the amounts as they were given, and every other session hashes them as
   the columns store them (`snapshots/service.py:168`, `portfolio/types.py:46`,
   `db.py:14`): verification elsewhere reports the snapshot as not reproducible, and
   an unchanged scope gets a new revision.
3. `import_invalid_row`. `docs/domain/import-provenance.md:29` says that invalid rows do
   not block valid rows; an amount of `NaN` is normalized (`csv_pipeline.py:257`), its
   comparison with zero raises an exception that the loop does not catch
   (`ledger/validation.py:89`, `csv_pipeline.py:140`), the rows after it are not read,
   and the batch stays PROCESSING: importing the same bytes again in the session, or
   after a commit, returns it as reused.
4. `portfolio_liquidation`. `docs/domain/portfolio-reconstruction.md:85` says that sales
   from a position of unknown cost preserve UNKNOWN until complete liquidation; the sale
   that liquidates it is one more reason for doubt (`portfolio/engine.py:260`), none of
   the reasons goes with the last share, and what is bought afterwards is UNKNOWN too.

**Seen while modelling, without a run of their own.** The models do what the code
does; these places differ from a document, or will surprise.

- Of two analyses of one version with equal `recorded_at` a random UUID decides
  (`governance/service.py:531`), so a clear analysis recorded first may pass over a
  blocking one recorded last (`docs/domain/investment-governance.md:38`).
- Reversing a purchase after a sale at average cost may leave a known cost on a
  position of which nothing is held (`portfolio/engine.py:331`); the result omits it
  (`:349`) and the next purchase inherits it. `BooksBalance` says by how much the
  profits then fail to explain the value.
- The profit takes the quantity times a rounded average, the portfolio removes the
  cost times the quantity over what is held (`valuation/engine.py:138`,
  `portfolio/engine.py:256`): they differ by the rounding, in either direction.
- After a quotient has been rounded a full sale need not remove exactly what is left of
  the cost: a digit at the end remains, and the next purchase inherits it, or the sale
  is refused with `NegativeCostBasisError` (`portfolio/engine.py:256`, `:332`).
- The ledger is read before the current snapshot (`snapshots/service.py:62-64`): a
  session whose reading is the older one supersedes a snapshot that includes a late
  fact with one that lacks it (ADR 0009:11).
- The reconciliation's hash covers the text of values, so one evidence may have two
  runs (`docs/domain/snapshot-reconciliation.md:39`). Neither `record_observation` nor
  `reconcile` looks at the scale of a number: the run of a session that still has an
  observation as given compares more digits than the run of any other, their
  differences may be a unit of the twelfth decimal apart, and with the tolerance at
  that boundary one is MATCHED and the other a BREACH (1E-13 against 0 at tolerance 0).
- The tolerance is compared as given with what the column kept
  (`snapshots/reconciliation.py:127`): one of more than twelve decimals finds no run,
  its own included, and the second call ends in `uq_reconciliation_run`. An observation
  of more than twelve decimals conflicts with itself once it is read back (`:78`).
- What is stored of an evaluation or a scenario is rounded after its status was
  decided: a stored BREACH may have the amount 0, and the stored profits of a run need
  not add up to its own (`0006` 92-94, `0007` 89-91, 112-115).
  A fund whose value rounds to 0 is refused by `ck_scenario_run_values` although the
  engine accepts it.
- A failed `ingest` leaves a RECEIVED batch in the session; the session's next
  completed call commits it, after which its request is answered with zero counts
  for ever. The status FAILED is never set.
- A price of more than eight decimals is compared as given with what the column
  kept (`market_data/service.py:153`): ingested again it is a conflict with itself
  (`docs/domain/market-data-valuation.md:7`). The answer to a repeated request lists
  inserted rows only. A late observation changes the quote of a past cutoff.
- The stored hashes of evaluations and scenario runs leave the rules out
  (`docs/domain/scenario-stress-testing.md:48`: every material input), so both are
  answered with old rows and new results.
- A fund that holds one instrument in two accounts can store no scenario run
  (`models.py`, `uq_scenario_position_result`), and its concentration counts the two
  lines apart. A sample of gains alone divides zero by zero in the shortfall
  (`risk/engine.py:37-38`); an empty benchmark fails every comparison.
- Of four rounds of tools the last one's answer is never looked at
  (`ai/service.py:105`, `:154`). A scenario on an empty fund and a huge age raise out of
  `ask` where ADR 0018 promises a refusal; the conversation stays ACTIVE, and the
  status FAILED is never set.

## 6. Plan

The order is by what is most important to the fund and hardest to test. Done:
`Governance`, `Ledger`, `Portfolio`, `Snapshots`, `Imports`, `MarketData`,
`Conversation`, `Stress` with `Assessments`, and `Valuation`, with their abstract
specifications, runs and proofs.

To come:

1. `Freshness` of quotes and the age limit of a valuation, in `MarketData` and
   `Valuation`, and the warnings that carry it to the assistant.
2. A composition of `MarketData` and `Valuation`, where `Price` is `LatestQuote`.

## 7. Not modelled

- Analytics, liquidity, volatility, beta and tracking error: roots and quotients
  of decimals without state or order, correct or not by their numbers.
- In the modelled components: freshness and currencies of quotes, warnings,
  severities and explanations, the cut of exposures to the first positions, what the
  model sees of a tool's result.
- Pure I/O: health endpoints, logging, settings, fixtures, the web client,
  infrastructure, release scripts.
- Text: titles, comments, prompts, audit wording; audit events other than those of
  conversations are written in the same flush as what they report.
- Reversal commands that name a transaction of another fund, and soft state of
  users and roles that changes between commands: roles are constants in
  `Governance` (they change in `Conversation`).
