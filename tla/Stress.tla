------------------------------- MODULE Stress -------------------------------
(***************************************************************************)
(* The calculations behind a stored assessment, on exact quotients:        *)
(* ExposureEngine, RiskEngine, PolicyEngine, and ScenarioEngine with       *)
(* BeforeAfterEngine (app/exposures, app/risk, app/scenarios).             *)
(*                                                                         *)
(* Shocks are whole numbers of 1/Unit; what a position is worth is a       *)
(* multiple of Unit, so that what it is worth after a shock is a whole     *)
(* number.  Volatility, beta and tracking error are left out: a benchmark  *)
(* enters by the number of its returns.                                    *)
(***************************************************************************)
EXTENDS Integers, Sequences, FiniteSets, Functions

CONSTANTS
    Instrument,
    Label,          \* sectors, asset classes and geographies
    Factor,
    Classification, \* the table instrument_classifications
    Sensitivity,    \* the table instrument_risk_sensitivities
    Unit,
    None            \* no end of validity, duration, impact, metric or breach

Dimension == {"sector", "asset_class", "geography"}

ASSUME ClassificationAssumption ==
    /\ Classification \subseteq
         [instrument : Instrument, labels : [Dimension -> Label], from : Nat, to : Nat \cup {None}]
    /\ \A r, q \in Classification : r.instrument = q.instrument /\ r.from = q.from => r = q
ASSUME SensitivityAssumption ==
    /\ \A r \in Sensitivity :
         /\ r.instrument \in Instrument /\ r.duration \in Nat \cup {None}
         /\ r.from \in Nat /\ r.to \in Nat \cup {None}
         /\ DOMAIN r.loadings \subseteq Factor /\ \A f \in DOMAIN r.loadings : r.loadings[f] \in Int
    /\ \A r, q \in Sensitivity : r.instrument = q.instrument /\ r.from = q.from => r = q
ASSUME UnitAssumption == Unit \in Nat \ {0}

\* classifications_at and _sensitivities: the row in effect with the latest start.
InEffect(table, i, at) ==
    LET known == {r \in table : r.instrument = i /\ r.from <= at /\ (r.to # None => at < r.to)}
    IN {r \in known : \A q \in known : q.from <= r.from}

-----------------------------------------------------------------------------
(* Quotients.                                                              *)

Quotient == [n : Int, d : Nat \ {0}]

Ratio(n, d) == [n |-> n, d |-> d]

Zero == Ratio(0, 1)

Less(a, b) == a.n * b.d < b.n * a.d

Plus(a, b) ==
    IF a.d = b.d THEN Ratio(a.n + b.n, a.d) ELSE Ratio(a.n * b.d + b.n * a.d, a.d * b.d)

Minus(a) == Ratio(-a.n, a.d)

Positive(a) == IF a.n > 0 THEN a ELSE Zero

-----------------------------------------------------------------------------
(* Exposures.  A book is [values, cash, at]: what each position, an        *)
(* instrument in an account, is worth, the cash and the cutoff.            *)

Held(account, i) == <<account, i>>

InstrumentOf(position) == position[2]

IsBook(book) ==
    /\ book = [values |-> book.values, cash |-> book.cash, at |-> book.at]
    /\ IsFiniteSet(DOMAIN book.values)
    /\ book.values = [p \in DOMAIN book.values |-> book.values[p]]
    /\ \A p \in DOMAIN book.values :
         InstrumentOf(p) \in Instrument /\ book.values[p] \in Int /\ book.values[p] % Unit = 0
    /\ book.cash \in Int /\ book.at \in Nat

LabelOf(position, dimension, at) ==
    LET known == InEffect(Classification, InstrumentOf(position), at)
    IN IF known = {} THEN "UNCLASSIFIED" ELSE (CHOOSE r \in known : TRUE).labels[dimension]

Total(book) == book.cash + SumFunction(book.values)

\* What ExposureEngine.calculate accepts.
Measurable(book) ==
    /\ book.cash >= 0 /\ \A p \in DOMAIN book.values : book.values[p] >= 0
    /\ Total(book) > 0

Categories(book, dimension) ==
    {LabelOf(p, dimension, book.at) : p \in DOMAIN book.values}
      \cup (IF book.cash # 0 THEN {"CASH"} ELSE {})

CategoryValue(book, dimension, category) ==
    SumFunctionOnSet(book.values, {p \in DOMAIN book.values : LabelOf(p, dimension, book.at) = category})
      + (IF category = "CASH" THEN book.cash ELSE 0)

LargestWeight(book) ==
    IF DOMAIN book.values = {} THEN Zero
    ELSE LET p == CHOOSE p \in DOMAIN book.values : \A q \in DOMAIN book.values : book.values[q] <= book.values[p]
         IN Ratio(book.values[p], Total(book))

Herfindahl(book) ==
    Ratio(SumFunction([p \in DOMAIN book.values |-> book.values[p] * book.values[p]]),
          Total(book) * Total(book))

-----------------------------------------------------------------------------
(* Risk of a sample of returns.                                            *)

\* The place of s[i] when s is sorted, equal values in the order of s.
Rank(s, i) ==
    Cardinality({j \in DOMAIN s : IF j <= i THEN ~ Less(s[i], s[j]) ELSE Less(s[j], s[i])})

Ascending(s) == [k \in DOMAIN s |-> s[CHOOSE i \in DOMAIN s : Rank(s, i) = k]]

Losses(returns) == Ascending([i \in DOMAIN returns |-> Minus(returns[i])])

\* The nearest rank, rounded up.
NearestRank(returns, confidence) == (confidence.n * Len(returns) + confidence.d - 1) \div confidence.d

ValueAtRisk(returns, confidence) == Positive(Losses(returns)[NearestRank(returns, confidence)])

\* The tail: where the losses are at or beyond the value at risk.
Beyond(returns, confidence) ==
    LET losses == Losses(returns)
        var == ValueAtRisk(returns, confidence)
    IN {k \in DOMAIN losses : ~ Less(losses[k], var)}

\* What RiskEngine.calculate accepts; with gains alone there is no loss at or
\* beyond zero to average, and it divides zero by zero.
Assessable(returns, benchmark, confidence) ==
    /\ returns # <<>>
    /\ 0 < confidence.n /\ confidence.n < confidence.d
    /\ benchmark \in {0, Len(returns)}
    /\ Beyond(returns, confidence) # {}

Shortfall(returns, confidence) ==
    LET tail == Beyond(returns, confidence)
        sum == FoldFunctionOnSet(Plus, Zero, Losses(returns), tail)
    IN Positive(Ratio(sum.n, sum.d * Cardinality(tail)))

RiskOf(returns, confidence) ==
    [var |-> ValueAtRisk(returns, confidence), shortfall |-> Shortfall(returns, confidence)]

-----------------------------------------------------------------------------
(* Policies.  Rules are [id, metric, operator, threshold].                 *)

\* portfolio_risk_metrics, without the statistics that are left out: the
\* weights of the categories, and four figures.
Weights(book) == UNION {{<<dimension, c>> : c \in Categories(book, dimension)} : dimension \in Dimension}

Figures ==
    {<<"concentration", "largest_position_weight">>, <<"concentration", "herfindahl_index">>,
     <<"risk", "var_return">>, <<"risk", "expected_shortfall_return">>}

Metrics(book, returns, confidence) ==
    [m \in Weights(book) \cup Figures |->
        CASE m = <<"concentration", "largest_position_weight">> -> LargestWeight(book)
          [] m = <<"concentration", "herfindahl_index">> -> Herfindahl(book)
          [] m = <<"risk", "var_return">> -> ValueAtRisk(returns, confidence)
          [] m = <<"risk", "expected_shortfall_return">> -> Shortfall(returns, confidence)
          [] OTHER -> Ratio(CategoryValue(book, m[1], m[2]), Total(book))]

\* By how much a rule is broken.
Breach(rule, observed) ==
    IF rule.operator = "MAX" THEN Plus(observed, Minus(rule.threshold))
    ELSE Plus(rule.threshold, Minus(observed))

Item(rule, metrics) ==
    IF rule.metric \notin DOMAIN metrics THEN [status |-> "UNAVAILABLE", observed |-> None, amount |-> None]
    ELSE LET amount == Positive(Breach(rule, metrics[rule.metric]))
         IN [status |-> IF amount = Zero THEN "PASS" ELSE "BREACH",
             observed |-> metrics[rule.metric], amount |-> amount]

\* PolicyEngine.evaluate.
Items(rules, metrics) == [rule \in rules |-> Item(rule, metrics)]

-----------------------------------------------------------------------------
(* Scenarios.  Shocks are [sequence, type, target, magnitude].             *)

ShockType == {"SECURITY", "MARKET", "SECTOR", "RATE", "FACTOR"}

AreShocks(shocks) ==
    IsFiniteSet(shocks) /\ \A shock \in shocks : shock.type \in ShockType /\ shock.magnitude \in Int

\* _validate.
Valid(shocks) ==
    /\ \A a, b \in shocks : a.sequence = b.sequence => a = b
    /\ \A shock \in shocks :
         CASE shock.type = "SECURITY" -> shock.target \in Instrument
           [] shock.type = "MARKET" -> shock.target = "ALL"
           [] shock.type = "RATE" -> shock.target = "USD"
           [] OTHER -> TRUE

\* _impact: what a shock does to an instrument, or None.
Impact(shock, i, at) ==
    LET sensitivity == InEffect(Sensitivity, i, at)
    IN CASE shock.type = "SECURITY" -> IF shock.target = i THEN shock.magnitude ELSE None
         [] shock.type = "MARKET" -> shock.magnitude
         [] shock.type = "SECTOR" ->
              IF \E r \in InEffect(Classification, i, at) : r.labels["sector"] = shock.target
              THEN shock.magnitude ELSE None
         [] shock.type = "RATE" ->
              IF \E r \in sensitivity : r.duration # None
              THEN LET r == CHOOSE r \in sensitivity : TRUE IN -r.duration * shock.magnitude
              ELSE None
         [] shock.type = "FACTOR" ->
              IF \E r \in sensitivity : shock.target \in DOMAIN r.loadings
              THEN LET r == CHOOSE r \in sensitivity : TRUE IN r.loadings[shock.target] * shock.magnitude
              ELSE None

Contributions(shocks, i, at) == {shock \in shocks : Impact(shock, i, at) # None}

ReturnImpact(shocks, i, at) ==
    SumFunctionOnSet([shock \in Contributions(shocks, i, at) |-> Impact(shock, i, at)],
                     Contributions(shocks, i, at))

Shockable(shocks, book) ==
    Valid(shocks) /\ \A p \in DOMAIN book.values : ReturnImpact(shocks, InstrumentOf(p), book.at) > -Unit

Projected(shocks, book) ==
    [book EXCEPT !.values =
        [p \in DOMAIN @ |-> (@[p] * (Unit + ReturnImpact(shocks, InstrumentOf(p), book.at))) \div Unit]]

\* The scenario's return joins the sample.
StressedReturns(shocks, book, returns) ==
    Append(returns, Ratio(Total(Projected(shocks, book)) - Total(book), Total(book)))

\* ScenarioEngine.apply and BeforeAfterEngine.compare raise nothing: the
\* benchmark's return under the scenario joins a benchmark that is empty too.
Comparable(shocks, book, returns, benchmark, confidence) ==
    /\ Shockable(shocks, book)
    /\ Measurable(book) /\ Measurable(Projected(shocks, book))
    /\ Assessable(returns, benchmark, confidence)
    /\ Assessable(StressedReturns(shocks, book, returns), benchmark + 1, confidence)

\* What a run stores, with its positions' results, before the policy; weights
\* are shares of the totals.
Comparison(shocks, book, returns, confidence) ==
    LET after == Projected(shocks, book)
    IN [baseline |-> Total(book),
        projected |-> Total(after),
        pnl |-> Total(after) - Total(book),
        positions |-> [p \in DOMAIN book.values |->
            [before |-> book.values[p], after |-> after.values[p],
             impact |-> ReturnImpact(shocks, InstrumentOf(p), book.at),
             evidence |-> Contributions(shocks, InstrumentOf(p), book.at)]],
        weights |-> [dimension \in Dimension |->
            [c \in Categories(book, dimension) \cup Categories(after, dimension) |->
                [before |-> CategoryValue(book, dimension, c), after |-> CategoryValue(after, dimension, c)]]],
        risk |-> [before |-> RiskOf(returns, confidence),
                  after |-> RiskOf(StressedReturns(shocks, book, returns), confidence)],
        metrics |-> [before |-> Metrics(book, returns, confidence),
                     after |-> Metrics(after, StressedReturns(shocks, book, returns), confidence)]]

\* uq_scenario_position_result: the results are of instruments, the positions
\* of instruments in accounts.
Recordable(book) ==
    \A p, q \in DOMAIN book.values : InstrumentOf(p) = InstrumentOf(q) => p = q
=============================================================================
