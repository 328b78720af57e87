--------------------------- MODULE MCAssessments ---------------------------
(* Model values for Assessments.                                           *)
EXTENDS Assessments, TLC

CONSTANTS i1, i2, o1, o2, acc, other, s1, s2, x1, x2

\* i1 changes its sector at 2; i2 is not classified.
MCClassification ==
    {[instrument |-> i1, labels |-> [d \in Dimension |-> "TECH"], from |-> 0, to |-> None],
     [instrument |-> i1, labels |-> [d \in Dimension |-> "BANKS"], from |-> 2, to |-> None]}

MCSensitivity ==
    {[instrument |-> i1, duration |-> 2, loadings |-> [f \in {"OIL"} |-> 1], from |-> 0, to |-> 2],
     [instrument |-> i2, duration |-> None, loadings |-> [f \in {"OIL"} |-> -1], from |-> 0, to |-> None]}

Report(id, line, value) ==
    [id |-> id, account |-> acc, line |-> line, value |-> value, text |-> "GIVEN", at |-> 1]

\* Cash that agrees with the snapshot once it is rounded and not before, and
\* the same identity with what the column keeps of it.
MCObservation == {Report(o1, None, 34), Report(o1, None, 30)}

MCSnapshot == {[account |-> None, at |-> 1, expected |-> (<<acc, None>> :> 30)]}

Book(a, b, cash, at) == [values |-> (Held(acc, i1) :> a @@ Held(acc, i2) :> b), cash |-> cash, at |-> at]

Sample(book, returns, benchmark, confidence) ==
    [book |-> book, returns |-> returns, benchmark |-> benchmark, confidence |-> confidence]

Plain == Sample(Book(30, 20, 10, 1), <<Ratio(-1, 10), Ratio(1, 10)>>, 2, Ratio(1, 2))

\* Another valuation of the same cutoff.
Revalued == [Plain EXCEPT !.book = Book(40, 20, 10, 1)]

\* One instrument in two accounts.
Split == [Plain EXCEPT !.book.values = (Held(acc, i1) :> 30 @@ Held(other, i1) :> 20)]

MCAnalysis == {Plain, Revalued}

Shock(sequence, type, target, magnitude) ==
    [sequence |-> sequence, type |-> type, target |-> target, magnitude |-> magnitude]

Fall == [id |-> x1, shocks |-> {Shock(1, "MARKET", "ALL", -2), Shock(2, "SECTOR", "TECH", -2),
                                Shock(3, "RATE", "USD", 1), Shock(4, "FACTOR", "OIL", 2)}]
Rise == [id |-> x2, shocks |-> {Shock(1, "SECURITY", i1, 2), Shock(2, "SECURITY", i2, 2)}]

MCScenario == {Fall}

\* A book that money is too coarse for.
Dust == [Plain EXCEPT !.book = Book(0, 0, 1, 1)]

MCExecution == {[scenario |-> Fall, analysis |-> a] : a \in {Plain, Split, Dust}}

Symmetry == Permutations({s1, s2})

MCRule ==
    {[id |-> 1, metric |-> <<"sector", "TECH">>, operator |-> "MAX", threshold |-> Ratio(1, 2)]}

\* More executions than the sessions try: the engines themselves, on small
\* books, samples that are all losses or mixed, and shocks that skip an
\* instrument, cancel out or repeat a magnitude.
Slide == [id |-> x2, shocks |-> {Shock(1, "MARKET", "ALL", -3), Shock(2, "SECTOR", "BANKS", -3),
                                 Shock(3, "FACTOR", "OIL", 3), Shock(4, "RATE", "USD", -2)}]

ManyBooks == {Book(a, b, cash, at) : a \in {0, 30}, b \in {10, 20}, cash \in {0, 10}, at \in {1, 2}}

ManySamples ==
    {<<Ratio(-1, 10)>>, <<Ratio(1, 10), Ratio(-2, 10)>>, <<Ratio(-1, 10), Ratio(1, 10), Ratio(-2, 10)>>,
     <<Ratio(2, 10), Ratio(1, 10), Ratio(-1, 10), Ratio(0, 10)>>}

\* Reconciliations of two observations, of which the snapshot may lack one.
\* Stored, they are sound and like the ones of the stored observations.
ManyReports == {{Report(o1, None, a), Report(o2, i1, b)} : a \in {24, 25, 30, 34, 35, 45}, b \in {0, 4, 5, 10}}

ASSUME ReconciliationsSound ==
    \A snapshot \in MCSnapshot, tolerance \in {0, 4, 5, 10, 15} :
      \A reports \in ManyReports :
        LET first == Stored(ReconciliationRow(snapshot, tolerance, reports))
            second == Stored(ReconciliationRow(snapshot, tolerance, {StoredObservation(o) : o \in reports}))
        IN RunSound(first.key, first.content) /\ RunSound(second.key, second.content)
           /\ Alike(first.content, second.content)

ASSUME EnginesSound ==
    \A shocks \in {Fall.shocks, Rise.shocks, Slide.shocks}, book \in ManyBooks,
       returns \in ManySamples, confidence \in {Ratio(1, 2), Ratio(9, 10), Ratio(95, 100)} :
        Comparable(shocks, book, returns, Len(returns), confidence) =>
            LET e == [scenario |-> [id |-> x1, shocks |-> shocks],
                      analysis |-> Sample(book, returns, Len(returns), confidence)]
                run == Comparison(shocks, book, returns, confidence)
            IN /\ ScenarioSound(e, run)
               /\ Money(run.baseline) > 0 /\ Money(run.projected) > 0 =>
                    StoredScenarioSound(e, StoredComparison(run))
=============================================================================
