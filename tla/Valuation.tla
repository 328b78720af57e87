----------------------------- MODULE Valuation ------------------------------
(***************************************************************************)
(* HistoricalValuationService.value_at of app/valuation: the portfolio at  *)
(* market prices, with unrealized and realized profit.                     *)
(*                                                                         *)
(* The realized profit is a replay of its own beside the portfolio's: for  *)
(* each sale RealizedPnlEngine reconstructs what was held just before, in  *)
(* the same order, and keeps an account of the sales of unknown cost.  Here*)
(* both replays take each transaction together.  value_at reconstructs the *)
(* portfolio first, so there is a profit only where the replay succeeds.   *)
(***************************************************************************)
EXTENDS Portfolio

CONSTANT Price  \* Price[x]: the price quoted for instrument x, None if there is none

ASSUME PriceAssumption == Price \in [Instrument -> (Nat \ {0}) \cup {None}]

VARIABLES
    profits,    \* effects of RealizedPnlEngine: profits[i] of sale i, None if unknown
    realized,   \* total
    doubtful    \* active_unknown_sales

profit == <<profits, realized, doubtful>>

-----------------------------------------------------------------------------
(* Realized profit.                                                        *)

\* What the cost of sale t from position p may come to, at an average cost
\* that is a quotient.
Averaged(t, p) ==
    IF p.cost % (Grain * p.quantity) = 0 THEN {t.quantity * (p.cost \div p.quantity)}
    ELSE Near(p.cost, t.quantity, p.quantity, t.quantity * Slack)

\* The profit of sale t from position p: what it brings, less that cost.
SaleProfits(t, p) ==
    IF p.quantity = 0 \/ p.uncertain # 0 THEN {None}
    ELSE {t.quantity * t.price - t.fees - cost : cost \in Averaged(t, p)}

Realize(i) ==
    \E gain \in SaleProfits(Tx[i], positions[Key(Tx[i])]) :
      /\ profits' = [j \in DOMAIN profits \cup {i} |-> IF j = i THEN gain ELSE profits[j]]
      /\ IF gain = None
         THEN doubtful' = doubtful \cup {i} /\ UNCHANGED realized
         ELSE realized' \in Totals(realized, gain) /\ UNCHANGED doubtful

\* Mutant of TakenBack: the proceeds are taken back and the cost is not.
ProceedsTakenBack(i) ==
    IF profits[Tx[i].target] = None THEN None ELSE CashDelta(Tx[Tx[i].target])

\* What reversal i takes back of the profit.
TakenBack(i) == profits[Tx[i].target]

TakeBack(i) ==
    /\ UNCHANGED profits
    /\ IF TakenBack(i) = None
       THEN doubtful' = doubtful \ {Tx[i].target} /\ UNCHANGED realized
       ELSE realized' \in Totals(realized, -TakenBack(i)) /\ UNCHANGED doubtful

ValuationInit ==
    /\ Init
    /\ profits = <<>> /\ realized = 0 /\ doubtful = {}

Value(i) ==
    \/ /\ ApplyOriginal(i)
       /\ IF Tx[i].kind = "SELL" /\ failed' = Success THEN Realize(i) ELSE UNCHANGED profit
    \/ /\ Reverse(i)
       /\ IF Tx[i].target \in DOMAIN profits /\ failed' = Success THEN TakeBack(i) ELSE UNCHANGED profit
    \/ RejectReversal(i) /\ UNCHANGED profit

ValuationNext == \E i \in Id : Value(i)

ValuationSpec == ValuationInit /\ [][ValuationNext]_<<vars, profit>>

-----------------------------------------------------------------------------
(* The result.                                                             *)

\* The positions value is given: a flat one is omitted, with its cost.
Open == {k \in Holding : positions[k].quantity # 0}

\* MissingValuationPrice.
Priced == \A k \in Open : Price[k[2]] # None

MarketValue(k) == positions[k].quantity * Price[k[2]]

PortfolioValue ==
    SumFunction(cash) + SumFunction([k \in Open |-> MarketValue(k)])

Unrealized ==
    IF \E k \in Open : BasisStatus(k) = "UNKNOWN" THEN None
    ELSE SumFunction([k \in Open |-> MarketValue(k) - positions[k].cost])

Realized == IF doubtful # {} THEN None ELSE realized

-----------------------------------------------------------------------------
(* Properties.                                                             *)

StandingSales == {i \in Standing : Tx[i].kind = "SELL"}

\* What the standing facts brought into the fund otherwise than by trading.
Brought(i) ==
    CASE Tx[i].kind \in Trades -> 0
      [] Tx[i].kind = "OPENING_POSITION" -> effects[i].cost
      [] OTHER -> CashDelta(Tx[i])

\* Each standing sale was taken at a rounded average and at a rounded basis,
\* and each transaction applied rounded at most one cost and once the total.
Rounding ==
    SumFunction([i \in StandingSales |-> Slack * (Tx[i].quantity + 1)])
      + SumFunction([k \in Holding |-> Drift(k)]) + Slack * Cardinality(applied)

\* The cost that reversals have left on positions of which nothing is held,
\* which the result leaves out (portfolio/engine.py 349-350).
Stranded == SumFunction([k \in Holding \ Open |-> positions[k].cost])

Explained ==
    SumFunction([i \in Standing |-> Brought(i)]) + Realized + Unrealized - Stranded

\* The realized profit is unavailable exactly while a sale of unknown cost
\* stands, whatever was reversed: the two replays keep one account of it.
RealizedKnown == Realized = None <=> \E i \in StandingSales : effects[i].uncertain = 1

\* The books balance: cash, quantities and costs are conserved; the realized
\* profit is unavailable exactly while a sale of unknown cost stands; and the
\* value of the fund is what was brought into it, the realized and the
\* unrealized profit, less the cost stranded on flat positions, but for the
\* rounding of averages, though the two profits come from two replays and
\* reversals come long after (docs/domain/market-data-valuation.md 20-29).
BooksBalance ==
    /\ Conservation
    /\ RealizedKnown
    /\ Priced /\ Realized # None /\ Unrealized # None =>
         Explained - PortfolioValue \in (-Rounding)..Rounding
=============================================================================
