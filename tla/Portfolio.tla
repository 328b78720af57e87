----------------------------- MODULE Portfolio ------------------------------
(***************************************************************************)
(* PortfolioEngine.reconstruct of app/portfolio/engine.py: the replay of a *)
(* fund's ledger into cash and positions.                                  *)
(*                                                                         *)
(* The engine sorts the transactions up to the cutoff and applies them one *)
(* after the other; here a step applies one, in any order, because their   *)
(* timestamps may be any.  What holds after every step holds of the result *)
(* at every cutoff.  The engine keeps the effect each transaction had, and *)
(* a reversal applies the inverse of the recorded effect.  A transaction   *)
(* that cannot be applied raises, and the reconstruction has no result.    *)
(*                                                                         *)
(* Decimals are integers in a unit of their own.  Python rounds the result *)
(* of every operation to 28 significant digits, half to even.  Amounts of  *)
(* the ledger leave digits to spare, so what is computed from them alone   *)
(* is exact; a quotient uses all of them, and what it is part of may miss  *)
(* the exact result by some units either way, but keeps its sign.          *)
(***************************************************************************)
EXTENDS Integers, FiniteSets, Functions

CONSTANTS
    Id,         \* transaction ids
    Tx,         \* Tx[i]: the transaction with id i
    Account,
    Instrument,
    Scope,      \* accounts reconstructed: all of them, or the one asked for
    Grain,      \* the amounts of the ledger are multiples of it
    Slack,      \* by how much a rounded result may miss the exact one, for each share
    None        \* no instrument, price or target; no failing transaction

Originals ==
    {"BUY", "SELL", "CASH_DEPOSIT", "CASH_WITHDRAWAL", "DIVIDEND", "FEE",
     "OPENING_CASH", "OPENING_POSITION"}

Trades == {"BUY", "SELL"}

Positional == Trades \cup {"OPENING_POSITION"}

TransactionType == Originals \cup {"REVERSAL"}

\* _validate_transaction_shape: what reconstruct requires before it starts.
WellFormed(t) ==
    /\ t.kind \in TransactionType
    /\ t.account \in Account
    /\ t.kind \in Positional \cup {"DIVIDEND"} => t.instrument \in Instrument
    /\ t.kind \in Positional => t.quantity \in Nat \ {0}
    /\ t.kind \in Trades => t.price \in Nat \ {0} /\ t.fees \in Nat
    /\ t.kind = "OPENING_POSITION" => t.price \in (Nat \ {0}) \cup {None}
    /\ t.kind \in Originals \ Positional => t.amount \in Nat \ {0}
    /\ t.kind = "REVERSAL" => t.target \in Id

ASSUME TxAssumption == IsFiniteSet(Id) /\ \A i \in Id : WellFormed(Tx[i])
ASSUME NoneAssumption == None \notin Int \cup Id \cup Instrument
ASSUME ScopeAssumption == Scope \subseteq Account
ASSUME BookAssumption == IsFiniteSet(Account) /\ IsFiniteSet(Instrument)
ASSUME RoundingAssumption == Grain \in Nat \ {0} /\ Slack \in Nat

VARIABLES
    cash,       \* cash[a]: the cash of account a
    positions,  \* positions[k]: what is held under k = <<account, instrument>>
    effects,    \* effects[i]: what original i did when it was applied
    reversed,   \* reversed_targets: the originals reversed so far
    applied,    \* the transactions applied
    failed      \* the exception that ended the reconstruction, and its cause

vars == <<cash, positions, effects, reversed, applied, failed>>

-----------------------------------------------------------------------------
(* Rounding.                                                               *)

\* x is as short as an amount of the ledger.
Whole(x) == x % Grain = 0

\* What x + y may come to.
Totals(x, y) ==
    IF x = 0 \/ y = 0 \/ Whole(x + y) THEN {x + y}
    ELSE {z \in (x + y - Slack)..(x + y + Slack) : z # 0 /\ (z < 0 <=> x + y < 0)}

\* What n of d shares of x may come to, but for error.
Near(x, n, d, error) ==
    {z \in 0..(x + error) : z * d - x * n \in (-(error * d))..(error * d)}

-----------------------------------------------------------------------------
(* Effects.                                                                *)

Holding == Account \X Instrument

Flat == [quantity |-> 0, cost |-> 0, uncertain |-> 0]

NoEffect == [kind |-> "NONE"]

Success == [id |-> None, error |-> "NONE"]

Key(t) == <<t.account, t.instrument>>

\* What t adds to the cash of its account.
CashDelta(t) ==
    CASE t.kind = "BUY" -> -(t.quantity * t.price + t.fees)
      [] t.kind = "SELL" -> t.quantity * t.price - t.fees
      [] t.kind \in {"CASH_DEPOSIT", "DIVIDEND", "OPENING_CASH"} -> t.amount
      [] t.kind \in {"CASH_WITHDRAWAL", "FEE"} -> -t.amount
      [] OTHER -> 0

\* What it adds to the quantity held.
QuantityDelta(t) ==
    CASE t.kind \in {"BUY", "OPENING_POSITION"} -> t.quantity
      [] t.kind = "SELL" -> -t.quantity
      [] OTHER -> 0

\* The basis a sale may remove: the average cost of what is sold, a product
\* and then a quotient, or, while the cost is unknown, the known part of it
\* when all is sold.
Removable(t, p) ==
    IF t.kind # "SELL" THEN {0}
    ELSE IF p.uncertain # 0 THEN {IF t.quantity = p.quantity THEN p.cost ELSE 0}
    ELSE IF Whole(p.cost) /\ (p.cost * t.quantity) % (Grain * p.quantity) = 0
    THEN {(p.cost * t.quantity) \div p.quantity}
    ELSE Near(p.cost, t.quantity, p.quantity, Slack)

CostDelta(t, basis) ==
    CASE t.kind = "BUY" -> t.quantity * t.price + t.fees
      [] t.kind = "SELL" -> -basis
      [] t.kind = "OPENING_POSITION" /\ t.price # None -> t.quantity * t.price
      [] OTHER -> 0

\* Mutant of UncertaintyDelta: a known purchase makes a mixed position known.
MixedKnown(t, p) ==
    CASE t.kind = "BUY" /\ p.uncertain # 0 -> -1
      [] t.kind = "OPENING_POSITION" /\ t.price = None -> 1
      [] t.kind = "SELL" /\ p.uncertain # 0 -> 1
      [] OTHER -> 0

\* An opening position without a price, and every sale while the cost is
\* unknown, is one more reason for the cost to be unknown.
UncertaintyDelta(t, p) ==
    IF \/ t.kind = "OPENING_POSITION" /\ t.price = None
       \/ t.kind = "SELL" /\ p.uncertain # 0
    THEN 1 ELSE 0

\* The effect of original t on position p, when it removes this basis.
Effect(t, p, basis) ==
    [kind |-> t.kind, account |-> t.account,
     instrument |-> IF t.kind \in Positional THEN t.instrument ELSE None,
     cash |-> CashDelta(t), quantity |-> QuantityDelta(t),
     cost |-> CostDelta(t, basis), uncertain |-> UncertaintyDelta(t, p)]

\* _reversal_effect: what undoes effect e.
Inverted(e) ==
    [kind |-> "REVERSAL", account |-> e.account, instrument |-> e.instrument,
     cash |-> -e.cash, quantity |-> -e.quantity, cost |-> -e.cost, uncertain |-> -e.uncertain]

Position(t) == IF t.kind \in Positional THEN positions[Key(t)] ELSE Flat

\* Mutant of Reversible: no comparison of accounts.
ReversibleAnywhere(i) ==
    /\ effects[Tx[i].target] # NoEffect
    /\ Tx[i].target \notin reversed

\* The target of reversal i was applied before, is an original (reversals
\* leave no effect), is not reversed, and belongs to the same account.
Reversible(i) ==
    /\ effects[Tx[i].target] # NoEffect
    /\ Tx[i].target \notin reversed
    /\ effects[Tx[i].target].account = Tx[i].account

\* What position p may be with effect e.
Moved(p, e) ==
    [quantity : {p.quantity + e.quantity}, cost : Totals(p.cost, e.cost),
     uncertain : {p.uncertain + e.uncertain}]

\* Mutant of Refusal: a negative quantity is let through.
RefusalOfCost(p, e) ==
    IF p.cost + e.cost < 0 THEN "NEGATIVE_COST_BASIS"
    ELSE IF p.uncertain + e.uncertain < 0 THEN "UNCERTAINTY_ABSENT"
    ELSE "NONE"

\* _apply_position_effect: the exception effect e raises on position p.
Refusal(p, e) ==
    IF p.quantity + e.quantity < 0 THEN "NEGATIVE_HOLDING"
    ELSE IF p.cost + e.cost < 0 THEN "NEGATIVE_COST_BASIS"
    ELSE IF p.uncertain + e.uncertain < 0 THEN "UNCERTAINTY_ABSENT"
    ELSE "NONE"

-----------------------------------------------------------------------------
(* The replay.                                                             *)

Init ==
    /\ cash = [a \in Account |-> 0]
    /\ positions = [k \in Holding |-> Flat]
    /\ effects = [i \in Id |-> NoEffect]
    /\ reversed = {}
    /\ applied = {}
    /\ failed = Success

\* Transaction i comes next in the order.
IsNext(i) == failed = Success /\ i \notin applied /\ Tx[i].account \in Scope

Fail(i, error) ==
    /\ failed' = [id |-> i, error |-> error]
    /\ UNCHANGED <<cash, positions, effects, reversed, applied>>

\* Effect e reaches the cash and, if it has an instrument, the position.
Book(i, e) ==
    /\ cash' = [cash EXCEPT ![e.account] = @ + e.cash]
    /\ IF e.instrument = None
       THEN UNCHANGED positions
       ELSE \E p \in Moved(positions[<<e.account, e.instrument>>], e) :
              positions' = [positions EXCEPT ![<<e.account, e.instrument>>] = p]
    /\ applied' = applied \cup {i}
    /\ UNCHANGED failed

\* The exception booking e raises.
Error(e) == IF e.instrument = None THEN "NONE" ELSE Refusal(positions[<<e.account, e.instrument>>], e)

\* _apply_original refuses a sale of more than is held, or of nothing.
Oversold(t) == t.kind = "SELL" /\ t.quantity > positions[Key(t)].quantity

ApplyOriginal(i) ==
    LET t == Tx[i] IN
    /\ IsNext(i)
    /\ t.kind \in Originals
    /\ IF Oversold(t) THEN Fail(i, "NEGATIVE_HOLDING")
       ELSE \E basis \in Removable(t, Position(t)) :
              LET e == Effect(t, Position(t), basis) IN
              IF Error(e) # "NONE" THEN Fail(i, Error(e))
              ELSE /\ Book(i, e)
                   /\ effects' = [effects EXCEPT ![i] = e]
                   /\ UNCHANGED reversed

Reverse(i) ==
    LET e == Inverted(effects[Tx[i].target]) IN
    /\ IsNext(i)
    /\ Tx[i].kind = "REVERSAL"
    /\ Reversible(i)
    /\ IF Error(e) # "NONE" THEN Fail(i, Error(e))
       ELSE /\ Book(i, e)
            /\ reversed' = reversed \cup {Tx[i].target}
            /\ UNCHANGED effects

RejectReversal(i) ==
    /\ IsNext(i)
    /\ Tx[i].kind = "REVERSAL"
    /\ ~ Reversible(i)
    /\ Fail(i, "INVALID_REVERSAL")

Next == \E i \in Id : ApplyOriginal(i) \/ Reverse(i) \/ RejectReversal(i)

Spec == Init /\ [][Next]_vars

-----------------------------------------------------------------------------
(* The result.                                                             *)

\* _positions: flat positions are left out, and a position whose cost is
\* unknown says so.
BasisStatus(k) ==
    IF positions[k].quantity = 0 THEN "OMITTED"
    ELSE IF positions[k].uncertain # 0 THEN "UNKNOWN"
    ELSE "KNOWN"

-----------------------------------------------------------------------------
(* Properties.                                                             *)

EffectType ==
    [kind : TransactionType, account : Account, instrument : Instrument \cup {None},
     cash : Int, quantity : Int, cost : Int, uncertain : {0, 1}]

ErrorType == {"NEGATIVE_HOLDING", "NEGATIVE_COST_BASIS", "UNCERTAINTY_ABSENT", "INVALID_REVERSAL"}

\* The values reconstruct computes with have their types; holdings and known
\* costs are never negative at any point of the replay (section 14 of
\* docs/domain/transaction-semantics.md, the long-only constraint).
TypeOK ==
    /\ cash \in [Account -> Int]
    /\ positions \in [Holding -> [quantity : Nat, cost : Nat, uncertain : Nat]]
    /\ effects \in [Id -> EffectType \cup {NoEffect}]
    /\ reversed \subseteq Id
    /\ applied \subseteq Id
    /\ failed \in [id : Id, error : ErrorType] \cup {Success}

\* The facts that count: applied and not reversed.
Standing == {i \in applied : Tx[i].kind \in Originals /\ i \notin reversed}

StandingOf(k) == {i \in Standing : Tx[i].kind \in Positional /\ Key(Tx[i]) = k}

\* i books a cost under k, itself or by what it reverses.
Touches(i, k) ==
    LET t == IF Tx[i].kind = "REVERSAL" THEN Tx[Tx[i].target] ELSE Tx[i] IN
    t.kind \in Positional /\ Key(t) = k

\* Every cost booked under k was rounded once.
Drift(k) == Slack * Cardinality({i \in applied : Touches(i, k)})

\* Cash and quantities are what the standing facts add up to, a reversed
\* fact and its reversal cancelling exactly (section 14: holding and cash
\* conservation, reversal integrity); known costs are what the recorded
\* effects of the standing facts add up to, but for the rounding of sums.
Conservation ==
    /\ \A a \in Account :
         cash[a] = SumFunction([i \in {j \in Standing : Tx[j].account = a} |-> CashDelta(Tx[i])])
    /\ \A k \in Holding :
         /\ positions[k].quantity = SumFunction([i \in StandingOf(k) |-> QuantityDelta(Tx[i])])
         /\ positions[k].cost - SumFunction([i \in StandingOf(k) |-> effects[i].cost])
              \in (-Drift(k))..Drift(k)

\* What fact i acquired at a cost that is known.
KnownQuantity(i) ==
    IF Tx[i].kind = "BUY" \/ (Tx[i].kind = "OPENING_POSITION" /\ Tx[i].price # None)
    THEN Tx[i].quantity ELSE 0

\* A cost reported as KNOWN (_positions, 344-372) is the cost of all that is
\* held: no more is held than the standing facts acquired at known cost, after
\* any sales and reversals, and no reversal ever lacks the uncertainty it takes
\* back (the last check of _apply_position_effect cannot fire).
KnownCovered ==
    /\ failed.error # "UNCERTAINTY_ABSENT"
    /\ \A k \in Holding :
         BasisStatus(k) = "KNOWN" =>
           positions[k].quantity <= SumFunction([i \in StandingOf(k) |-> KnownQuantity(i)])

\* "Sales from an unknown-basis position preserve UNKNOWN until complete
\* liquidation" (docs/domain/portfolio-reconstruction.md 85): what is bought
\* when nothing is held is a position of known cost.
UnknownUntilLiquidation ==
    [][\A i \in applied' \ applied :
         Tx[i].kind = "BUY" /\ positions[Key(Tx[i])].quantity = 0
           => BasisStatus(Key(Tx[i]))' = "KNOWN"]_vars
=============================================================================
