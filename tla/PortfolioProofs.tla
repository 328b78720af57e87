-------------------------- MODULE PortfolioProofs ---------------------------
(***************************************************************************)
(* Proofs about Portfolio, PortfolioScopes and Valuation, for every ledger.*)
(***************************************************************************)
EXTENDS PortfolioScopes, Valuation, Sums

PositionType == [quantity : Nat, cost : Nat, uncertain : Nat]

\* What is booked: a recorded effect or its inverse.
BookedType ==
    [kind : TransactionType, account : Account, instrument : Instrument \cup {None},
     cash : Int, quantity : Int, cost : Int, uncertain : {-1, 0, 1}]

-----------------------------------------------------------------------------
(* Effects are well typed.                                                 *)

LEMMA TxShape ==
    ASSUME NEW i \in Id
    PROVE  WellFormed(Tx[i])
  BY TxAssumption

LEMMA KeyType ==
    ASSUME NEW i \in Id, Tx[i].kind \in Positional
    PROVE  Key(Tx[i]) \in Holding
  BY TxShape DEF WellFormed, Key, Holding

LEMMA PositionTyped ==
    ASSUME TypeOK, NEW i \in Id
    PROVE  Position(Tx[i]) \in PositionType
  BY KeyType DEF TypeOK, Position, PositionType, Flat

LEMMA CashDeltaType ==
    ASSUME NEW i \in Id
    PROVE  CashDelta(Tx[i]) \in Int
  <1> DEFINE t == Tx[i]
  <1>1. WellFormed(t)
    BY TxShape
  <1>2. CASE t.kind \in Trades
    <2>1. t.quantity \in Int /\ t.price \in Int /\ t.fees \in Int
      BY <1>1, <1>2 DEF WellFormed, Trades, Positional
    <2>2. t.quantity * t.price \in Int
      BY <2>1
    <2> QED
      BY <1>2, <2>1, <2>2 DEF CashDelta, Trades
  <1>3. CASE t.kind \in Originals \ Positional
    <2>1. t.amount \in Int
      BY <1>1, <1>3 DEF WellFormed
    <2> QED
      BY <1>3, <2>1 DEF CashDelta, Originals, Positional, Trades
  <1>4. CASE t.kind \in {"OPENING_POSITION", "REVERSAL"}
    BY <1>4 DEF CashDelta
  <1> QED
    BY <1>1, <1>2, <1>3, <1>4 DEF WellFormed, TransactionType, Originals, Positional, Trades

LEMMA QuantityDeltaType ==
    ASSUME NEW i \in Id
    PROVE  QuantityDelta(Tx[i]) \in Int
  <1>1. WellFormed(Tx[i])
    BY TxShape
  <1>2. CASE Tx[i].kind \in Positional
    <2>1. Tx[i].quantity \in Int
      BY <1>1, <1>2 DEF WellFormed
    <2> QED
      BY <1>2, <2>1 DEF QuantityDelta, Positional, Trades
  <1>3. CASE Tx[i].kind \notin Positional
    BY <1>3 DEF QuantityDelta, Positional, Trades
  <1> QED
    BY <1>2, <1>3

LEMMA CostDeltaType ==
    ASSUME NEW i \in Id, NEW basis \in Int
    PROVE  CostDelta(Tx[i], basis) \in Int
  <1> DEFINE t == Tx[i]
  <1>1. WellFormed(t)
    BY TxShape
  <1>2. CASE t.kind = "BUY" \/ (t.kind = "OPENING_POSITION" /\ t.price # None)
    <2>1. t.quantity \in Int /\ t.price \in Int /\ (t.kind = "BUY" => t.fees \in Int)
      BY <1>1, <1>2 DEF WellFormed, Trades, Positional
    <2>2. t.quantity * t.price \in Int
      BY <2>1
    <2> QED
      BY <1>2, <2>1, <2>2 DEF CostDelta
  <1>3. CASE t.kind \notin {"BUY"} /\ ~ (t.kind = "OPENING_POSITION" /\ t.price # None)
    BY <1>3 DEF CostDelta
  <1> QED
    BY <1>2, <1>3

\* What a sum may come to is close to it and has its sign.
LEMMA TotalsNear ==
    ASSUME NEW x \in Int, NEW y \in Int, NEW z \in Totals(x, y)
    PROVE  z \in Int /\ z - (x + y) \in (-Slack)..Slack /\ (z < 0 <=> x + y < 0)
  BY RoundingAssumption DEF Totals

LEMMA RemovableTyped ==
    ASSUME NEW i \in Id, NEW p \in PositionType,
           Tx[i].kind = "SELL" => Tx[i].quantity <= p.quantity,
           NEW basis \in Removable(Tx[i], p)
    PROVE  basis \in Int
  <1> DEFINE t == Tx[i]
  <1>1. CASE t.kind = "SELL"
    <2>1. t.quantity \in Nat \ {0} /\ p.cost \in Nat /\ p.quantity \in Nat
      BY <1>1, TxShape DEF WellFormed, Trades, Positional, PositionType
    <2>2. p.quantity > 0
      BY <1>1, <2>1
    <2>3. p.cost * t.quantity \in Int
      BY <2>1
    <2>4. (p.cost * t.quantity) \div p.quantity \in Int
      BY <2>1, <2>2, <2>3
    <2>5. CASE basis \in Near(p.cost, t.quantity, p.quantity, Slack)
      BY <2>5 DEF Near
    <2>6. CASE basis \in {0, p.cost, (p.cost * t.quantity) \div p.quantity}
      BY <2>1, <2>4, <2>6
    <2> QED
      BY <1>1, <2>5, <2>6 DEF Removable
  <1>2. CASE t.kind # "SELL"
    BY <1>2 DEF Removable
  <1> QED
    BY <1>1, <1>2

\* A sale that goes through sells no more than is held.
LEMMA SaleHeld ==
    ASSUME TypeOK, NEW i \in Id, ~ Oversold(Tx[i]), Tx[i].kind = "SELL"
    PROVE  Tx[i].quantity <= Position(Tx[i]).quantity
  <1> DEFINE t == Tx[i]
             p == Position(t)
  <1>1. p = positions[Key(t)]
    BY DEF Position, Positional, Trades
  <1>2. t.quantity \in Nat /\ p.quantity \in Nat
    BY PositionTyped, TxShape DEF WellFormed, Positional, Trades, PositionType
  <1> QED
    BY <1>1, <1>2 DEF Oversold

LEMMA EffectTyped ==
    ASSUME TypeOK, NEW i \in Id, ~ Oversold(Tx[i]), NEW basis \in Removable(Tx[i], Position(Tx[i]))
    PROVE  Effect(Tx[i], Position(Tx[i]), basis) \in EffectType
  <1> DEFINE t == Tx[i]
             p == Position(t)
  <1>1. t.kind \in TransactionType /\ t.account \in Account
    BY TxShape DEF WellFormed
  <1>2. basis \in Int
    BY PositionTyped, SaleHeld, RemovableTyped
  <1>3. CashDelta(t) \in Int /\ QuantityDelta(t) \in Int /\ CostDelta(t, basis) \in Int
    BY <1>2, CashDeltaType, QuantityDeltaType, CostDeltaType
  <1>4. UncertaintyDelta(t, p) \in {0, 1}
    BY DEF UncertaintyDelta
  <1>5. (IF t.kind \in Positional THEN t.instrument ELSE None) \in Instrument \cup {None}
    BY TxShape DEF WellFormed
  <1> HIDE DEF t, p
  <1> QED
    BY <1>1, <1>3, <1>4, <1>5 DEF Effect, EffectType, t, p

LEMMA InvertedTyped ==
    ASSUME NEW e \in EffectType
    PROVE  /\ Inverted(e) \in BookedType
           /\ Inverted(e).account = e.account
           /\ Inverted(e).instrument = e.instrument
           /\ Inverted(e).uncertain = -e.uncertain
  <1>1. /\ e.account \in Account /\ e.instrument \in Instrument \cup {None}
        /\ -e.cash \in Int /\ -e.quantity \in Int /\ -e.cost \in Int
        /\ -e.uncertain \in {-1, 0, 1}
    BY DEF EffectType
  <1>2. "REVERSAL" \in TransactionType
    BY DEF TransactionType
  <1> QED
    BY <1>1, <1>2 DEF BookedType, Inverted

LEMMA RecordedIsBooked == EffectType \subseteq BookedType
  BY DEF EffectType, BookedType

LEMMA EffectIsSome == NoEffect \notin EffectType
  BY DEF EffectType, NoEffect, TransactionType, Originals

\* What position p is after effect e.
LEMMA MovedTyped ==
    ASSUME NEW p \in PositionType, NEW e \in BookedType, NEW q \in Moved(p, e)
    PROVE  /\ q.quantity = p.quantity + e.quantity
           /\ q.uncertain = p.uncertain + e.uncertain
           /\ q.cost - (p.cost + e.cost) \in (-Slack)..Slack
           /\ Refusal(p, e) = "NONE" => q \in PositionType
  <1>1. /\ q.quantity = p.quantity + e.quantity /\ q.uncertain = p.uncertain + e.uncertain
        /\ q.cost \in Totals(p.cost, e.cost)
        /\ q = [quantity |-> q.quantity, cost |-> q.cost, uncertain |-> q.uncertain]
    BY DEF Moved
  <1>2. /\ p.cost \in Int /\ p.quantity \in Int /\ p.uncertain \in Int
        /\ e.cost \in Int /\ e.quantity \in Int /\ e.uncertain \in Int
    BY DEF PositionType, BookedType
  <1>3. q.cost \in Int /\ q.cost - (p.cost + e.cost) \in (-Slack)..Slack
        /\ (q.cost < 0 <=> p.cost + e.cost < 0)
    BY <1>1, <1>2, TotalsNear
  <1>4. ASSUME Refusal(p, e) = "NONE" PROVE q \in PositionType
    <2>1. q.quantity \in Nat /\ q.cost \in Nat /\ q.uncertain \in Nat
      BY <1>1, <1>2, <1>3, <1>4 DEF Refusal
    <2> QED
      BY <1>1, <2>1 DEF PositionType
  <1> QED
    BY <1>1, <1>3, <1>4

\* Booking e leaves the position it is about with it and the others alone.
LEMMA BookedPosition ==
    ASSUME TypeOK, NEW i, NEW e \in BookedType, Book(i, e), NEW k \in Holding
    PROVE  /\ e.instrument # None /\ <<e.account, e.instrument>> = k => positions'[k] \in Moved(positions[k], e)
           /\ ~ (e.instrument # None /\ <<e.account, e.instrument>> = k) => positions'[k] = positions[k]
  BY DEF Book, TypeOK

\* Booking a well-typed effect that raises nothing.
LEMMA BookTyped ==
    ASSUME TypeOK, NEW i \in Id, NEW e \in BookedType, Book(i, e), Error(e) = "NONE"
    PROVE  /\ cash' \in [Account -> Int]
           /\ positions' \in [Holding -> PositionType]
           /\ applied' \subseteq Id
           /\ failed' = failed
  <1>1. cash' \in [Account -> Int]
    <2>1. \A a \in Account : cash[a] + e.cash \in Int
      BY DEF TypeOK, BookedType
    <2> QED
      BY <2>1 DEF TypeOK, Book
  <1>2. positions' \in [Holding -> PositionType]
    <2>1. ASSUME NEW k \in Holding PROVE positions'[k] \in PositionType
      <3>1. positions[k] \in PositionType
        BY DEF TypeOK, PositionType
      <3>2. CASE e.instrument # None /\ <<e.account, e.instrument>> = k
        <4>1. positions'[k] \in Moved(positions[k], e) /\ Refusal(positions[k], e) = "NONE"
          BY <3>2, BookedPosition DEF Error
        <4> QED
          BY <3>1, <4>1, MovedTyped
      <3>3. CASE ~ (e.instrument # None /\ <<e.account, e.instrument>> = k)
        BY <3>1, <3>3, BookedPosition
      <3> QED
        BY <3>2, <3>3
    <2>2. positions' = [k \in Holding |-> positions'[k]]
      <3>1. positions = [k \in Holding |-> positions[k]]
        BY DEF TypeOK
      <3>2. positions' = positions \/ \E k, p : positions' = [positions EXCEPT ![k] = p]
        BY DEF Book
      <3> QED
        BY <3>1, <3>2
    <2> QED
      BY <2>1, <2>2
  <1> QED
    BY <1>1, <1>2 DEF Book, TypeOK

LEMMA FailTyped ==
    ASSUME TypeOK, NEW i \in Id, NEW error \in ErrorType, Fail(i, error)
    PROVE  TypeOK'
  BY DEF TypeOK, Fail, EffectType, ErrorType

LEMMA ErrorTyped ==
    ASSUME NEW e
    PROVE  Error(e) \in ErrorType \cup {"NONE"}
  BY DEF Error, Refusal, ErrorType

\* The effect reversal i inverts.
LEMMA ReversedEffect ==
    ASSUME TypeOK, NEW i \in Id, Tx[i].kind = "REVERSAL", Reversible(i)
    PROVE  Tx[i].target \in Id /\ effects[Tx[i].target] \in EffectType
  <1>1. Tx[i].target \in Id
    BY TxShape DEF WellFormed
  <1> QED
    BY <1>1 DEF TypeOK, Reversible

\* What a step of ApplyOriginal is when the original is booked, as e.
Records(i, e) ==
    /\ IsNext(i) /\ Tx[i].kind \in Originals /\ ~ Oversold(Tx[i])
    /\ \E basis \in Removable(Tx[i], Position(Tx[i])) : e = Effect(Tx[i], Position(Tx[i]), basis)
    /\ Error(e) = "NONE" /\ Book(i, e)
    /\ effects' = [effects EXCEPT ![i] = e] /\ reversed' = reversed

LEMMA OriginalSplit ==
    ASSUME NEW i \in Id, ApplyOriginal(i)
    PROVE  \/ Oversold(Tx[i]) /\ Fail(i, "NEGATIVE_HOLDING")
           \/ /\ ~ Oversold(Tx[i])
              /\ \E basis \in Removable(Tx[i], Position(Tx[i])) :
                   LET e == Effect(Tx[i], Position(Tx[i]), basis) IN
                   Error(e) # "NONE" /\ Fail(i, Error(e))
           \/ \E e : Records(i, e)
  <1>1. CASE Oversold(Tx[i])
    BY <1>1 DEF ApplyOriginal
  <1>2. CASE ~ Oversold(Tx[i])
    <2>1. PICK basis \in Removable(Tx[i], Position(Tx[i])) :
            LET e == Effect(Tx[i], Position(Tx[i]), basis) IN
            IF Error(e) # "NONE" THEN Fail(i, Error(e))
            ELSE Book(i, e) /\ effects' = [effects EXCEPT ![i] = e] /\ reversed' = reversed
      BY <1>2 DEF ApplyOriginal
    <2>2. IsNext(i) /\ Tx[i].kind \in Originals
      BY DEF ApplyOriginal
    <2>3. PICK e : e = Effect(Tx[i], Position(Tx[i]), basis)
      OBVIOUS
    <2>4. CASE Error(e) # "NONE"
      BY <1>2, <2>1, <2>3, <2>4
    <2>5. CASE Error(e) = "NONE"
      BY <1>2, <2>1, <2>2, <2>3, <2>5 DEF Records
    <2> QED
      BY <2>4, <2>5
  <1> QED
    BY <1>1, <1>2

LEMMA RecordsTyped ==
    ASSUME TypeOK, NEW i \in Id, NEW e, Records(i, e)
    PROVE  e \in EffectType /\ e \in BookedType /\ e # NoEffect
  <1>1. e \in EffectType
    BY EffectTyped DEF Records
  <1> QED
    BY <1>1, RecordedIsBooked, EffectIsSome

LEMMA TypeStep == TypeOK /\ [Next]_vars => TypeOK'
  <1> SUFFICES ASSUME TypeOK, [Next]_vars PROVE TypeOK'
    OBVIOUS
  <1>1. ASSUME NEW i \in Id, ApplyOriginal(i) PROVE TypeOK'
    <2>1. CASE \E error \in ErrorType : Fail(i, error)
      BY <2>1, FailTyped
    <2>2. ASSUME NEW e, Records(i, e) PROVE TypeOK'
      <3>1. Book(i, e) /\ effects' = [effects EXCEPT ![i] = e] /\ reversed' = reversed
            /\ Error(e) = "NONE"
        BY <2>2 DEF Records
      <3>2. e \in EffectType /\ e \in BookedType
        BY <2>2, RecordsTyped
      <3>3. /\ cash' \in [Account -> Int] /\ positions' \in [Holding -> PositionType]
            /\ applied' \subseteq Id /\ failed' = failed
        BY <3>1, <3>2, BookTyped
      <3>4. effects' \in [Id -> EffectType \cup {NoEffect}]
        BY <3>1, <3>2 DEF TypeOK
      <3> QED
        BY <3>1, <3>3, <3>4 DEF TypeOK, PositionType
    <2>3. "NEGATIVE_HOLDING" \in ErrorType
      BY DEF ErrorType
    <2> QED
      BY <1>1, <2>1, <2>2, <2>3, OriginalSplit, ErrorTyped
  <1>2. ASSUME NEW i \in Id, Reverse(i) PROVE TypeOK'
    <2> DEFINE e == Inverted(effects[Tx[i].target])
    <2>1. CASE Error(e) # "NONE"
      BY <1>2, <2>1, FailTyped, ErrorTyped DEF Reverse
    <2>2. CASE Error(e) = "NONE"
      <3>1. Book(i, e) /\ reversed' = reversed \cup {Tx[i].target} /\ effects' = effects
        BY <1>2, <2>2 DEF Reverse
      <3>2. Tx[i].target \in Id /\ e \in BookedType
        BY <1>2, ReversedEffect, InvertedTyped DEF Reverse
      <3> HIDE DEF e
      <3>3. /\ cash' \in [Account -> Int] /\ positions' \in [Holding -> PositionType]
            /\ applied' \subseteq Id /\ failed' = failed
        BY <2>2, <3>1, <3>2, BookTyped
      <3> QED
        BY <3>1, <3>2, <3>3 DEF TypeOK, PositionType
    <2> QED
      BY <2>1, <2>2
  <1>3. ASSUME NEW i \in Id, RejectReversal(i) PROVE TypeOK'
    BY <1>3, FailTyped DEF RejectReversal, ErrorType
  <1>4. CASE UNCHANGED vars
    BY <1>4 DEF vars, TypeOK, EffectType, ErrorType
  <1> QED
    BY <1>1, <1>2, <1>3, <1>4 DEF Next

LEMMA TypeInit == Init => TypeOK
  BY DEF Init, TypeOK, Flat, Success, NoEffect

\* The reconstruction computes with well-typed values, and no holding and no
\* known cost is negative at any point of any replay.
THEOREM TypeCorrect == Spec => []TypeOK
  BY TypeInit, TypeStep, PTL DEF Spec

-----------------------------------------------------------------------------
(* Unknown costs.                                                          *)

\* What makes the cost of k unknown: the standing facts that say so.
Doubts(k) == {i \in StandingOf(k) : effects[i].uncertain = 1}

\* The count a position keeps is the count of these facts.
DoubtsCounted ==
    /\ failed.error # "UNCERTAINTY_ABSENT"
    /\ \A k \in Holding : positions[k].uncertain = Cardinality(Doubts(k))

\* The recorded effects belong to applied originals and name their account.
EffectsSound ==
    /\ \A i \in Id : effects[i] # NoEffect <=> i \in applied /\ Tx[i].kind \in Originals
    /\ \A i \in Id : effects[i] # NoEffect =>
         /\ effects[i].account = Tx[i].account
         /\ effects[i].instrument = IF Tx[i].kind \in Positional THEN Tx[i].instrument ELSE None
         /\ effects[i].uncertain = 1 => Tx[i].kind \in Positional
         /\ Tx[i].kind = "OPENING_POSITION" /\ Tx[i].price = None => effects[i].uncertain = 1
    /\ \A i \in reversed : i \in Id /\ effects[i] # NoEffect

IInv == TypeOK /\ EffectsSound /\ DoubtsCounted

LEMMA DoubtsFinite ==
    ASSUME TypeOK, NEW k
    PROVE  IsFiniteSet(Doubts(k)) /\ Cardinality(Doubts(k)) \in Nat
  <1>1. Doubts(k) \in SUBSET Id
    BY DEF TypeOK, Doubts, StandingOf, Standing
  <1>2. IsFiniteSet(Id)
    BY TxAssumption
  <1>3. IsFiniteSet(Doubts(k))
    BY <1>1, <1>2, FS_Subset
  <1> QED
    BY <1>3, FS_CardinalityType

\* An instrument in an effect is an instrument.
LEMMA EffectKey ==
    ASSUME IInv, NEW i \in Id, effects[i] # NoEffect
    PROVE  /\ effects[i].instrument = None <=> Tx[i].kind \notin Positional
           /\ Tx[i].kind \in Positional => <<effects[i].account, effects[i].instrument>> = Key(Tx[i])
  <1>1. Tx[i].kind \in Positional => Tx[i].instrument # None
    BY TxShape, NoneAssumption DEF WellFormed
  <1> QED
    BY <1>1 DEF IInv, EffectsSound, Key

\* An original that is booked adds its own doubt, if it has one.
LEMMA OriginalDoubts ==
    ASSUME IInv, NEW i \in Id, NEW e, Records(i, e)
    PROVE  EffectsSound' /\ DoubtsCounted'
  <1>1. /\ IsNext(i) /\ Tx[i].kind \in Originals /\ Book(i, e)
        /\ effects' = [effects EXCEPT ![i] = e] /\ reversed' = reversed
    BY DEF Records
  <1>2. e \in EffectType /\ e \in BookedType /\ e # NoEffect
    BY RecordsTyped DEF IInv
  <1>3. /\ e.account = Tx[i].account
        /\ e.instrument = IF Tx[i].kind \in Positional THEN Tx[i].instrument ELSE None
        /\ e.uncertain = 1 => Tx[i].kind \in Positional
        /\ Tx[i].kind = "OPENING_POSITION" /\ Tx[i].price = None => e.uncertain = 1
    BY DEF Records, Effect, UncertaintyDelta, Positional, Trades
  <1>4. i \notin applied /\ effects[i] = NoEffect /\ i \notin reversed
    BY <1>1 DEF IsNext, IInv, EffectsSound
  <1>5. effects'[i] = e /\ \A j \in Id \ {i} : effects'[j] = effects[j]
    BY <1>1 DEF IInv, TypeOK
  <1>6. applied' = applied \cup {i} /\ failed' = failed
    BY <1>1 DEF Book
  <1>7. EffectsSound'
    BY <1>1, <1>2, <1>3, <1>4, <1>5, <1>6 DEF IInv, EffectsSound
  <1>8. ASSUME NEW k \in Holding PROVE positions'[k].uncertain = Cardinality(Doubts(k)')
    <2>1. Doubts(k)' = IF Tx[i].kind \in Positional /\ Key(Tx[i]) = k /\ e.uncertain = 1
                       THEN Doubts(k) \cup {i} ELSE Doubts(k)
      BY <1>1, <1>4, <1>5, <1>6 DEF Doubts, StandingOf, Standing, IInv, TypeOK
    <2>2. i \notin Doubts(k)
      BY <1>4 DEF Doubts, StandingOf, Standing
    <2>3. IsFiniteSet(Doubts(k)) /\ Cardinality(Doubts(k)) \in Nat
      BY DoubtsFinite DEF IInv
    <2>4. positions[k].uncertain = Cardinality(Doubts(k))
      BY DEF IInv, DoubtsCounted
    <2>5. CASE Tx[i].kind \in Positional /\ Key(Tx[i]) = k
      <3>1. e.instrument # None /\ <<e.account, e.instrument>> = k
        BY <1>3, <2>5, TxShape, NoneAssumption DEF Key, WellFormed
      <3>2. positions'[k] \in Moved(positions[k], e) /\ positions[k] \in PositionType
        BY <1>1, <1>2, <3>1, BookedPosition DEF IInv, TypeOK, PositionType
      <3>3. positions'[k].uncertain = positions[k].uncertain + e.uncertain
        BY <1>2, <3>2, MovedTyped
      <3>4. e.uncertain \in {0, 1}
        BY <1>2 DEF EffectType
      <3>5. CASE e.uncertain = 1
        <4>1. Cardinality(Doubts(k) \cup {i}) = Cardinality(Doubts(k)) + 1
          BY <2>2, <2>3, FS_AddElement
        <4> QED
          BY <2>1, <2>4, <2>5, <3>3, <3>5, <4>1
      <3>6. CASE e.uncertain = 0
        BY <2>1, <2>3, <2>4, <3>3, <3>6
      <3> QED
        BY <3>4, <3>5, <3>6
    <2>6. CASE ~ (Tx[i].kind \in Positional /\ Key(Tx[i]) = k)
      <3>1. e.instrument = None \/ <<e.account, e.instrument>> # k
        BY <1>3, <2>6 DEF Key
      <3>2. positions'[k] = positions[k]
        BY <1>1, <1>2, <3>1, BookedPosition DEF IInv
      <3> QED
        BY <2>1, <2>4, <2>6, <3>2
    <2> QED
      BY <2>5, <2>6
  <1> QED
    BY <1>6, <1>7, <1>8 DEF IInv, DoubtsCounted

\* A reversal that is booked takes its target's doubt back.
LEMMA ReversalDoubts ==
    ASSUME IInv, NEW i \in Id, IsNext(i), Tx[i].kind = "REVERSAL", Reversible(i),
           NEW e, e = Inverted(effects[Tx[i].target]),
           Book(i, e), effects' = effects, reversed' = reversed \cup {Tx[i].target}
    PROVE  EffectsSound' /\ DoubtsCounted'
  <1> DEFINE r == Tx[i].target
  <1>1. r \in Id /\ effects[r] \in EffectType /\ effects[r] # NoEffect /\ r \notin reversed
    BY ReversedEffect DEF IInv, Reversible
  <1>2. /\ e.account = effects[r].account /\ e.instrument = effects[r].instrument
        /\ e.uncertain = -effects[r].uncertain /\ e \in BookedType
    BY <1>1, InvertedTyped
  <1>3. applied' = applied \cup {i} /\ failed' = failed
    BY DEF Book
  <1>4. Tx[i].kind \notin Originals
    BY DEF Originals
  <1>5. EffectsSound'
    BY <1>1, <1>3, <1>4 DEF IInv, EffectsSound
  <1>6. r \in Standing
    BY <1>1 DEF Standing, IInv, EffectsSound
  <1>7. ASSUME NEW k \in Holding PROVE positions'[k].uncertain = Cardinality(Doubts(k)')
    <2>1. Doubts(k)' = Doubts(k) \ {r}
      BY <1>3, <1>4 DEF Doubts, StandingOf, Standing
    <2>2. IsFiniteSet(Doubts(k)) /\ Cardinality(Doubts(k)) \in Nat
      BY DoubtsFinite DEF IInv
    <2>3. positions[k].uncertain = Cardinality(Doubts(k))
      BY DEF IInv, DoubtsCounted
    <2>4. Cardinality(Doubts(k) \ {r}) = IF r \in Doubts(k) THEN Cardinality(Doubts(k)) - 1
                                         ELSE Cardinality(Doubts(k))
      BY <2>2, FS_RemoveElement
    <2>5. CASE Tx[r].kind \in Positional /\ Key(Tx[r]) = k
      <3>1. e.instrument # None /\ <<e.account, e.instrument>> = k
        BY <1>1, <1>2, <2>5, EffectKey
      <3>2. positions'[k] \in Moved(positions[k], e) /\ positions[k] \in PositionType
        BY <1>2, <3>1, BookedPosition DEF IInv, TypeOK, PositionType
      <3>3. positions'[k].uncertain = positions[k].uncertain - effects[r].uncertain
        <4>1. positions[k].uncertain \in Nat /\ effects[r].uncertain \in {0, 1}
          BY <1>1 DEF IInv, TypeOK, EffectType
        <4> QED
          BY <1>2, <3>2, <4>1, MovedTyped
      <3>4. r \in Doubts(k) <=> effects[r].uncertain = 1
        BY <1>6, <2>5 DEF Doubts, StandingOf
      <3>5. effects[r].uncertain \in {0, 1}
        BY <1>1 DEF EffectType
      <3> QED
        BY <2>1, <2>2, <2>3, <2>4, <3>3, <3>4, <3>5
    <2>6. CASE ~ (Tx[r].kind \in Positional /\ Key(Tx[r]) = k)
      <3>1. e.instrument = None \/ <<e.account, e.instrument>> # k
        BY <1>1, <1>2, <2>6, EffectKey
      <3>2. positions'[k] = positions[k]
        BY <1>2, <3>1, BookedPosition DEF IInv
      <3>3. r \notin Doubts(k)
        BY <2>6 DEF Doubts, StandingOf
      <3> QED
        BY <2>1, <2>3, <2>4, <3>2, <3>3
    <2> QED
      BY <2>5, <2>6
  <1> QED
    BY <1>3, <1>5, <1>7 DEF IInv, DoubtsCounted

\* The check for absent uncertainty does not fire.
LEMMA UncertaintyPresent ==
    ASSUME IInv, NEW i \in Id
    PROVE  /\ ~ Oversold(Tx[i]) =>
                \A basis \in Removable(Tx[i], Position(Tx[i])) :
                  Error(Effect(Tx[i], Position(Tx[i]), basis)) # "UNCERTAINTY_ABSENT"
           /\ Tx[i].kind = "REVERSAL" /\ Reversible(i) =>
                Error(Inverted(effects[Tx[i].target])) # "UNCERTAINTY_ABSENT"
  <1>1. ASSUME ~ Oversold(Tx[i]), NEW basis \in Removable(Tx[i], Position(Tx[i]))
        PROVE  Error(Effect(Tx[i], Position(Tx[i]), basis)) # "UNCERTAINTY_ABSENT"
    <2> DEFINE e == Effect(Tx[i], Position(Tx[i]), basis)
               k == <<e.account, e.instrument>>
    <2>1. e \in EffectType
      BY <1>1, EffectTyped DEF IInv
    <2> HIDE DEF e
    <2>2. ASSUME e.instrument # None PROVE ~ (positions[k].uncertain + e.uncertain < 0)
      <3>1. k \in Holding /\ e.uncertain \in {0, 1}
        BY <2>1, <2>2 DEF EffectType, Holding
      <3>2. positions[k].uncertain \in Nat
        BY <3>1 DEF IInv, TypeOK
      <3> QED
        BY <3>1, <3>2
    <2> QED
      BY <2>2 DEF Error, Refusal, e
  <1>2. ASSUME Tx[i].kind = "REVERSAL", Reversible(i)
        PROVE Error(Inverted(effects[Tx[i].target])) # "UNCERTAINTY_ABSENT"
    <2> DEFINE r == Tx[i].target
               e == Inverted(effects[r])
               k == <<e.account, e.instrument>>
    <2>1. /\ r \in Id /\ effects[r] \in EffectType /\ effects[r] # NoEffect /\ r \notin reversed
      BY <1>2, ReversedEffect DEF IInv, Reversible
    <2>2. /\ e.account = effects[r].account /\ e.instrument = effects[r].instrument
          /\ e.uncertain = -effects[r].uncertain
      BY <2>1, InvertedTyped
    <2>3. effects[r].uncertain \in {0, 1}
      BY <2>1 DEF EffectType
    <2> HIDE DEF e
    <2>4. ASSUME e.instrument # None PROVE ~ (positions[k].uncertain + e.uncertain < 0)
      <3>1. Tx[r].kind \in Positional /\ k = Key(Tx[r])
        BY <2>1, <2>2, <2>4, EffectKey
      <3>2. k \in Holding
        BY <2>1, <3>1, KeyType
      <3>3. positions[k].uncertain = Cardinality(Doubts(k)) /\ Cardinality(Doubts(k)) \in Nat
        BY <3>2, DoubtsFinite DEF IInv, DoubtsCounted
      <3>4. effects[r].uncertain = 1 => r \in Doubts(k)
        BY <2>1, <3>1 DEF Doubts, StandingOf, Standing, IInv, EffectsSound
      <3>5. r \in Doubts(k) => Cardinality(Doubts(k)) # 0
        BY DoubtsFinite, FS_EmptySet DEF IInv
      <3> QED
        BY <2>2, <2>3, <3>3, <3>4, <3>5
    <2> QED
      BY <2>4 DEF Error, Refusal, e
  <1> QED
    BY <1>1, <1>2

\* A failure leaves everything else alone.
LEMMA FailKeeps ==
    ASSUME IInv, NEW i \in Id, NEW error, error # "UNCERTAINTY_ABSENT", Fail(i, error)
    PROVE  EffectsSound' /\ DoubtsCounted'
  BY DEF IInv, Fail, EffectsSound, DoubtsCounted, Doubts, StandingOf, Standing

LEMMA InvariantStep == IInv /\ [Next]_vars => IInv'
  <1> SUFFICES ASSUME IInv, [Next]_vars PROVE EffectsSound' /\ DoubtsCounted'
    BY TypeStep DEF IInv
  <1>1. ASSUME NEW i \in Id, ApplyOriginal(i) PROVE EffectsSound' /\ DoubtsCounted'
    <2>1. CASE \E error : error # "UNCERTAINTY_ABSENT" /\ Fail(i, error)
      BY <2>1, FailKeeps
    <2>2. CASE \E e : Records(i, e)
      BY <2>2, OriginalDoubts
    <2> QED
      BY <1>1, <2>1, <2>2, OriginalSplit, UncertaintyPresent
  <1>2. ASSUME NEW i \in Id, Reverse(i) PROVE EffectsSound' /\ DoubtsCounted'
    <2> DEFINE e == Inverted(effects[Tx[i].target])
    <2>1. CASE Error(e) # "NONE"
      BY <1>2, <2>1, FailKeeps, UncertaintyPresent DEF Reverse
    <2>2. CASE Error(e) = "NONE"
      BY <1>2, <2>2, ReversalDoubts DEF Reverse
    <2> QED
      BY <2>1, <2>2
  <1>3. ASSUME NEW i \in Id, RejectReversal(i) PROVE EffectsSound' /\ DoubtsCounted'
    BY <1>3, FailKeeps DEF RejectReversal
  <1>4. CASE UNCHANGED vars
    BY <1>4 DEF vars, IInv, EffectsSound, DoubtsCounted, Doubts, StandingOf, Standing
  <1> QED
    BY <1>1, <1>2, <1>3, <1>4 DEF Next

LEMMA InvariantInit == Init => IInv
  <1> SUFFICES ASSUME Init PROVE IInv
    OBVIOUS
  <1>1. EffectsSound
    BY DEF Init, EffectsSound
  <1>2. \A k \in Holding : Doubts(k) = {} /\ positions[k].uncertain = 0
    BY DEF Init, Doubts, StandingOf, Standing, Flat
  <1>3. DoubtsCounted
    BY <1>2, FS_EmptySet DEF Init, DoubtsCounted, Success
  <1> QED
    BY <1>1, <1>3, TypeInit DEF IInv

\* The inductive invariant of the replay.
THEOREM Invariance == Spec => []IInv
  BY InvariantInit, InvariantStep, PTL DEF Spec

-----------------------------------------------------------------------------
(* Conservation.                                                           *)

\* A recorded effect names what the transaction itself adds; only the cost of
\* what is sold depends on when it was applied.
DeltasRecorded ==
    \A i \in Id : effects[i] # NoEffect =>
        /\ effects[i].cash = CashDelta(Tx[i])
        /\ effects[i].quantity = QuantityDelta(Tx[i])
        /\ Tx[i].kind \notin Positional => effects[i].cost = 0
        /\ Tx[i].kind = "BUY" => CashDelta(Tx[i]) + effects[i].cost = 0

Balanced == IInv /\ DeltasRecorded /\ Conservation

\* The terms Conservation adds up.
InAccount(a) == {i \in Standing : Tx[i].account = a}

CashTerms(a) == [i \in InAccount(a) |-> CashDelta(Tx[i])]

QuantityTerms(k) == [i \in StandingOf(k) |-> QuantityDelta(Tx[i])]

CostTerms(k) == [i \in StandingOf(k) |-> effects[i].cost]

LEMMA StandingHaveEffects ==
    ASSUME IInv
    PROVE  /\ IsFiniteSet(Standing) /\ Standing \subseteq Id
           /\ \A i \in Standing : effects[i] # NoEffect /\ effects[i] \in EffectType
  <1>1. Standing \in SUBSET Id
    BY DEF IInv, TypeOK, Standing
  <1>2. IsFiniteSet(Standing)
    BY <1>1, TxAssumption, FS_Subset
  <1>3. \A i \in Standing : effects[i] # NoEffect
    BY <1>1 DEF IInv, EffectsSound, Standing
  <1> QED
    BY <1>1, <1>2, <1>3 DEF IInv, TypeOK

TermsTyped ==
    /\ \A a : Terms(CashTerms(a))
    /\ \A k : Terms(QuantityTerms(k)) /\ Terms(CostTerms(k))

LEMMA TermsFinite == IInv => TermsTyped
  <1> SUFFICES ASSUME IInv PROVE TermsTyped
    OBVIOUS
  <1>1. \A S \in SUBSET Standing : IsFiniteSet(S)
    BY StandingHaveEffects, FS_Subset
  <1>2. \A a : Terms(CashTerms(a))
    <2> SUFFICES ASSUME NEW a PROVE Terms(CashTerms(a))
      OBVIOUS
    <2>1. InAccount(a) \in SUBSET Standing
      BY DEF InAccount
    <2>2. \A i \in InAccount(a) : CashDelta(Tx[i]) \in Int
      BY <2>1, StandingHaveEffects, CashDeltaType
    <2> QED
      BY <1>1, <2>1, <2>2 DEF CashTerms, Terms, Summable
  <1>3. \A k : Terms(QuantityTerms(k)) /\ Terms(CostTerms(k))
    <2> SUFFICES ASSUME NEW k PROVE Terms(QuantityTerms(k)) /\ Terms(CostTerms(k))
      OBVIOUS
    <2>1. StandingOf(k) \in SUBSET Standing
      BY DEF StandingOf
    <2>2. \A i \in StandingOf(k) : QuantityDelta(Tx[i]) \in Int /\ effects[i].cost \in Int
      BY <2>1, StandingHaveEffects, QuantityDeltaType DEF EffectType
    <2> QED
      BY <1>1, <2>1, <2>2 DEF QuantityTerms, CostTerms, Terms, Summable
  <1> QED
    BY <1>2, <1>3 DEF TermsTyped

\* What is booked is an effect of a standing fact more, or one less.
LEMMA BookedCash ==
    ASSUME IInv, NEW i, NEW e \in BookedType, Book(i, e), NEW a \in Account
    PROVE  cash'[a] = IF a = e.account THEN cash[a] + e.cash ELSE cash[a]
  BY DEF Book, IInv, TypeOK

\* Each transaction adds its own rounding to the position it touches.
LEMMA DriftGrows ==
    ASSUME TypeOK, NEW i \in Id, i \notin applied, applied' = applied \cup {i}, NEW k
    PROVE  /\ Drift(k) \in Nat
           /\ Drift(k)' = IF Touches(i, k) THEN Drift(k) + Slack ELSE Drift(k)
  <1> DEFINE S == {j \in applied : Touches(j, k)}
             T == {j \in applied' : Touches(j, k)}
  <1>1. Drift(k) = Slack * Cardinality(S) /\ Drift(k)' = Slack * Cardinality(T)
    BY DEF Drift, Touches
  <1>2. IsFiniteSet(S)
    BY TxAssumption, FS_Subset DEF TypeOK
  <1>3. Cardinality(S) \in Nat
    BY <1>2, FS_CardinalityType
  <1>4. Slack * Cardinality(S) \in Nat
    BY <1>3, RoundingAssumption
  <1>5. CASE Touches(i, k)
    <2>1. T = S \cup {i} /\ i \notin S
      BY <1>5
    <2>2. Cardinality(T) = Cardinality(S) + 1
      BY <1>2, <2>1, FS_AddElement
    <2>3. Slack * (Cardinality(S) + 1) = Slack * Cardinality(S) + Slack
      BY <1>3, RoundingAssumption
    <2> QED
      BY <1>1, <1>4, <1>5, <2>2, <2>3
  <1>6. CASE ~ Touches(i, k)
    <2>1. T = S
      BY <1>6
    <2> QED
      BY <1>1, <1>4, <1>6, <2>1
  <1> QED
    BY <1>5, <1>6

\* A position whose cost is within the rounding of what the standing facts
\* add up to, and to which an effect is added, and its cost to the facts.
LEMMA CostDrifts ==
    ASSUME NEW c \in Int, NEW s \in Int, NEW d \in Nat, c - s \in (-d)..d,
           NEW x \in Int, NEW z \in Int, z - (c + x) \in (-Slack)..Slack
    PROVE  z - (s + x) \in (-(d + Slack))..(d + Slack)
  BY RoundingAssumption

LEMMA OriginalBalances ==
    ASSUME Balanced, IInv', NEW i \in Id, NEW e, Records(i, e)
    PROVE  DeltasRecorded' /\ Conservation'
  <1>1. /\ IsNext(i) /\ Tx[i].kind \in Originals /\ Book(i, e)
        /\ effects' = [effects EXCEPT ![i] = e] /\ reversed' = reversed
    BY DEF Records
  <1>2. e \in EffectType /\ e \in BookedType
    BY RecordsTyped DEF Balanced, IInv
  <1>3. /\ e.account = Tx[i].account
        /\ e.instrument = IF Tx[i].kind \in Positional THEN Tx[i].instrument ELSE None
        /\ e.cash = CashDelta(Tx[i]) /\ e.quantity = QuantityDelta(Tx[i])
        /\ Tx[i].kind \notin Positional => e.cost = 0
    BY DEF Records, Effect, CostDelta, Positional, Trades
  <1>4. i \notin applied /\ effects[i] = NoEffect /\ i \notin reversed
    BY <1>1 DEF IsNext, Balanced, IInv, EffectsSound
  <1>5. effects'[i] = e /\ \A j \in Id \ {i} : effects'[j] = effects[j]
    BY <1>1 DEF Balanced, IInv, TypeOK
  <1>6. Standing' = Standing \cup {i} /\ i \notin Standing /\ Standing \subseteq Id
    BY <1>1, <1>4, StandingHaveEffects DEF Standing, Book, Balanced
  <1>7. DeltasRecorded'
    <2>1. ASSUME Tx[i].kind = "BUY" PROVE CashDelta(Tx[i]) + e.cost = 0
      <3>1. CashDelta(Tx[i]) = -(Tx[i].quantity * Tx[i].price + Tx[i].fees)
        BY <2>1 DEF CashDelta
      <3>2. e.cost = Tx[i].quantity * Tx[i].price + Tx[i].fees
        BY <2>1 DEF Records, Effect, CostDelta
      <3>3. e.cost \in Int
        BY <1>2 DEF EffectType
      <3> QED
        BY <3>1, <3>2, <3>3
    <2> QED
      BY <1>3, <1>5, <2>1 DEF Balanced, DeltasRecorded
  <1>8. TermsTyped'
    BY TermsFinite, PTL
  <1>9. ASSUME NEW a \in Account PROVE cash'[a] = SumFunction(CashTerms(a)')
    <2>1. cash[a] = SumFunction(CashTerms(a))
      BY DEF Balanced, Conservation, CashTerms, InAccount
    <2>2. cash'[a] = IF a = e.account THEN cash[a] + e.cash ELSE cash[a]
      BY <1>1, <1>2, BookedCash DEF Balanced
    <2>3. CASE a # e.account
      <3>1. CashTerms(a)' = CashTerms(a)
        BY <1>3, <1>6, <2>3 DEF CashTerms, InAccount
      <3> QED
        BY <2>1, <2>2, <2>3, <3>1
    <2>4. CASE a = e.account
      <3>1. PICK f, g : f = CashTerms(a) /\ g = CashTerms(a)'
        OBVIOUS
      <3>2. /\ i \notin DOMAIN f /\ DOMAIN g = DOMAIN f \cup {i}
            /\ \A j \in DOMAIN f : g[j] = f[j]
            /\ g[i] = CashDelta(Tx[i])
        BY <1>3, <1>6, <2>4, <3>1 DEF CashTerms, InAccount
      <3>3. Terms(g)
        BY <1>8, <3>1 DEF TermsTyped
      <3>4. SumFunction(g) = SumFunction(f) + g[i]
        BY <3>2, <3>3, TermAdded
      <3> QED
        BY <1>3, <2>1, <2>2, <2>4, <3>1, <3>2, <3>4
    <2> QED
      BY <2>3, <2>4
  <1>10. ASSUME NEW k \in Holding
        PROVE  /\ positions'[k].quantity = SumFunction(QuantityTerms(k)')
               /\ positions'[k].cost - SumFunction(CostTerms(k)') \in (-(Drift(k)'))..Drift(k)'
    <2>1. /\ positions[k].quantity = SumFunction(QuantityTerms(k))
          /\ positions[k].cost - SumFunction(CostTerms(k)) \in (-Drift(k))..Drift(k)
      BY DEF Balanced, Conservation, QuantityTerms, CostTerms
    <2>2. Drift(k) \in Nat /\ Drift(k)' = IF Touches(i, k) THEN Drift(k) + Slack ELSE Drift(k)
      BY <1>1, <1>4, DriftGrows DEF Balanced, IInv, Book
    <2>3. Touches(i, k) <=> Tx[i].kind \in Positional /\ Key(Tx[i]) = k
      BY <1>1 DEF Touches, Originals
    <2>4. e.instrument # None /\ <<e.account, e.instrument>> = k <=> Tx[i].kind \in Positional /\ Key(Tx[i]) = k
      BY <1>3, TxShape, NoneAssumption DEF Key, WellFormed
    <2>5. \A j \in StandingOf(k) : effects'[j] = effects[j]
      BY <1>5, <1>6 DEF StandingOf
    <2>6. CASE ~ (Tx[i].kind \in Positional /\ Key(Tx[i]) = k)
      <3>1. StandingOf(k)' = StandingOf(k)
        BY <1>6, <2>6 DEF StandingOf
      <3>2. QuantityTerms(k)' = QuantityTerms(k) /\ CostTerms(k)' = CostTerms(k)
        BY <2>5, <3>1 DEF QuantityTerms, CostTerms
      <3>3. positions'[k] = positions[k]
        BY <1>1, <1>2, <2>4, <2>6, BookedPosition DEF Balanced, IInv
      <3> QED
        BY <2>1, <2>6, <2>2, <2>3, <3>2, <3>3
    <2>7. CASE Tx[i].kind \in Positional /\ Key(Tx[i]) = k
      <3>1. StandingOf(k)' = StandingOf(k) \cup {i} /\ i \notin StandingOf(k)
        BY <1>6, <2>7 DEF StandingOf
      <3>2. positions'[k] \in Moved(positions[k], e) /\ positions[k] \in PositionType
            /\ positions'[k] \in PositionType
        BY <1>1, <1>2, <2>4, <2>7, BookedPosition DEF Balanced, IInv, TypeOK, PositionType
      <3>3. /\ positions'[k].quantity = positions[k].quantity + e.quantity
             /\ positions'[k].cost - (positions[k].cost + e.cost) \in (-Slack)..Slack
        BY <1>2, <3>2, MovedTyped
      <3>4. PICK f, g : f = QuantityTerms(k) /\ g = QuantityTerms(k)'
        OBVIOUS
      <3>5. /\ i \notin DOMAIN f /\ DOMAIN g = DOMAIN f \cup {i}
            /\ \A j \in DOMAIN f : g[j] = f[j]
            /\ g[i] = e.quantity
        BY <1>3, <3>1, <3>4 DEF QuantityTerms
      <3>6. Terms(g)
        BY <1>8, <3>4 DEF TermsTyped
      <3>7. SumFunction(g) = SumFunction(f) + g[i]
        BY <3>5, <3>6, TermAdded
      <3>8. PICK c, d : c = CostTerms(k) /\ d = CostTerms(k)'
        OBVIOUS
      <3>9. /\ i \notin DOMAIN c /\ DOMAIN d = DOMAIN c \cup {i}
            /\ \A j \in DOMAIN c : d[j] = c[j]
            /\ d[i] = e.cost
        BY <1>5, <2>5, <3>1, <3>8 DEF CostTerms
      <3>10. Terms(d)
        BY <1>8, <3>8 DEF TermsTyped
      <3>11. SumFunction(d) = SumFunction(c) + d[i] /\ SumFunction(c) \in Int
        BY <3>9, <3>10, TermAdded
      <3>12. positions'[k].cost - SumFunction(d) \in (-(Drift(k) + Slack))..(Drift(k) + Slack)
        <4>1. positions[k].cost \in Int /\ positions'[k].cost \in Int /\ e.cost \in Int
          BY <1>2, <3>2 DEF PositionType, EffectType
        <4>2. positions[k].cost - SumFunction(c) \in (-Drift(k))..Drift(k)
          BY <2>1, <3>8
        <4> QED
          BY <2>2, <3>9, <3>11, <3>3, <4>1, <4>2, CostDrifts
      <3> QED
        BY <2>1, <2>7, <2>2, <2>3, <3>3, <3>4, <3>5, <3>7, <3>8, <3>12
    <2> QED
      BY <2>6, <2>7
  <1> QED
    BY <1>7, <1>9, <1>10 DEF Conservation, CashTerms, InAccount, QuantityTerms, CostTerms

LEMMA ReversalBalances ==
    ASSUME Balanced, IInv', NEW i \in Id, IsNext(i), Tx[i].kind = "REVERSAL", Reversible(i),
           NEW e, e = Inverted(effects[Tx[i].target]),
           Book(i, e), effects' = effects, reversed' = reversed \cup {Tx[i].target}
    PROVE  DeltasRecorded' /\ Conservation'
  <1>1. PICK r : r = Tx[i].target
    OBVIOUS
  <1>2. r \in Id /\ effects[r] \in EffectType /\ effects[r] # NoEffect /\ r \notin reversed
    BY <1>1, ReversedEffect DEF Balanced, IInv, Reversible
  <1>3. /\ e \in BookedType
        /\ e.account = effects[r].account /\ e.instrument = effects[r].instrument
        /\ e.cash = -effects[r].cash /\ e.quantity = -effects[r].quantity /\ e.cost = -effects[r].cost
    BY <1>1, <1>2, InvertedTyped DEF Inverted
  <1>4. /\ effects[r].account = Tx[r].account
        /\ effects[r].cash = CashDelta(Tx[r]) /\ effects[r].quantity = QuantityDelta(Tx[r])
        /\ effects[r].cash \in Int /\ effects[r].quantity \in Int /\ effects[r].cost \in Int
    BY <1>2 DEF Balanced, IInv, EffectsSound, DeltasRecorded, EffectType
  <1>5. Standing' = Standing \ {r} /\ r \in Standing
    BY <1>1, <1>2 DEF Standing, Book, Originals, Balanced, IInv, EffectsSound
  <1>6. DeltasRecorded'
    BY DEF Balanced, DeltasRecorded
  <1>7. TermsTyped
    BY TermsFinite DEF Balanced
  <1>8. ASSUME NEW a \in Account PROVE cash'[a] = SumFunction(CashTerms(a)')
    <2>1. cash[a] = SumFunction(CashTerms(a))
      BY DEF Balanced, Conservation, CashTerms, InAccount
    <2>2. cash'[a] = IF a = e.account THEN cash[a] + e.cash ELSE cash[a]
      BY <1>3, BookedCash DEF Balanced
    <2>3. CASE a # e.account
      <3>1. CashTerms(a)' = CashTerms(a)
        BY <1>3, <1>4, <1>5, <2>3 DEF CashTerms, InAccount
      <3> QED
        BY <2>1, <2>2, <2>3, <3>1
    <2>4. CASE a = e.account
      <3>1. PICK f, g : f = CashTerms(a)' /\ g = CashTerms(a)
        OBVIOUS
      <3>2. /\ r \notin DOMAIN f /\ DOMAIN g = DOMAIN f \cup {r}
            /\ \A j \in DOMAIN f : g[j] = f[j]
            /\ g[r] = CashDelta(Tx[r])
        BY <1>3, <1>4, <1>5, <2>4, <3>1 DEF CashTerms, InAccount
      <3>3. Terms(g)
        BY <1>7, <3>1 DEF TermsTyped
      <3>4. SumFunction(g) = SumFunction(f) + g[r] /\ SumFunction(f) \in Int
        BY <3>2, <3>3, TermAdded
      <3> QED
        BY <1>3, <1>4, <2>1, <2>2, <2>4, <3>1, <3>2, <3>4
    <2> QED
      BY <2>3, <2>4
  <1>9. ASSUME NEW k \in Holding
        PROVE  /\ positions'[k].quantity = SumFunction(QuantityTerms(k)')
               /\ positions'[k].cost - SumFunction(CostTerms(k)') \in (-(Drift(k)'))..Drift(k)'
    <2>1. /\ positions[k].quantity = SumFunction(QuantityTerms(k))
          /\ positions[k].cost - SumFunction(CostTerms(k)) \in (-Drift(k))..Drift(k)
      BY DEF Balanced, Conservation, QuantityTerms, CostTerms
    <2>2. Drift(k) \in Nat /\ Drift(k)' = IF Touches(i, k) THEN Drift(k) + Slack ELSE Drift(k)
      BY DriftGrows DEF Balanced, IInv, Book, IsNext
    <2>3. Touches(i, k) <=> Tx[r].kind \in Positional /\ Key(Tx[r]) = k
      BY <1>1 DEF Touches
    <2>4. e.instrument # None /\ <<e.account, e.instrument>> = k <=> Tx[r].kind \in Positional /\ Key(Tx[r]) = k
      BY <1>2, <1>3, EffectKey DEF Balanced
    <2>5. CASE ~ (Tx[r].kind \in Positional /\ Key(Tx[r]) = k)
      <3>1. StandingOf(k)' = StandingOf(k)
        BY <1>5, <2>5 DEF StandingOf
      <3>2. QuantityTerms(k)' = QuantityTerms(k) /\ CostTerms(k)' = CostTerms(k)
        BY <3>1 DEF QuantityTerms, CostTerms
      <3>3. positions'[k] = positions[k]
        BY <1>3, <2>4, <2>5, BookedPosition DEF Balanced, IInv
      <3> QED
        BY <2>1, <2>5, <2>2, <2>3, <3>2, <3>3
    <2>6. CASE Tx[r].kind \in Positional /\ Key(Tx[r]) = k
      <3>1. StandingOf(k)' = StandingOf(k) \ {r} /\ r \in StandingOf(k)
        BY <1>5, <2>6 DEF StandingOf
      <3>2. positions'[k] \in Moved(positions[k], e) /\ positions[k] \in PositionType
            /\ positions'[k] \in PositionType
        BY <1>3, <2>4, <2>6, BookedPosition DEF Balanced, IInv, TypeOK, PositionType
      <3>3. /\ positions'[k].quantity = positions[k].quantity + e.quantity
             /\ positions'[k].cost - (positions[k].cost + e.cost) \in (-Slack)..Slack
        BY <1>3, <3>2, MovedTyped
      <3>4. PICK f, g : f = QuantityTerms(k)' /\ g = QuantityTerms(k)
        OBVIOUS
      <3>5. /\ r \notin DOMAIN f /\ DOMAIN g = DOMAIN f \cup {r}
            /\ \A j \in DOMAIN f : g[j] = f[j]
            /\ g[r] = effects[r].quantity
        BY <1>4, <3>1, <3>4 DEF QuantityTerms
      <3>6. Terms(g)
        BY <1>7, <3>4 DEF TermsTyped
      <3>7. SumFunction(g) = SumFunction(f) + g[r] /\ SumFunction(f) \in Int
        BY <3>5, <3>6, TermAdded
      <3>8. PICK c, d : c = CostTerms(k)' /\ d = CostTerms(k)
        OBVIOUS
      <3>9. /\ r \notin DOMAIN c /\ DOMAIN d = DOMAIN c \cup {r}
            /\ \A j \in DOMAIN c : d[j] = c[j]
            /\ d[r] = effects[r].cost
        BY <3>1, <3>8 DEF CostTerms
      <3>10. Terms(d)
        BY <1>7, <3>8 DEF TermsTyped
      <3>11. SumFunction(d) = SumFunction(c) + d[r] /\ SumFunction(c) \in Int
        BY <3>9, <3>10, TermAdded
      <3>12. positions'[k].cost - SumFunction(c) \in (-(Drift(k) + Slack))..(Drift(k) + Slack)
        <4>1. positions[k].cost \in Int /\ positions'[k].cost \in Int /\ e.cost \in Int /\ SumFunction(d) \in Int
          BY <1>3, <1>4, <3>2, <3>9, <3>11 DEF PositionType
        <4>2. positions[k].cost - SumFunction(d) \in (-Drift(k))..Drift(k)
          BY <2>1, <3>8
        <4>3. SumFunction(c) = SumFunction(d) + e.cost
          BY <1>3, <1>4, <3>9, <3>11
        <4> QED
          BY <2>2, <3>3, <4>1, <4>2, <4>3, CostDrifts
      <3> QED
        BY <1>3, <1>4, <2>1, <2>6, <2>2, <2>3, <3>3, <3>4, <3>5, <3>7, <3>8, <3>12
    <2> QED
      BY <2>5, <2>6
  <1> QED
    BY <1>6, <1>8, <1>9 DEF Conservation, CashTerms, InAccount, QuantityTerms, CostTerms

LEMMA BalanceInit == Init => DeltasRecorded /\ Conservation
  <1> SUFFICES ASSUME Init PROVE DeltasRecorded /\ Conservation
    OBVIOUS
  <1>1. Standing = {}
    BY DEF Init, Standing
  <1>2. \A k : DOMAIN QuantityTerms(k) = {} /\ DOMAIN CostTerms(k) = {} /\ DOMAIN CashTerms(k) = {}
    BY <1>1 DEF QuantityTerms, CostTerms, StandingOf, CashTerms, InAccount
  <1>3. \A k : SumFunction(QuantityTerms(k)) = 0 /\ SumFunction(CostTerms(k)) = 0 /\ SumFunction(CashTerms(k)) = 0
    BY <1>2, NoTerms
  <1>4. \A k : Drift(k) \in Nat
    <2> SUFFICES ASSUME NEW k PROVE Drift(k) \in Nat
      OBVIOUS
    <2>1. {i \in applied : Touches(i, k)} = {}
      BY DEF Init
    <2>2. Drift(k) = Slack * 0
      BY <2>1, FS_EmptySet DEF Drift
    <2> QED
      BY <2>2, RoundingAssumption
  <1>5. Conservation
    <2>1. \A k \in Holding : positions[k].cost - 0 \in (-Drift(k))..Drift(k)
      <3> SUFFICES ASSUME NEW k \in Holding PROVE positions[k].cost - 0 \in (-Drift(k))..Drift(k)
        OBVIOUS
      <3>1. positions[k].cost = 0
        BY DEF Init, Flat
      <3> QED
        BY <1>4, <3>1
    <2>2. \A k \in Holding : positions[k].quantity = 0
      BY DEF Init, Flat
    <2>3. \A a \in Account : cash[a] = 0
      BY DEF Init
    <2> QED
      BY <1>3, <2>1, <2>2, <2>3 DEF Conservation, CashTerms, InAccount, QuantityTerms, CostTerms
  <1> QED
    BY <1>5 DEF Init, DeltasRecorded

LEMMA BalanceStep == Balanced /\ IInv' /\ [Next]_vars => Balanced'
  <1> SUFFICES ASSUME Balanced, IInv', [Next]_vars PROVE DeltasRecorded' /\ Conservation'
    BY DEF Balanced
  <1>1. ASSUME NEW i \in Id, NEW error, Fail(i, error) PROVE DeltasRecorded' /\ Conservation'
    BY <1>1 DEF Fail, Balanced, DeltasRecorded, Conservation, StandingOf, Standing, Drift
  <1>2. ASSUME NEW i \in Id, ApplyOriginal(i) PROVE DeltasRecorded' /\ Conservation'
    BY <1>1, <1>2, OriginalSplit, OriginalBalances
  <1>3. ASSUME NEW i \in Id, Reverse(i) PROVE DeltasRecorded' /\ Conservation'
    <2>1. PICK e : e = Inverted(effects[Tx[i].target])
      OBVIOUS
    <2>2. \/ \E error : Fail(i, error)
          \/ /\ IsNext(i) /\ Tx[i].kind = "REVERSAL" /\ Reversible(i)
             /\ Book(i, e) /\ effects' = effects /\ reversed' = reversed \cup {Tx[i].target}
      BY <1>3, <2>1 DEF Reverse
    <2> QED
      BY <1>1, <2>1, <2>2, ReversalBalances
  <1>4. ASSUME NEW i \in Id, RejectReversal(i) PROVE DeltasRecorded' /\ Conservation'
    BY <1>1, <1>4 DEF RejectReversal
  <1>5. CASE UNCHANGED vars
    BY <1>5 DEF vars, Balanced, DeltasRecorded, Conservation, StandingOf, Standing, Drift
  <1> QED
    BY <1>2, <1>3, <1>4, <1>5 DEF Next

\* Cash, quantities and costs are what the facts that stand add up to, in
\* every replay of every ledger, whatever was reversed and in whichever order
\* (portfolio/engine.py 206-342).
THEOREM BooksConserved == Spec => []Balanced
  <1>1. Init => Balanced
    BY InvariantInit, BalanceInit DEF Balanced
  <1> QED
    BY <1>1, BalanceStep, Invariance, PTL DEF Spec

\* What k holds is at most what the standing facts acquired.
Acquired(k) == [i \in StandingOf(k) |-> KnownQuantity(i)]

\* A cost reported as known is the cost of all that is held, whatever was
\* sold and reversed: no opening position without a price stands under it
\* (portfolio/engine.py 249-267 and 344-372).
THEOREM KnownIsCovered == Spec => []KnownCovered
  <1>1. ASSUME Balanced, NEW k \in Holding, BasisStatus(k) = "KNOWN"
        PROVE  positions[k].quantity <= SumFunction(Acquired(k))
    <2>1. Doubts(k) = {}
      <3>1. Cardinality(Doubts(k)) = 0
        BY <1>1 DEF Balanced, IInv, DoubtsCounted, BasisStatus
      <3> QED
        BY <1>1, <3>1, DoubtsFinite, FS_EmptySet DEF Balanced, IInv
    <2>2. ASSUME NEW i \in StandingOf(k) PROVE KnownQuantity(i) \in Int /\ QuantityDelta(Tx[i]) <= KnownQuantity(i)
      <3>1. i \in Id /\ Tx[i].kind \in Positional /\ effects[i] # NoEffect
        BY <1>1, StandingHaveEffects DEF StandingOf, Balanced
      <3>2. Tx[i].quantity \in Nat
        BY <3>1, TxShape DEF WellFormed
      <3>3. ~ (Tx[i].kind = "OPENING_POSITION" /\ Tx[i].price = None)
        BY <1>1, <2>1, <3>1 DEF Doubts, Balanced, IInv, EffectsSound
      <3> QED
        BY <3>1, <3>2, <3>3 DEF KnownQuantity, QuantityDelta, Positional, Trades
    <2>3. PICK f, g : f = QuantityTerms(k) /\ g = Acquired(k)
      OBVIOUS
    <2>4. /\ DOMAIN f = StandingOf(k) /\ DOMAIN g = StandingOf(k)
          /\ \A i \in StandingOf(k) : f[i] \in Int /\ g[i] \in Int /\ f[i] <= g[i]
      BY <1>1, <2>2, <2>3, TermsFinite DEF QuantityTerms, Acquired, TermsTyped, Terms, Summable, Balanced
    <2>5. IsFiniteSet(StandingOf(k))
      BY <1>1, StandingHaveEffects, FS_Subset DEF StandingOf, Balanced
    <2>6. SumFunctionOnSet(f, StandingOf(k)) <= SumFunctionOnSet(g, StandingOf(k))
      BY <2>4, <2>5, SumOrder DEF Summable
    <2>7. SumFunction(f) <= SumFunction(g)
      BY <2>4, <2>6 DEF SumFunction
    <2>8. positions[k].quantity = SumFunction(f)
      BY <1>1, <2>3 DEF Balanced, Conservation, QuantityTerms
    <2> QED
      BY <2>3, <2>7, <2>8
  <1>2. Balanced => KnownCovered
    BY <1>1 DEF Balanced, IInv, DoubtsCounted, KnownCovered, Acquired
  <1> QED
    BY <1>2, BooksConserved, PTL

-----------------------------------------------------------------------------
(* One account of the fund.                                                *)

LEMMA SameKinds ==
    /\ OneAccount!Originals = Originals
    /\ OneAccount!Positional = Positional
    /\ OneAccount!NoEffect = NoEffect
    /\ OneAccount!Success = Success
    /\ OneAccount!Flat = Flat
    /\ OneAccount!Holding = Holding
  BY DEF OneAccount!Originals, Originals, OneAccount!Positional, Positional, OneAccount!Trades,
         Trades, OneAccount!NoEffect, NoEffect, OneAccount!Success, Success, OneAccount!Flat,
         Flat, OneAccount!Holding, Holding

LEMMA SameEffect ==
    ASSUME NEW t, NEW p, NEW basis
    PROVE  OneAccount!Effect(t, p, basis) = Effect(t, p, basis)
  <1>1. OneAccount!CashDelta(t) = CashDelta(t)
    BY DEF OneAccount!CashDelta, CashDelta
  <1>2. OneAccount!QuantityDelta(t) = QuantityDelta(t)
    BY DEF OneAccount!QuantityDelta, QuantityDelta
  <1>3. OneAccount!CostDelta(t, basis) = CostDelta(t, basis)
    BY DEF OneAccount!CostDelta, CostDelta
  <1>4. OneAccount!UncertaintyDelta(t, p) = UncertaintyDelta(t, p)
    BY DEF OneAccount!UncertaintyDelta, UncertaintyDelta
  <1> QED
    BY <1>1, <1>2, <1>3, <1>4, SameKinds DEF OneAccount!Effect, Effect

LEMMA SameRounding ==
    /\ \A t, p : OneAccount!Removable(t, p) = Removable(t, p)
    /\ \A x, y : OneAccount!Totals(x, y) = Totals(x, y)
  <1>1. \A x : OneAccount!Whole(x) = Whole(x)
    BY DEF OneAccount!Whole, Whole
  <1>2. \A x, n, d, error : OneAccount!Near(x, n, d, error) = Near(x, n, d, error)
    BY DEF OneAccount!Near, Near
  <1> QED
    BY <1>1, <1>2 DEF OneAccount!Removable, Removable, OneAccount!Totals, Totals

LEMMA SameInverted ==
    ASSUME NEW e
    PROVE  OneAccount!Inverted(e) = Inverted(e)
  BY DEF OneAccount!Inverted, Inverted

LEMMA SameMoved ==
    ASSUME NEW p, NEW e
    PROVE  OneAccount!Moved(p, e) = Moved(p, e) /\ OneAccount!Refusal(p, e) = Refusal(p, e)
  <1>1. OneAccount!Moved(p, e) = Moved(p, e)
    BY SameRounding DEF OneAccount!Moved, Moved
  <1> QED
    BY <1>1 DEF OneAccount!Refusal, Refusal

\* The positions of the account are the fund's.
LEMMA FocusHolding ==
    ASSUME NEW x \in Instrument
    PROVE  <<Focus, x>> \in Holding /\ FocusPositions[<<Focus, x>>] = positions[<<Focus, x>>]
  BY FocusAssumption, ScopeAssumption DEF Holding, FocusPositions

LEMMA FocusPosition ==
    ASSUME NEW i \in Id, Tx[i].account = Focus
    PROVE  /\ OneAccount!Position(Tx[i]) = Position(Tx[i])
           /\ OneAccount!Oversold(Tx[i]) = Oversold(Tx[i])
  <1>1. ASSUME Tx[i].kind \in Positional
        PROVE  FocusPositions[OneAccount!Key(Tx[i])] = positions[Key(Tx[i])]
    <2>1. Tx[i].instrument \in Instrument
      BY <1>1, TxShape DEF WellFormed
    <2> QED
      BY <2>1, FocusHolding DEF OneAccount!Key, Key
  <1>2. Tx[i].kind = "SELL" => Tx[i].kind \in Positional
    BY DEF Positional, Trades
  <1> QED
    BY <1>1, <1>2, SameKinds DEF OneAccount!Position, Position, OneAccount!Oversold, Oversold

LEMMA FocusError ==
    ASSUME NEW e, e.account = Focus, e.instrument \in Instrument \cup {None}
    PROVE  OneAccount!Error(e) = Error(e)
  <1>1. e.instrument # None =>
          FocusPositions[<<e.account, e.instrument>>] = positions[<<e.account, e.instrument>>]
    BY FocusHolding
  <1> QED
    BY <1>1, SameMoved DEF OneAccount!Error, Error

LEMMA FocusBook ==
    ASSUME TypeOK, NEW i \in Id, Tx[i].account = Focus,
           NEW e \in BookedType, e.account = Focus, Book(i, e)
    PROVE  OneAccount!Book(i, e)
  <1>1. FocusCash' = [FocusCash EXCEPT ![e.account] = @ + e.cash]
    <2>1. Focus \in Account
      BY FocusAssumption, ScopeAssumption
    <2>2. cash' = [cash EXCEPT ![Focus] = @ + e.cash]
      BY DEF Book
    <2> QED
      BY <2>1, <2>2 DEF FocusCash, TypeOK
  <1>2. IF e.instrument = None
        THEN FocusPositions' = FocusPositions
        ELSE \E p \in OneAccount!Moved(FocusPositions[<<e.account, e.instrument>>], e) :
               FocusPositions' = [FocusPositions EXCEPT ![<<e.account, e.instrument>>] = p]
    <2>1. CASE e.instrument = None
      BY <2>1 DEF Book, FocusPositions
    <2>2. CASE e.instrument # None
      <3> DEFINE k == <<e.account, e.instrument>>
      <3>1. k \in Holding /\ k[1] = Focus /\ FocusPositions[k] = positions[k]
        BY <2>2, FocusHolding DEF BookedType
      <3>2. PICK p \in Moved(positions[k], e) : positions' = [positions EXCEPT ![k] = p]
        BY <2>2 DEF Book
      <3>3. OneAccount!Moved(FocusPositions[k], e) = Moved(positions[k], e)
        BY <3>1, SameMoved
      <3> HIDE DEF k
      <3>4. FocusPositions' = [FocusPositions EXCEPT ![k] = p]
        BY <3>1, <3>2 DEF FocusPositions, TypeOK
      <3> QED
        BY <2>2, <3>2, <3>3, <3>4 DEF k
    <2> QED
      BY <2>1, <2>2
  <1>3. FocusApplied' = FocusApplied \cup {i}
    BY DEF Book, FocusApplied
  <1>4. FocusFailed' = FocusFailed
    BY DEF Book, FocusFailed
  <1> QED
    BY <1>1, <1>2, <1>3, <1>4 DEF OneAccount!Book

LEMMA FocusFail ==
    ASSUME NEW i \in Id, Tx[i].account = Focus, NEW error, Fail(i, error)
    PROVE  OneAccount!Fail(i, error)
  <1>1. failed' # Success
    BY NoneAssumption DEF Fail, Success
  <1>2. FocusFailed' = [id |-> i, error |-> error]
    BY <1>1 DEF FocusFailed, Fail, Success
  <1>3. UNCHANGED <<FocusCash, FocusPositions, FocusEffects, FocusReversed, FocusApplied>>
    BY DEF Fail, FocusCash, FocusPositions, FocusEffects, FocusReversed, FocusApplied
  <1> QED
    BY <1>2, <1>3 DEF OneAccount!Fail

LEMMA FocusNext ==
    ASSUME NEW i \in Id, Tx[i].account = Focus, IsNext(i)
    PROVE  OneAccount!IsNext(i)
  BY SameKinds DEF IsNext, OneAccount!IsNext, FocusFailed, FocusApplied

\* Reversing means the same in the account and in the fund.
LEMMA FocusReversible ==
    ASSUME IInv, NEW i \in Id, Tx[i].account = Focus, Tx[i].kind = "REVERSAL"
    PROVE  /\ OneAccount!Reversible(i) <=> Reversible(i)
           /\ Reversible(i) => /\ Tx[Tx[i].target].account = Focus
                               /\ FocusEffects[Tx[i].target] = effects[Tx[i].target]
  <1> DEFINE r == Tx[i].target
  <1>1. r \in Id
    BY TxShape DEF WellFormed
  <1>2. effects[r] # NoEffect => effects[r].account = Tx[r].account
    BY <1>1 DEF IInv, EffectsSound
  <1>3. FocusEffects[r] = IF Tx[r].account = Focus THEN effects[r] ELSE NoEffect
    BY <1>1 DEF FocusEffects
  <1>4. r \in FocusReversed <=> r \in reversed /\ Tx[r].account = Focus
    BY DEF FocusReversed
  <1> QED
    BY <1>1, <1>2, <1>3, <1>4, SameKinds DEF OneAccount!Reversible, Reversible

\* A transaction of the account does to the account what it does to the fund.
LEMMA FocusStep ==
    ASSUME IInv, NEW i \in Id, Tx[i].account = Focus,
           ApplyOriginal(i) \/ Reverse(i) \/ RejectReversal(i)
    PROVE  OneAccount!Next
  <1>1. CASE ApplyOriginal(i)
    <2>1. OneAccount!IsNext(i) /\ Tx[i].kind \in OneAccount!Originals
      BY <1>1, FocusNext, SameKinds DEF ApplyOriginal
    <2>2. CASE Oversold(Tx[i])
      <3>1. OneAccount!Oversold(Tx[i])
        BY <2>2, FocusPosition
      <3>2. OneAccount!Fail(i, "NEGATIVE_HOLDING")
        BY <1>1, <2>2, FocusFail DEF ApplyOriginal
      <3> QED
        BY <2>1, <3>1, <3>2 DEF OneAccount!Next, OneAccount!ApplyOriginal
    <2>3. CASE ~ Oversold(Tx[i])
      <3>1. ~ OneAccount!Oversold(Tx[i])
        BY <2>3, FocusPosition
      <3>2. PICK basis \in Removable(Tx[i], Position(Tx[i])) :
              LET e == Effect(Tx[i], Position(Tx[i]), basis) IN
              IF Error(e) # "NONE" THEN Fail(i, Error(e))
              ELSE Book(i, e) /\ effects' = [effects EXCEPT ![i] = e] /\ reversed' = reversed
        BY <1>1, <2>3 DEF ApplyOriginal
      <3>3. PICK e : e = Effect(Tx[i], Position(Tx[i]), basis)
        OBVIOUS
      <3>4. /\ basis \in OneAccount!Removable(Tx[i], OneAccount!Position(Tx[i]))
            /\ OneAccount!Effect(Tx[i], OneAccount!Position(Tx[i]), basis) = e
        BY <3>3, FocusPosition, SameEffect, SameRounding
      <3>5. e.account = Focus /\ e.instrument \in Instrument \cup {None}
        BY <3>3, TxShape DEF Effect, WellFormed
      <3>6. OneAccount!Error(e) = Error(e)
        BY <3>5, FocusError
      <3>7. IF OneAccount!Error(e) # "NONE" THEN OneAccount!Fail(i, OneAccount!Error(e))
            ELSE /\ OneAccount!Book(i, e)
                 /\ FocusEffects' = [FocusEffects EXCEPT ![i] = e]
                 /\ FocusReversed' = FocusReversed
        <4>1. CASE Error(e) # "NONE"
          BY <3>2, <3>3, <3>6, <4>1, FocusFail
        <4>2. CASE Error(e) = "NONE"
          <5>1. Book(i, e) /\ effects' = [effects EXCEPT ![i] = e] /\ reversed' = reversed
            BY <3>2, <3>3, <4>2
          <5>2. e \in BookedType
            BY <2>3, <3>3, EffectTyped, RecordedIsBooked DEF IInv
          <5>3. OneAccount!Book(i, e)
            BY <3>5, <5>1, <5>2, FocusBook DEF IInv
          <5>4. FocusEffects' = [FocusEffects EXCEPT ![i] = e]
            BY <5>1 DEF FocusEffects, IInv, TypeOK
          <5>5. FocusReversed' = FocusReversed
            BY <5>1 DEF FocusReversed
          <5> QED
            BY <3>6, <4>2, <5>3, <5>4, <5>5
        <4> QED
          BY <4>1, <4>2
      <3>8. OneAccount!ApplyOriginal(i)
        BY <2>1, <3>1, <3>4, <3>7 DEF OneAccount!ApplyOriginal
      <3> QED
        BY <3>8 DEF OneAccount!Next
    <2> QED
      BY <2>2, <2>3
  <1>2. CASE Reverse(i)
    <2> DEFINE r == Tx[i].target
               e == Inverted(effects[r])
    <2>1. Tx[i].kind = "REVERSAL" /\ Reversible(i) /\ OneAccount!IsNext(i)
      BY <1>2, FocusNext DEF Reverse
    <2>2. /\ OneAccount!Reversible(i) /\ Tx[r].account = Focus
          /\ FocusEffects[r] = effects[r]
      BY <2>1, FocusReversible
    <2>3. OneAccount!Inverted(FocusEffects[r]) = e
      BY <2>2, SameInverted
    <2>4. e \in BookedType /\ e.account = Focus
      BY <2>1, ReversedEffect, InvertedTyped DEF IInv, Reversible
    <2>5. (Error(e) # "NONE" /\ Fail(i, Error(e)))
          \/ (Error(e) = "NONE" /\ Book(i, e) /\ reversed' = reversed \cup {r} /\ effects' = effects)
      BY <1>2 DEF Reverse
    <2> HIDE DEF e
    <2>6. OneAccount!Error(e) = Error(e)
      BY <2>4, FocusError DEF BookedType
    <2>7. CASE Error(e) # "NONE"
      <3>1. OneAccount!Fail(i, Error(e))
        BY <2>5, <2>7, FocusFail
      <3> QED
        BY <2>1, <2>2, <2>3, <2>6, <2>7, <3>1 DEF OneAccount!Next, OneAccount!Reverse
    <2>8. CASE Error(e) = "NONE"
      <3>1. OneAccount!Book(i, e)
        BY <2>4, <2>5, <2>8, FocusBook DEF IInv
      <3>2. FocusReversed' = FocusReversed \cup {r}
        BY <2>2, <2>5, <2>8 DEF FocusReversed
      <3>3. FocusEffects' = FocusEffects
        BY <2>5, <2>8 DEF FocusEffects
      <3> QED
        BY <2>1, <2>2, <2>3, <2>6, <2>8, <3>1, <3>2, <3>3 DEF OneAccount!Next, OneAccount!Reverse
    <2> QED
      BY <2>7, <2>8
  <1>3. CASE RejectReversal(i)
    <2>1. Tx[i].kind = "REVERSAL" /\ OneAccount!IsNext(i) /\ ~ Reversible(i)
      BY <1>3, FocusNext DEF RejectReversal
    <2>2. ~ OneAccount!Reversible(i)
      BY <2>1, FocusReversible
    <2>3. OneAccount!Fail(i, "INVALID_REVERSAL")
      BY <1>3, FocusFail DEF RejectReversal
    <2> QED
      BY <2>1, <2>2, <2>3 DEF OneAccount!Next, OneAccount!RejectReversal
  <1> QED
    BY <1>1, <1>2, <1>3

\* What is booked for another account leaves this one alone.
LEMMA OtherBook ==
    ASSUME TypeOK, NEW i \in Id, Tx[i].account # Focus,
           NEW e, e.account # Focus, Book(i, e)
    PROVE  UNCHANGED <<FocusCash, FocusPositions, FocusApplied, FocusFailed>>
  <1>1. FocusCash' = FocusCash
    BY DEF Book, FocusCash, TypeOK
  <1>2. FocusPositions' = FocusPositions
    <2>1. \A k \in Holding : k[1] = Focus => positions'[k] = positions[k]
      <3> SUFFICES ASSUME NEW k \in Holding, k[1] = Focus PROVE positions'[k] = positions[k]
        OBVIOUS
      <3>1. k # <<e.account, e.instrument>>
        OBVIOUS
      <3> QED
        BY <3>1 DEF Book, TypeOK
    <2> QED
      BY <2>1 DEF FocusPositions
  <1>3. FocusApplied' = FocusApplied
    BY DEF Book, FocusApplied
  <1>4. FocusFailed' = FocusFailed
    BY DEF Book, FocusFailed
  <1> QED
    BY <1>1, <1>2, <1>3, <1>4

LEMMA OtherFail ==
    ASSUME NEW i \in Id, Tx[i].account # Focus, NEW error, IsNext(i), Fail(i, error)
    PROVE  UNCHANGED OneAccount!vars
  <1>1. FocusFailed = Success /\ FocusFailed' = Success
    BY DEF FocusFailed, IsNext, Fail, Success
  <1>2. UNCHANGED <<FocusCash, FocusPositions, FocusEffects, FocusReversed, FocusApplied>>
    BY DEF Fail, FocusCash, FocusPositions, FocusEffects, FocusReversed, FocusApplied
  <1> QED
    BY <1>1, <1>2 DEF OneAccount!vars

LEMMA OtherStep ==
    ASSUME IInv, NEW i \in Id, Tx[i].account # Focus,
           ApplyOriginal(i) \/ Reverse(i) \/ RejectReversal(i)
    PROVE  UNCHANGED OneAccount!vars
  <1>1. CASE ApplyOriginal(i)
    <2>1. IsNext(i)
      BY <1>1 DEF ApplyOriginal
    <2>2. CASE \E error : Fail(i, error)
      BY <2>1, <2>2, OtherFail
    <2>3. ASSUME NEW e, Records(i, e) PROVE UNCHANGED OneAccount!vars
      <3>1. /\ Book(i, e) /\ effects' = [effects EXCEPT ![i] = e] /\ reversed' = reversed
            /\ e.account # Focus
        BY <2>3 DEF Records, Effect
      <3>2. UNCHANGED <<FocusCash, FocusPositions, FocusApplied, FocusFailed>>
        BY <3>1, OtherBook DEF IInv
      <3>3. FocusEffects' = FocusEffects
        BY <3>1 DEF FocusEffects, IInv, TypeOK
      <3>4. FocusReversed' = FocusReversed
        BY <3>1 DEF FocusReversed
      <3> QED
        BY <3>2, <3>3, <3>4 DEF OneAccount!vars
    <2> QED
      BY <1>1, <2>2, <2>3, OriginalSplit
  <1>2. CASE Reverse(i)
    <2> DEFINE r == Tx[i].target
               e == Inverted(effects[r])
    <2>1. IsNext(i) /\ Reversible(i) /\ Tx[i].kind = "REVERSAL"
      BY <1>2 DEF Reverse
    <2>2. r \in Id /\ effects[r] # NoEffect /\ effects[r].account = Tx[i].account
      BY <2>1, ReversedEffect DEF IInv, Reversible
    <2>3. Tx[r].account # Focus /\ e.account # Focus
      BY <2>2 DEF IInv, EffectsSound, Inverted
    <2>4. (\E error : Fail(i, error))
          \/ (Book(i, e) /\ effects' = effects /\ reversed' = reversed \cup {r})
      BY <1>2 DEF Reverse
    <2> HIDE DEF e
    <2>5. CASE \E error : Fail(i, error)
      BY <2>1, <2>5, OtherFail
    <2>6. CASE Book(i, e) /\ effects' = effects /\ reversed' = reversed \cup {r}
      <3>1. UNCHANGED <<FocusCash, FocusPositions, FocusApplied, FocusFailed>>
        BY <2>3, <2>6, OtherBook DEF IInv
      <3>2. FocusEffects' = FocusEffects
        BY <2>6 DEF FocusEffects
      <3>3. FocusReversed' = FocusReversed
        BY <2>3, <2>6 DEF FocusReversed
      <3> QED
        BY <3>1, <3>2, <3>3 DEF OneAccount!vars
    <2> QED
      BY <2>4, <2>5, <2>6
  <1>3. CASE RejectReversal(i)
    BY <1>3, OtherFail DEF RejectReversal
  <1> QED
    BY <1>1, <1>2, <1>3

LEMMA ScopeInit == Init => OneAccount!Init
  BY SameKinds DEF Init, OneAccount!Init, FocusCash, FocusPositions, FocusEffects,
                   FocusReversed, FocusApplied, FocusFailed, Flat

LEMMA ScopeStep == IInv /\ [Next]_vars => [OneAccount!Next]_(OneAccount!vars)
  <1> SUFFICES ASSUME IInv, [Next]_vars PROVE OneAccount!Next \/ UNCHANGED OneAccount!vars
    OBVIOUS
  <1>1. ASSUME NEW i \in Id, ApplyOriginal(i) \/ Reverse(i) \/ RejectReversal(i)
        PROVE  OneAccount!Next \/ UNCHANGED OneAccount!vars
    BY <1>1, FocusStep, OtherStep
  <1>2. CASE UNCHANGED vars
    BY <1>2 DEF vars, OneAccount!vars, FocusCash, FocusPositions, FocusEffects,
                FocusReversed, FocusApplied, FocusFailed
  <1> QED
    BY <1>1, <1>2 DEF Next

\* The fund's reconstruction implements the reconstruction of any account in
\* it: no transaction of another account changes the account's cash,
\* positions or reversals.
THEOREM ScopeIsolation == Spec => ScopeIsolated
  BY Invariance, ScopeInit, ScopeStep, PTL DEF Spec, ScopeIsolated, OneAccount!Spec

-----------------------------------------------------------------------------
(* The realized profit.                                                    *)

\* The engine of the realized profit has a profit for every applied sale,
\* none exactly where the portfolio's replay has a doubt, and counts as
\* doubtful the standing ones of these.
ProfitSound ==
    /\ DOMAIN profits = {i \in applied : Tx[i].kind = "SELL"}
    /\ \A i \in DOMAIN profits :
         /\ profits[i] \in Int \cup {None}
         /\ profits[i] = None <=> effects[i].uncertain = 1
    /\ realized \in Int
    /\ doubtful = {i \in StandingSales : effects[i].uncertain = 1}

LEMMA FailureNoted ==
    ASSUME NEW i \in Id, NEW error, Fail(i, error)
    PROVE  failed' # Success
  BY NoneAssumption DEF Fail, Success

\* What the cost of a sale may come to at a rounded average.
LEMMA AveragedTyped ==
    ASSUME NEW i \in Id, Tx[i].kind = "SELL", NEW p \in PositionType, p.quantity > 0,
           NEW cost \in Averaged(Tx[i], p)
    PROVE  cost \in Int
  <1> DEFINE t == Tx[i]
  <1>1. t.quantity \in Nat /\ p.cost \in Nat /\ p.quantity \in Nat
    BY TxShape DEF WellFormed, Trades, Positional, PositionType
  <1>2. CASE cost \in Near(p.cost, t.quantity, p.quantity, t.quantity * Slack)
    BY <1>2 DEF Near
  <1>3. CASE cost = t.quantity * (p.cost \div p.quantity)
    <2>1. PICK average : average = p.cost \div p.quantity
      OBVIOUS
    <2>2. average \in Int
      BY <1>1, <2>1
    <2> QED
      BY <1>1, <1>3, <2>1, <2>2
  <1> QED
    BY <1>2, <1>3 DEF Averaged

\* The position a sale takes from.
LEMMA SalePosition ==
    ASSUME IInv, NEW i \in Id, Tx[i].kind = "SELL", ~ Oversold(Tx[i])
    PROVE  /\ Position(Tx[i]) = positions[Key(Tx[i])]
           /\ positions[Key(Tx[i])] \in PositionType
           /\ Tx[i].quantity \in Nat \ {0} /\ Tx[i].price \in Nat /\ Tx[i].fees \in Nat
           /\ Tx[i].quantity <= positions[Key(Tx[i])].quantity
           /\ positions[Key(Tx[i])].quantity > 0
  <1>1. Position(Tx[i]) = positions[Key(Tx[i])]
    BY DEF Position, Positional, Trades
  <1>2. positions[Key(Tx[i])] \in PositionType
    BY KeyType DEF IInv, TypeOK, PositionType, Positional, Trades
  <1>3. Tx[i].quantity \in Nat \ {0} /\ Tx[i].price \in Nat /\ Tx[i].fees \in Nat
    BY TxShape DEF WellFormed, Trades, Positional
  <1>4. Tx[i].quantity <= positions[Key(Tx[i])].quantity
    BY <1>1, SaleHeld DEF IInv
  <1> QED
    BY <1>1, <1>2, <1>3, <1>4 DEF PositionType

\* The profit of a sale that is applied is unknown exactly when the sale adds
\* to the reasons for an unknown cost.
LEMMA SaleProfitKnown ==
    ASSUME IInv, NEW i \in Id, Tx[i].kind = "SELL", ~ Oversold(Tx[i]), NEW basis,
           NEW gain \in SaleProfits(Tx[i], positions[Key(Tx[i])])
    PROVE  /\ gain \in Int \cup {None}
           /\ gain = None <=> Effect(Tx[i], Position(Tx[i]), basis).uncertain = 1
  <1>1. PICK t, p : t = Tx[i] /\ p = positions[Key(Tx[i])]
    OBVIOUS
  <1>2. /\ Position(t) = p /\ p \in PositionType /\ p.quantity > 0
        /\ t.quantity \in Nat /\ t.price \in Nat /\ t.fees \in Nat
    BY <1>1, SalePosition
  <1>3. Effect(t, p, basis).uncertain = 1 <=> p.uncertain # 0
    BY <1>1 DEF Effect, UncertaintyDelta
  <1>4. CASE p.uncertain # 0
    BY <1>1, <1>2, <1>3, <1>4 DEF SaleProfits
  <1>5. CASE p.uncertain = 0
    <2>1. PICK cost \in Averaged(t, p) : gain = t.quantity * t.price - t.fees - cost
      BY <1>1, <1>2, <1>5 DEF SaleProfits
    <2>2. cost \in Int
      BY <1>1, <1>2, <2>1, AveragedTyped
    <2>3. t.quantity * t.price \in Int
      BY <1>2
    <2>4. gain \in Int
      BY <1>2, <2>1, <2>2, <2>3
    <2> QED
      BY <1>1, <1>2, <1>3, <1>5, <2>4, NoneAssumption
  <1> QED
    BY <1>4, <1>5

LEMMA ProfitOriginal ==
    ASSUME IInv, IInv', ProfitSound, NEW i \in Id, ApplyOriginal(i),
           IF Tx[i].kind = "SELL" /\ failed' = Success THEN Realize(i) ELSE UNCHANGED profit
    PROVE  ProfitSound'
  <1>1. (\E error : Fail(i, error)) \/ \E e : Records(i, e)
    BY OriginalSplit
  <1>2. IsNext(i) /\ Tx[i].kind \in Originals
    BY DEF ApplyOriginal
  <1>3. CASE \E error : Fail(i, error)
    <2>1. failed' # Success
      BY <1>3, FailureNoted
    <2>2. UNCHANGED profit
      BY <2>1
    <2>3. applied' = applied /\ effects' = effects /\ reversed' = reversed
      BY <1>3 DEF Fail
    <2> QED
      BY <2>2, <2>3 DEF profit, ProfitSound, StandingSales, Standing
  <1>4. ASSUME NEW e, Records(i, e) PROVE ProfitSound'
    <2>1. /\ ~ Oversold(Tx[i]) /\ failed' = failed /\ applied' = applied \cup {i}
          /\ effects' = [effects EXCEPT ![i] = e] /\ reversed' = reversed
      BY <1>4 DEF Records, Book
    <2>2. failed' = Success /\ i \notin applied /\ i \notin reversed /\ i \notin DOMAIN profits
      <3>1. failed' = Success /\ i \notin applied
        BY <1>2, <2>1 DEF IsNext
      <3> QED
        BY <3>1 DEF IInv, EffectsSound, ProfitSound
    <2>3. \A j \in Id : effects'[j] = IF j = i THEN e ELSE effects[j]
      BY <2>1 DEF IInv, TypeOK
    <2>4. applied \subseteq Id
      BY DEF IInv, TypeOK
    <2>5. Standing' = Standing \cup {i} /\ i \notin Standing /\ Standing \subseteq Id
      BY <1>2, <2>1, <2>2, <2>4 DEF Standing
    <2>6. CASE Tx[i].kind # "SELL"
      <3>1. UNCHANGED profit
        BY <2>6
      <3>2. StandingSales' = StandingSales /\ i \notin StandingSales /\ StandingSales \subseteq Id
        BY <2>5, <2>6 DEF StandingSales
      <3>3. {j \in applied' : Tx[j].kind = "SELL"} = {j \in applied : Tx[j].kind = "SELL"}
        BY <2>1, <2>6
      <3>4. \A j \in DOMAIN profits : j \in Id /\ j # i
        BY <2>2, <2>4 DEF ProfitSound
      <3> QED
        BY <2>3, <3>1, <3>2, <3>3, <3>4 DEF profit, ProfitSound
    <2>7. CASE Tx[i].kind = "SELL"
      <3>1. PICK gain \in SaleProfits(Tx[i], positions[Key(Tx[i])]) :
              /\ profits' = [j \in DOMAIN profits \cup {i} |-> IF j = i THEN gain ELSE profits[j]]
              /\ IF gain = None
                 THEN doubtful' = doubtful \cup {i} /\ UNCHANGED realized
                 ELSE realized' \in Totals(realized, gain) /\ UNCHANGED doubtful
        BY <2>2, <2>7 DEF Realize
      <3>2. gain \in Int \cup {None} /\ (gain = None <=> e.uncertain = 1)
        BY <1>4, <2>7, SaleProfitKnown DEF Records
      <3>3. StandingSales' = StandingSales \cup {i} /\ i \notin StandingSales /\ StandingSales \subseteq Id
        BY <2>5, <2>7 DEF StandingSales
      <3>4. DOMAIN profits' = {j \in applied' : Tx[j].kind = "SELL"}
        BY <2>1, <2>7, <3>1 DEF ProfitSound
      <3>5. \A j \in DOMAIN profits :
               j \in Id /\ j # i /\ profits'[j] = profits[j] /\ effects'[j] = effects[j]
        BY <2>2, <2>3, <2>4, <3>1 DEF ProfitSound
      <3>6. profits'[i] = gain /\ effects'[i] = e /\ DOMAIN profits' = DOMAIN profits \cup {i}
        BY <2>3, <3>1
      <3>7. \A j \in DOMAIN profits' :
               /\ profits'[j] \in Int \cup {None}
               /\ profits'[j] = None <=> effects'[j].uncertain = 1
        BY <3>2, <3>5, <3>6 DEF ProfitSound
      <3>8. realized' \in Int
        BY <3>2, <3>1, TotalsNear DEF ProfitSound
      <3>9. doubtful' = {j \in StandingSales' : effects'[j].uncertain = 1}
        <4>1. \A j \in StandingSales : effects'[j] = effects[j]
          BY <2>3, <3>3
        <4>2. {j \in StandingSales' : effects'[j].uncertain = 1}
                = doubtful \cup (IF e.uncertain = 1 THEN {i} ELSE {})
          BY <3>3, <3>6, <4>1 DEF ProfitSound
        <4> QED
          BY <3>2, <3>1, <4>2
      <3> QED
        BY <3>4, <3>7, <3>8, <3>9 DEF ProfitSound
    <2> QED
      BY <2>6, <2>7
  <1> QED
    BY <1>1, <1>3, <1>4

LEMMA ProfitReversal ==
    ASSUME IInv, IInv', ProfitSound, NEW i \in Id, Reverse(i),
           IF Tx[i].target \in DOMAIN profits /\ failed' = Success THEN TakeBack(i) ELSE UNCHANGED profit
    PROVE  ProfitSound'
  <1> DEFINE r == Tx[i].target
  <1>1. \/ \E error : Fail(i, error)
        \/ /\ failed' = failed /\ applied' = applied \cup {i}
           /\ effects' = effects /\ reversed' = reversed \cup {r}
    BY DEF Reverse, Book
  <1>2. IsNext(i) /\ Tx[i].kind = "REVERSAL" /\ Reversible(i)
    BY DEF Reverse
  <1>3. CASE \E error : Fail(i, error)
    <2>1. failed' # Success
      BY <1>3, FailureNoted
    <2>2. UNCHANGED profit
      BY <2>1
    <2>3. applied' = applied /\ effects' = effects /\ reversed' = reversed
      BY <1>3 DEF Fail
    <2> QED
      BY <2>2, <2>3 DEF profit, ProfitSound, StandingSales, Standing
  <1>4. CASE /\ failed' = failed /\ applied' = applied \cup {i}
             /\ effects' = effects /\ reversed' = reversed \cup {r}
    <2>1. failed' = Success
      BY <1>2, <1>4 DEF IsNext
    <2>2. r \in Id /\ r \in applied /\ r \notin reversed /\ Tx[r].kind \in Originals
      BY <1>2, ReversedEffect DEF IInv, EffectsSound, Reversible
    <2>3. Standing' = Standing \ {r}
      BY <1>2, <1>4 DEF Standing, Originals
    <2>4. StandingSales' = StandingSales \ {r}
      BY <2>3 DEF StandingSales
    <2>5. {j \in applied' : Tx[j].kind = "SELL"} = {j \in applied : Tx[j].kind = "SELL"}
      BY <1>2, <1>4
    <2>6. r \in DOMAIN profits <=> Tx[r].kind = "SELL"
      BY <2>2 DEF ProfitSound
    <2>7. CASE r \notin DOMAIN profits
      <3>1. UNCHANGED profit
        BY <2>7
      <3>2. r \notin StandingSales
        BY <2>6, <2>7 DEF StandingSales
      <3> QED
        BY <1>4, <2>4, <2>5, <3>1, <3>2 DEF profit, ProfitSound
    <2>8. CASE r \in DOMAIN profits
      <3>1. TakeBack(i)
        BY <2>1, <2>8
      <3>2. profits' = profits
        BY <3>1 DEF TakeBack
      <3>3. CASE profits[r] = None
        <4>1. doubtful' = doubtful \ {r} /\ realized' = realized
          BY <3>1, <3>3 DEF TakeBack, TakenBack
        <4> QED
          BY <1>4, <2>4, <2>5, <3>2, <4>1 DEF ProfitSound
      <3>4. CASE profits[r] # None
        <4>1. doubtful' = doubtful /\ realized' \in Totals(realized, -profits[r])
          BY <3>1, <3>4 DEF TakeBack, TakenBack
        <4>2. realized' \in Int
          <5>1. realized \in Int /\ -profits[r] \in Int
            BY <2>8, <3>4 DEF ProfitSound
          <5> QED
            BY <4>1, <5>1, TotalsNear
        <4>3. effects[r].uncertain # 1
          BY <2>8, <3>4 DEF ProfitSound
        <4> QED
          BY <1>4, <2>4, <2>5, <3>2, <4>1, <4>2, <4>3 DEF ProfitSound
      <3> QED
        BY <3>3, <3>4
    <2> QED
      BY <2>7, <2>8
  <1> QED
    BY <1>1, <1>3, <1>4

LEMMA ProfitStep == IInv /\ IInv' /\ ProfitSound /\ [ValuationNext]_<<vars, profit>> => ProfitSound'
  <1> SUFFICES ASSUME IInv, IInv', ProfitSound, [ValuationNext]_<<vars, profit>> PROVE ProfitSound'
    OBVIOUS
  <1>1. ASSUME NEW i \in Id, Value(i) PROVE ProfitSound'
    <2>1. CASE RejectReversal(i) /\ UNCHANGED profit
      BY <2>1 DEF RejectReversal, Fail, profit, ProfitSound, StandingSales, Standing
    <2> QED
      BY <1>1, <2>1, ProfitOriginal, ProfitReversal DEF Value
  <1>2. CASE UNCHANGED <<vars, profit>>
    BY <1>2 DEF vars, profit, ProfitSound, StandingSales, Standing
  <1> QED
    BY <1>1, <1>2 DEF ValuationNext

\* The replay under the valuation is the portfolio's: what is proved of Spec
\* holds in every valuation.
THEOREM ValuationReplays == ValuationSpec => Spec
  <1>1. ValuationInit => Init
    BY DEF ValuationInit
  <1>2. [ValuationNext]_<<vars, profit>> => [Next]_vars
    BY DEF ValuationNext, Value, Next
  <1> QED
    BY <1>1, <1>2, PTL DEF ValuationSpec, Spec

\* The realized profit is unavailable exactly while a sale of unknown cost
\* stands (valuation/engine.py 110-156, portfolio/engine.py 249-267).
THEOREM RealizedIsKnown == ValuationSpec => []RealizedKnown
  <1>1. ValuationInit => ProfitSound
    BY DEF ValuationInit, Init, ProfitSound, StandingSales, Standing
  <1>2. ASSUME ProfitSound PROVE RealizedKnown
    BY <1>2, NoneAssumption DEF ProfitSound, RealizedKnown, Realized
  <1> QED
    BY <1>1, <1>2, ProfitStep, ValuationReplays, Invariance, PTL DEF ValuationSpec

-----------------------------------------------------------------------------
(* The books balance.                                                      *)

\* A whole quotient is exact.
LEMMA WholeQuotient ==
    ASSUME NEW x \in Int, NEW n \in Nat \ {0}, x % (Grain * n) = 0
    PROVE  x \div n \in Int /\ (x \div n) * n = x
  <1> DEFINE d == Grain * n
  <1>1. Grain \in Nat \ {0}
    BY RoundingAssumption
  <1>2. d \in Nat \ {0}
    BY <1>1
  <1>3. PICK m \in Int : x = d * m
    <2> HIDE DEF d
    <2>1. x = d * (x \div d) + (x % d) /\ x \div d \in Int
      BY <1>2
    <2>2. x % d = 0
      BY DEF d
    <2> QED
      BY <1>2, <2>1, <2>2
  <1>4. x = n * (Grain * m) /\ Grain * m \in Int
    BY <1>1, <1>3
  <1>5. PICK g \in Int : x = n * g
    BY <1>4
  <1>6. PICK b \in Int : b = x \div n /\ n * b <= x /\ x < n * b + n
    BY Division
  <1>7. n * g < n * (b + 1) /\ n * b <= n * g
    BY <1>5, <1>6
  <1>8. g < b + 1 /\ b <= g
    BY <1>7
  <1>9. b = g
    BY <1>8
  <1> QED
    BY <1>5, <1>6, <1>9

\* The basis a sale removes and its cost at the average, which are rounded at
\* different places, are close to each other.
LEMMA RoundedAverage ==
    ASSUME NEW i \in Id, Tx[i].kind = "SELL", NEW p \in PositionType, p.quantity > 0, p.uncertain = 0,
           NEW basis \in Removable(Tx[i], p), NEW cost \in Averaged(Tx[i], p),
           basis \in Int, cost \in Int
    PROVE  basis - cost \in (-(Slack * (Tx[i].quantity + 1)))..(Slack * (Tx[i].quantity + 1))
  <1>1. PICK q, c, n : q = Tx[i].quantity /\ c = p.cost /\ n = p.quantity
    OBVIOUS
  <1>2. q \in Nat /\ c \in Nat /\ n \in Nat \ {0} /\ Slack \in Nat
    BY <1>1, TxShape, RoundingAssumption DEF WellFormed, Trades, Positional, PositionType
  <1>3. c * q \in Int /\ Slack * n \in Nat /\ q * Slack \in Nat /\ q * Slack * n \in Nat
    BY <1>2
  <1>4. basis * n - c * q \in (-(Slack * n))..(Slack * n)
    <2>1. CASE basis \in Near(c, q, n, Slack)
      BY <2>1 DEF Near
    <2>2. CASE (c * q) % (Grain * n) = 0 /\ basis = (c * q) \div n
      <3>1. basis * n = c * q
        BY <1>2, <1>3, <2>2, WholeQuotient
      <3> QED
        BY <1>3, <3>1
    <2> QED
      BY <1>1, <2>1, <2>2 DEF Removable
  <1>5. cost * n - c * q \in (-(q * Slack * n))..(q * Slack * n)
    <2>1. CASE cost \in Near(c, q, n, q * Slack)
      BY <2>1 DEF Near
    <2>2. CASE c % (Grain * n) = 0 /\ cost = q * (c \div n)
      <3>1. c \div n \in Int /\ (c \div n) * n = c
        BY <1>2, <2>2, WholeQuotient
      <3>2. PICK m \in Int : m = c \div n /\ m * n = c
        BY <3>1
      <3>3. cost = q * m
        BY <2>2, <3>2, Zenon
      <3>4. q * m * n = (m * n) * q
        BY <1>2, <3>2
      <3> QED
        BY <1>3, <3>2, <3>3, <3>4
    <2> QED
      BY <1>1, <2>1, <2>2 DEF Averaged
  <1>6. PICK s \in Nat : s = Slack * (q + 1)
    BY <1>2
  <1>7. s * n = Slack * n + q * Slack * n
    BY <1>2, <1>6
  <1>8. (basis - cost) * n <= s * n /\ (-s) * n <= (basis - cost) * n
    <2>1. (basis - cost) * n = basis * n - cost * n /\ (-s) * n = -(s * n)
      BY <1>2, <1>6
    <2>2. basis * n \in Int /\ cost * n \in Int /\ s * n \in Int
      BY <1>2, <1>6
    <2> QED
      BY <1>3, <1>4, <1>5, <1>7, <2>1, <2>2
  <1>9. \A x, y \in Int : x * n <= y * n => x <= y
    BY <1>2
  <1>10. basis - cost <= s /\ -s <= basis - cost
    BY <1>6, <1>8, <1>9
  <1> QED
    BY <1>1, <1>6, <1>10

\* What the two roundings of sale i leave between its profit and what it
\* changes in cash and in cost.
Gap(i) == profits[i] - effects[i].cost - CashDelta(Tx[i])

\* How much that is at most.
Blur(i) == Slack * (Tx[i].quantity + 1)

Known == {i \in StandingSales : profits[i] # None}

ProfitTerms == [i \in Known |-> profits[i]]

\* Every transaction applied rounded the realized profit once at most.
Rounded == Slack * Cardinality(applied)

\* A known profit is what the sale changes in cash and in cost but for the
\* rounding, and the realized profit is the sum of the standing ones but for
\* the rounding of sums.
ProfitAdds ==
    /\ \A i \in DOMAIN profits : profits[i] # None => Gap(i) \in (-Blur(i))..Blur(i)
    /\ realized - SumFunction(ProfitTerms) \in (-Rounded)..Rounded

Accounts == Balanced /\ ProfitSound /\ ProfitAdds

LEMMA RoundedGrows ==
    ASSUME TypeOK, NEW i \in Id, i \notin applied, applied' = applied \cup {i}
    PROVE  Rounded \in Nat /\ Rounded' = Rounded + Slack
  <1>1. IsFiniteSet(applied)
    BY TxAssumption, FS_Subset DEF TypeOK
  <1>2. Cardinality(applied) \in Nat /\ Cardinality(applied') = Cardinality(applied) + 1
    BY <1>1, FS_CardinalityType, FS_AddElement
  <1>3. Slack * (Cardinality(applied) + 1) = Slack * Cardinality(applied) + Slack
        /\ Slack * Cardinality(applied) \in Nat
    BY <1>2, RoundingAssumption
  <1> QED
    BY <1>2, <1>3 DEF Rounded

\* A transaction that leaves the realized profit alone.
LEMMA ProfitStays ==
    ASSUME Accounts, IInv, ProfitSound, NEW i \in Id, i \notin applied, applied' = applied \cup {i},
           realized' = realized, ProfitTerms' = ProfitTerms
    PROVE  (realized - SumFunction(ProfitTerms) \in (-Rounded)..Rounded)'
  <1>1. Rounded \in Nat /\ Rounded' = Rounded + Slack
    BY RoundedGrows DEF IInv
  <1>2. realized - SumFunction(ProfitTerms) \in (-Rounded)..Rounded
    BY DEF Accounts, ProfitAdds
  <1>3. PICK x : x = realized - SumFunction(ProfitTerms)
    OBVIOUS
  <1>4. x \in (-(Rounded + Slack))..(Rounded + Slack)
    BY <1>1, <1>2, <1>3, RoundingAssumption
  <1> QED
    BY <1>1, <1>3, <1>4

LEMMA SaleGap ==
    ASSUME IInv, NEW i \in Id, Tx[i].kind = "SELL", ~ Oversold(Tx[i]),
           NEW gain \in SaleProfits(Tx[i], positions[Key(Tx[i])]), gain # None,
           NEW basis \in Removable(Tx[i], Position(Tx[i])),
           NEW e, e = Effect(Tx[i], Position(Tx[i]), basis)
    PROVE  gain - e.cost - CashDelta(Tx[i]) \in (-Blur(i))..Blur(i)
  <1>1. PICK t, p : t = Tx[i] /\ p = positions[Key(Tx[i])]
    OBVIOUS
  <1>2. /\ t.quantity \in Nat \ {0} /\ t.price \in Nat /\ t.fees \in Nat
        /\ p \in PositionType /\ p.quantity > 0 /\ Position(t) = p /\ t.quantity <= p.quantity
    BY <1>1, SalePosition
  <1>3. p.uncertain = 0
    BY <1>1, <1>2 DEF SaleProfits
  <1>4. PICK cost \in Averaged(t, p) : gain = t.quantity * t.price - t.fees - cost
    BY <1>1, <1>2, <1>3 DEF SaleProfits
  <1>5. cost \in Int /\ basis \in Int
    BY <1>1, <1>2, <1>4, AveragedTyped, RemovableTyped
  <1>6. e.cost = -basis /\ CashDelta(Tx[i]) = t.quantity * t.price - t.fees
    BY <1>1 DEF Effect, CostDelta, CashDelta
  <1>7. basis - cost \in (-Blur(i))..Blur(i)
    BY <1>1, <1>2, <1>3, <1>4, <1>5, RoundedAverage DEF Blur
  <1>8. PICK brought \in Int : brought = t.quantity * t.price - t.fees
    <2>1. t.quantity * t.price \in Int
      BY <1>2
    <2> QED
      BY <1>2, <2>1
  <1>9. gain - e.cost - CashDelta(Tx[i]) = basis - cost
    BY <1>4, <1>5, <1>6, <1>8
  <1> QED
    BY <1>7, <1>9

LEMMA ProfitTermsFinite == IInv /\ ProfitSound => Terms(ProfitTerms)
  <1> SUFFICES ASSUME IInv, ProfitSound PROVE Terms(ProfitTerms)
    OBVIOUS
  <1>1. Known \in SUBSET Standing
    BY DEF Known, StandingSales
  <1>2. IsFiniteSet(Known)
    BY <1>1, StandingHaveEffects, FS_Subset
  <1>3. \A i \in Known : profits[i] \in Int
    BY DEF Known, ProfitSound, StandingSales, Standing
  <1> QED
    BY <1>2, <1>3 DEF ProfitTerms, Terms, Summable

LEMMA AddsOriginal ==
    ASSUME Accounts, IInv', ProfitSound', NEW i \in Id, ApplyOriginal(i),
           IF Tx[i].kind = "SELL" /\ failed' = Success THEN Realize(i) ELSE UNCHANGED profit
    PROVE  ProfitAdds'
  <1>1. (\E error : Fail(i, error)) \/ \E e : Records(i, e)
    BY OriginalSplit
  <1>2. IsNext(i) /\ Tx[i].kind \in Originals
    BY DEF ApplyOriginal
  <1>3. IInv /\ ProfitSound /\ applied \subseteq Id
    BY DEF Accounts, Balanced, IInv, TypeOK
  <1>4. CASE \E error : Fail(i, error)
    <2>1. failed' # Success
      BY <1>4, FailureNoted
    <2>2. UNCHANGED <<profits, realized>> /\ Known' = Known
      BY <1>4, <2>1 DEF profit, Known, StandingSales, Standing, Fail
    <2> QED
      BY <1>4, <2>2 DEF Accounts, ProfitAdds, Gap, ProfitTerms, Rounded, Fail
  <1>5. ASSUME NEW e, Records(i, e) PROVE ProfitAdds'
    <2>1. /\ ~ Oversold(Tx[i]) /\ failed' = failed /\ applied' = applied \cup {i}
          /\ effects' = [effects EXCEPT ![i] = e] /\ reversed' = reversed
      BY <1>5 DEF Records, Book
    <2>2. failed' = Success /\ i \notin applied /\ i \notin reversed
      BY <1>2, <1>3, <2>1 DEF IsNext, IInv, EffectsSound
    <2>3. i \notin DOMAIN profits /\ \A j \in DOMAIN profits : j \in Id
      BY <1>3, <2>2 DEF ProfitSound
    <2>4. effects'[i] = e /\ \A j \in DOMAIN profits : effects'[j] = effects[j]
      BY <1>3, <2>1, <2>3 DEF IInv, TypeOK
    <2>5. Standing' = Standing \cup {i} /\ i \notin Standing
      BY <1>2, <2>1, <2>2 DEF Standing
    <2>6. CASE Tx[i].kind # "SELL"
      <3>1. UNCHANGED <<profits, realized>>
        BY <2>6 DEF profit
      <3>2. Known' = Known
        BY <2>5, <2>6, <3>1 DEF Known, StandingSales
      <3> QED
        <4>1. ProfitTerms' = ProfitTerms
          BY <3>1, <3>2 DEF ProfitTerms
        <4>2. (realized - SumFunction(ProfitTerms) \in (-Rounded)..Rounded)'
          BY <1>3, <2>1, <2>2, <3>1, <4>1, ProfitStays
        <4>3. \A j \in DOMAIN profits' : profits'[j] # None => Gap(j)' \in (-Blur(j))..Blur(j)
          BY <2>4, <3>1 DEF Accounts, ProfitAdds, Gap
        <4> QED
          BY <4>2, <4>3 DEF ProfitAdds, Blur
    <2>7. CASE Tx[i].kind = "SELL"
      <3>1. PICK gain \in SaleProfits(Tx[i], positions[Key(Tx[i])]) :
              /\ profits' = [j \in DOMAIN profits \cup {i} |-> IF j = i THEN gain ELSE profits[j]]
              /\ IF gain = None THEN UNCHANGED realized ELSE realized' \in Totals(realized, gain)
        BY <2>2, <2>7 DEF Realize
      <3>2. /\ profits'[i] = gain /\ DOMAIN profits' = DOMAIN profits \cup {i}
            /\ \A j \in DOMAIN profits : profits'[j] = profits[j]
        BY <2>3, <3>1
      <3>3. \A j \in DOMAIN profits' : profits'[j] # None => Gap(j)' \in (-Blur(j))..Blur(j)
        <4>1. ASSUME gain # None PROVE Gap(i)' \in (-Blur(i))..Blur(i)
          <5>1. PICK basis \in Removable(Tx[i], Position(Tx[i])) : e = Effect(Tx[i], Position(Tx[i]), basis)
            BY <1>5 DEF Records
          <5>2. gain - e.cost - CashDelta(Tx[i]) \in (-Blur(i))..Blur(i)
            BY <1>3, <2>1, <2>7, <3>1, <4>1, <5>1, SaleGap
          <5> QED
            BY <2>4, <3>2, <5>2 DEF Gap
        <4>2. \A j \in DOMAIN profits : Gap(j)' = Gap(j)
          BY <2>4, <3>2 DEF Gap
        <4> QED
          BY <3>2, <4>1, <4>2 DEF Accounts, ProfitAdds
      <3>4. StandingSales' = StandingSales \cup {i} /\ i \notin StandingSales
        BY <2>5, <2>7 DEF StandingSales
      <3>5. \A j \in StandingSales : j \in DOMAIN profits
        BY <1>3 DEF ProfitSound, StandingSales, Standing
      <3>6. CASE gain = None
        <4>1. Known' = Known
          BY <3>2, <3>4, <3>5, <3>6 DEF Known
        <4>2. ProfitTerms' = ProfitTerms
          BY <3>2, <3>5, <4>1 DEF ProfitTerms, Known
        <4> QED
          BY <1>3, <2>1, <2>2, <3>1, <3>3, <3>6, <4>2, ProfitStays DEF ProfitAdds, Blur
      <3>7. CASE gain # None
        <4>1. Known' = Known \cup {i} /\ i \notin Known
          BY <3>2, <3>4, <3>5, <3>7 DEF Known
        <4>2. PICK f, g : f = ProfitTerms /\ g = ProfitTerms'
          OBVIOUS
        <4>3. /\ i \notin DOMAIN f /\ DOMAIN g = DOMAIN f \cup {i} /\ g[i] = gain
              /\ \A j \in DOMAIN f : g[j] = f[j]
          BY <3>2, <3>5, <4>1, <4>2 DEF ProfitTerms, Known
        <4>4. Terms(g)
          <5>1. Terms(ProfitTerms)'
            BY ProfitTermsFinite, PTL
          <5> QED
            BY <4>2, <5>1
        <4>5. SumFunction(g) = SumFunction(f) + gain /\ SumFunction(f) \in Int /\ gain \in Int
          BY <4>3, <4>4, TermAdded
        <4>6. Rounded \in Nat /\ Rounded' = Rounded + Slack
          BY <1>3, <2>1, <2>2, RoundedGrows DEF IInv
        <4>7. realized' \in Int /\ realized' - (realized + gain) \in (-Slack)..Slack /\ realized \in Int
          BY <1>3, <3>1, <3>7, <4>5, TotalsNear DEF ProfitSound
        <4>8. realized - SumFunction(f) \in (-Rounded)..Rounded
          BY <4>2 DEF Accounts, ProfitAdds
        <4>9. realized' - (SumFunction(f) + gain) \in (-(Rounded + Slack))..(Rounded + Slack)
          BY <4>5, <4>6, <4>7, <4>8, CostDrifts
        <4>10. (realized - SumFunction(ProfitTerms) \in (-Rounded)..Rounded)'
          BY <4>2, <4>5, <4>6, <4>9
        <4> QED
          BY <3>3, <4>10 DEF ProfitAdds, Blur
      <3> QED
        BY <3>6, <3>7
    <2> QED
      BY <2>6, <2>7
  <1> QED
    BY <1>1, <1>4, <1>5

LEMMA AddsReversal ==
    ASSUME Accounts, IInv', ProfitSound', NEW i \in Id, Reverse(i),
           IF Tx[i].target \in DOMAIN profits /\ failed' = Success THEN TakeBack(i) ELSE UNCHANGED profit
    PROVE  ProfitAdds'
  <1>1. PICK r : r = Tx[i].target
    OBVIOUS
  <1>2. \/ \E error : Fail(i, error)
        \/ /\ failed' = failed /\ applied' = applied \cup {i}
           /\ effects' = effects /\ reversed' = reversed \cup {r}
    BY <1>1 DEF Reverse, Book
  <1>3. IsNext(i) /\ Tx[i].kind = "REVERSAL" /\ Reversible(i)
    BY DEF Reverse
  <1>4. IInv /\ ProfitSound
    BY DEF Accounts, Balanced
  <1>5. CASE \E error : Fail(i, error)
    <2>1. failed' # Success
      BY <1>5, FailureNoted
    <2>2. UNCHANGED <<profits, realized>> /\ Known' = Known
      BY <1>5, <2>1 DEF profit, Known, StandingSales, Standing, Fail
    <2> QED
      BY <1>5, <2>2 DEF Accounts, ProfitAdds, Gap, ProfitTerms, Rounded, Fail
  <1>6. CASE /\ failed' = failed /\ applied' = applied \cup {i}
             /\ effects' = effects /\ reversed' = reversed \cup {r}
    <2>1. failed' = Success
      BY <1>3, <1>6 DEF IsNext
    <2>2. r \in Id /\ r \in applied /\ r \notin reversed /\ Tx[r].kind \in Originals
      BY <1>1, <1>3, <1>4, ReversedEffect DEF IInv, EffectsSound, Reversible
    <2>3. Standing' = Standing \ {r} /\ r \in Standing
      BY <1>3, <1>6, <2>2 DEF Standing, Originals
    <2>4. profits' = profits
      BY DEF TakeBack, profit
    <2>5. \A j \in DOMAIN profits' : profits'[j] # None => Gap(j)' \in (-Blur(j))..Blur(j)
      BY <1>6, <2>4 DEF Accounts, ProfitAdds, Gap
    <2>6. i \notin applied
      BY <1>3 DEF IsNext
    <2>7. r \in DOMAIN profits <=> Tx[r].kind = "SELL"
      BY <1>4, <2>2 DEF ProfitSound
    <2>8. CASE r \notin Known
      <3>1. Known' = Known
        BY <2>3, <2>4, <2>8 DEF Known, StandingSales
      <3>2. realized' = realized
        BY <1>1, <2>3, <2>7, <2>8 DEF TakeBack, TakenBack, profit, Known, StandingSales
      <3> QED
        <4>1. ProfitTerms' = ProfitTerms
          BY <2>4, <3>1 DEF ProfitTerms
        <4>2. (realized - SumFunction(ProfitTerms) \in (-Rounded)..Rounded)'
          BY <1>4, <1>6, <2>6, <3>2, <4>1, ProfitStays
        <4> QED
          BY <2>5, <4>2 DEF ProfitAdds, Blur
    <2>9. CASE r \in Known
      <3>1. realized' \in Totals(realized, -profits[r])
        BY <1>1, <2>1, <2>7, <2>9 DEF TakeBack, TakenBack, Known, StandingSales
      <3>2. Known' = Known \ {r}
        BY <2>3, <2>4 DEF Known, StandingSales
      <3>3. PICK f, g : f = ProfitTerms' /\ g = ProfitTerms
        OBVIOUS
      <3>4. /\ r \notin DOMAIN f /\ DOMAIN g = DOMAIN f \cup {r} /\ g[r] = profits[r]
            /\ \A j \in DOMAIN f : g[j] = f[j]
        BY <2>4, <2>9, <3>2, <3>3 DEF ProfitTerms
      <3>5. Terms(g)
        BY <1>4, <3>3, ProfitTermsFinite
      <3>6. SumFunction(g) = SumFunction(f) + g[r] /\ SumFunction(f) \in Int /\ g[r] \in Int
        BY <3>4, <3>5, TermAdded
      <3> QED
        <4>1. Rounded \in Nat /\ Rounded' = Rounded + Slack
          BY <1>4, <1>6, <2>6, RoundedGrows DEF IInv
        <4>2. -profits[r] \in Int /\ realized \in Int /\ SumFunction(g) \in Int
          BY <1>4, <3>4, <3>6 DEF ProfitSound
        <4>3. realized' \in Int /\ realized' - (realized + -profits[r]) \in (-Slack)..Slack
          BY <3>1, <4>2, TotalsNear
        <4>4. realized - SumFunction(g) \in (-Rounded)..Rounded
          BY <3>3 DEF Accounts, ProfitAdds
        <4>5. realized' - (SumFunction(g) + -profits[r]) \in (-(Rounded + Slack))..(Rounded + Slack)
          BY <4>1, <4>2, <4>3, <4>4, CostDrifts
        <4>6. SumFunction(f) = SumFunction(g) + -profits[r]
          BY <3>4, <3>6
        <4>7. (realized - SumFunction(ProfitTerms) \in (-Rounded)..Rounded)'
          BY <3>3, <4>1, <4>5, <4>6
        <4> QED
          BY <2>5, <4>7 DEF ProfitAdds, Blur
    <2> QED
      BY <2>8, <2>9
  <1> QED
    BY <1>2, <1>5, <1>6

LEMMA AddsStep ==
    Accounts /\ IInv' /\ ProfitSound' /\ [ValuationNext]_<<vars, profit>> => ProfitAdds'
  <1> SUFFICES ASSUME Accounts, IInv', ProfitSound', [ValuationNext]_<<vars, profit>>
               PROVE  ProfitAdds'
    OBVIOUS
  <1>1. ASSUME NEW i \in Id, Value(i) PROVE ProfitAdds'
    <2>1. CASE RejectReversal(i) /\ UNCHANGED profit
      <3>1. /\ profits' = profits /\ realized' = realized /\ effects' = effects
            /\ applied' = applied /\ reversed' = reversed
        BY <2>1 DEF RejectReversal, Fail, profit
      <3> QED
        BY <3>1 DEF Accounts, ProfitAdds, Gap, Blur, Rounded, ProfitTerms, Known, StandingSales, Standing
    <2> QED
      BY <1>1, <2>1, AddsOriginal, AddsReversal DEF Value
  <1>2. CASE UNCHANGED <<vars, profit>>
    BY <1>2 DEF vars, profit, Accounts, ProfitAdds, Gap, Blur, Rounded, ProfitTerms,
                Known, StandingSales, Standing
  <1> QED
    BY <1>1, <1>2 DEF ValuationNext

LEMMA AddsInit == ValuationInit => ProfitSound /\ ProfitAdds
  <1> SUFFICES ASSUME ValuationInit PROVE ProfitSound /\ ProfitAdds
    OBVIOUS
  <1>1. StandingSales = {} /\ DOMAIN profits = {}
    BY DEF ValuationInit, Init, StandingSales, Standing
  <1>2. ProfitSound
    BY <1>1 DEF ValuationInit, Init, ProfitSound
  <1>3. DOMAIN ProfitTerms = {}
    BY <1>1 DEF ProfitTerms, Known
  <1>4. SumFunction(ProfitTerms) = 0
    BY <1>3, NoTerms
  <1>5. Rounded \in Nat
    <2>1. applied = {}
      BY DEF ValuationInit, Init
    <2>2. Rounded = Slack * 0
      BY <2>1, FS_EmptySet DEF Rounded
    <2> QED
      BY <2>2, RoundingAssumption
  <1> QED
    BY <1>1, <1>2, <1>4, <1>5 DEF ValuationInit, ProfitAdds

LEMMA AccountsInvariant == ValuationSpec => []Accounts
  <1>1. ProfitSound /\ ProfitAdds /\ Balanced => Accounts
    BY DEF Accounts
  <1>2. Accounts => ProfitSound /\ ProfitAdds /\ Balanced
    BY DEF Accounts
  <1> QED
    BY <1>1, <1>2, AddsInit, AddsStep, ProfitStep, ValuationReplays, Invariance, BooksConserved, PTL
    DEF ValuationSpec

\* What every standing fact contributes to each side of the books.
BroughtTerms == [i \in Standing |-> Brought(i)]

StandingCash == [i \in Standing |-> CashDelta(Tx[i])]

StandingCost == [i \in Standing |-> effects[i].cost]

StandingProfit == [i \in Standing |-> IF Tx[i].kind = "SELL" THEN profits[i] ELSE 0]

StandingGap == [i \in Standing |-> IF Tx[i].kind = "SELL" THEN Gap(i) ELSE 0]

BlurTerms == [i \in Standing |-> IF Tx[i].kind = "SELL" THEN Blur(i) ELSE 0]

NoDoubt == Accounts /\ doubtful = {}

LEMMA ContributionTypes ==
    ASSUME NoDoubt, NEW i \in Standing
    PROVE  /\ Brought(i) \in Int /\ CashDelta(Tx[i]) \in Int /\ effects[i].cost \in Int
           /\ Tx[i].kind = "SELL" => profits[i] \in Int /\ Gap(i) \in (-Blur(i))..Blur(i) /\ Blur(i) \in Nat
           /\ Tx[i].kind \notin Positional => effects[i].cost = 0
  <1>1. i \in Id /\ effects[i] # NoEffect /\ effects[i] \in EffectType
    BY StandingHaveEffects DEF NoDoubt, Accounts, Balanced
  <1>2. CashDelta(Tx[i]) \in Int /\ effects[i].cost \in Int
    BY <1>1, CashDeltaType DEF EffectType
  <1>3. Brought(i) \in Int
    BY <1>2 DEF Brought
  <1>4. ASSUME Tx[i].kind = "SELL"
        PROVE  profits[i] \in Int /\ Gap(i) \in (-Blur(i))..Blur(i) /\ Blur(i) \in Nat
    <2>1. i \in DOMAIN profits /\ i \in StandingSales
      BY <1>4 DEF NoDoubt, Accounts, ProfitSound, StandingSales, Standing
    <2>2. profits[i] # None
      BY <2>1 DEF NoDoubt, Accounts, ProfitSound
    <2>3. profits[i] \in Int /\ Gap(i) \in (-Blur(i))..Blur(i)
      BY <2>1, <2>2 DEF NoDoubt, Accounts, ProfitSound, ProfitAdds
    <2>4. Tx[i].quantity \in Nat
      BY <1>1, <1>4, TxShape DEF WellFormed, Positional, Trades
    <2>5. Blur(i) \in Nat
      BY <2>4, RoundingAssumption DEF Blur
    <2> QED
      BY <2>3, <2>5
  <1>5. Tx[i].kind \notin Positional => effects[i].cost = 0
    BY <1>1 DEF NoDoubt, Accounts, Balanced, DeltasRecorded
  <1> QED
    BY <1>2, <1>3, <1>4, <1>5

\* Fact by fact the books balance.
LEMMA FactBalances ==
    ASSUME NoDoubt, NEW i \in Standing
    PROVE  Brought(i) + StandingProfit[i] = CashDelta(Tx[i]) + effects[i].cost + StandingGap[i]
  <1>1. i \in Id /\ Tx[i].kind \in Originals
    BY StandingHaveEffects DEF Standing, NoDoubt, Accounts, Balanced
  <1>2. CASE Tx[i].kind = "SELL"
    <2>1. Gap(i) = profits[i] - effects[i].cost - CashDelta(Tx[i]) /\ Brought(i) = 0
      BY <1>2 DEF Gap, Brought, Trades
    <2> QED
      BY <1>2, <2>1, ContributionTypes DEF StandingProfit, StandingGap
  <1>3. CASE Tx[i].kind = "BUY"
    <2>1. Brought(i) = 0
      BY <1>3 DEF Brought, Trades
    <2>2. CashDelta(Tx[i]) + effects[i].cost = 0
      BY <1>1, <1>3, StandingHaveEffects DEF NoDoubt, Accounts, Balanced, DeltasRecorded
    <2> QED
      BY <1>3, <2>1, <2>2, ContributionTypes DEF StandingProfit, StandingGap
  <1>4. CASE Tx[i].kind = "OPENING_POSITION"
    <2>1. Brought(i) = effects[i].cost /\ CashDelta(Tx[i]) = 0
      BY <1>4 DEF Brought, CashDelta, Trades
    <2> QED
      BY <1>4, <2>1, ContributionTypes DEF StandingProfit, StandingGap
  <1>5. CASE Tx[i].kind \notin Positional
    <2>1. Brought(i) = CashDelta(Tx[i]) /\ effects[i].cost = 0
      BY <1>5, ContributionTypes DEF Brought, Positional, Trades
    <2> QED
      BY <1>5, <2>1, ContributionTypes DEF StandingProfit, StandingGap, Positional, Trades
  <1> QED
    BY <1>1, <1>2, <1>3, <1>4, <1>5 DEF Positional, Trades

LEMMA StandingTerms ==
    ASSUME NoDoubt
    PROVE  /\ IsFiniteSet(Standing)
           /\ Terms(BroughtTerms) /\ Terms(StandingCash) /\ Terms(StandingCost)
           /\ Terms(StandingProfit) /\ Terms(StandingGap) /\ Terms(BlurTerms)
  <1>1. IsFiniteSet(Standing)
    BY StandingHaveEffects DEF NoDoubt, Accounts, Balanced
  <1>2. \A i \in Standing :
          /\ Brought(i) \in Int /\ CashDelta(Tx[i]) \in Int /\ effects[i].cost \in Int
          /\ Tx[i].kind = "SELL" => profits[i] \in Int /\ Gap(i) \in Int /\ Blur(i) \in Int
    BY ContributionTypes
  <1> QED
    BY <1>1, <1>2 DEF Terms, Summable, BroughtTerms, StandingCash, StandingCost, StandingProfit,
                      StandingGap, BlurTerms

\* The books of the standing facts.
LEMMA FactsBalance ==
    ASSUME NoDoubt
    PROVE  /\ SumFunction(BroughtTerms) + SumFunction(StandingProfit)
                = SumFunction(StandingCash) + SumFunction(StandingCost) + SumFunction(StandingGap)
           /\ SumFunction(StandingGap) \in (-SumFunction(BlurTerms))..SumFunction(BlurTerms)
           /\ SumFunction(BroughtTerms) \in Int /\ SumFunction(StandingProfit) \in Int
           /\ SumFunction(StandingCash) \in Int /\ SumFunction(StandingCost) \in Int
           /\ SumFunction(BlurTerms) \in Int
  <1> DEFINE left == [i \in Standing |-> BroughtTerms[i] + StandingProfit[i]]
             paid == [i \in Standing |-> StandingCash[i] + StandingCost[i]]
             zero == [i \in Standing |-> 0]
             sum == [i \in Standing |-> StandingGap[i] + BlurTerms[i]]
  <1>1. /\ Summable(BroughtTerms, Standing) /\ Summable(StandingCash, Standing)
        /\ Summable(StandingCost, Standing) /\ Summable(StandingProfit, Standing)
        /\ Summable(StandingGap, Standing) /\ Summable(BlurTerms, Standing)
    BY StandingTerms DEF Terms, BroughtTerms, StandingCash, StandingCost, StandingProfit, StandingGap, BlurTerms
  <1>2. /\ DOMAIN BroughtTerms = Standing /\ DOMAIN StandingCash = Standing
        /\ DOMAIN StandingCost = Standing /\ DOMAIN StandingProfit = Standing
        /\ DOMAIN StandingGap = Standing /\ DOMAIN BlurTerms = Standing
    BY DEF BroughtTerms, StandingCash, StandingCost, StandingProfit, StandingGap, BlurTerms
  <1>3. SumFunctionOnSet(left, Standing)
          = SumFunctionOnSet(BroughtTerms, Standing) + SumFunctionOnSet(StandingProfit, Standing)
    BY <1>1, SumPlus
  <1>4. SumFunctionOnSet(paid, Standing)
          = SumFunctionOnSet(StandingCash, Standing) + SumFunctionOnSet(StandingCost, Standing)
    BY <1>1, SumPlus
  <1>5. Summable(paid, Standing) /\ Summable(zero, Standing)
    BY <1>1 DEF Summable
  <1>6. \A i \in Standing : left[i] = paid[i] + StandingGap[i]
    BY FactBalances DEF BroughtTerms, StandingCash, StandingCost
  <1>7. SumFunctionOnSet(left, Standing)
          = SumFunctionOnSet(paid, Standing) + SumFunctionOnSet(StandingGap, Standing)
    <2> HIDE DEF left, paid
    <2> QED
      BY <1>1, <1>5, <1>6, SumPlus
  <1>8. \A i \in Standing : zero[i] <= sum[i] /\ StandingGap[i] <= BlurTerms[i]
    <2> SUFFICES ASSUME NEW i \in Standing PROVE 0 <= sum[i] /\ StandingGap[i] <= BlurTerms[i]
      OBVIOUS
    <2>1. CASE Tx[i].kind = "SELL"
      <3>1. Gap(i) \in (-Blur(i))..Blur(i) /\ Blur(i) \in Nat
        BY <2>1, ContributionTypes
      <3> QED
        BY <2>1, <3>1 DEF StandingGap, BlurTerms
    <2>2. CASE Tx[i].kind # "SELL"
      BY <2>2 DEF StandingGap, BlurTerms
    <2> QED
      BY <2>1, <2>2
  <1>9. /\ SumFunctionOnSet(zero, Standing) = 0 /\ Summable(sum, Standing)
        /\ SumFunctionOnSet(sum, Standing)
             = SumFunctionOnSet(StandingGap, Standing) + SumFunctionOnSet(BlurTerms, Standing)
    <2>1. SumFunctionOnSet(zero, Standing) = 0
      BY <1>5, SumOfZeros DEF Summable
    <2>2. Summable(sum, Standing)
      BY <1>1 DEF Summable
    <2> QED
      BY <1>1, <2>1, <2>2, SumPlus
  <1>10. /\ 0 <= SumFunctionOnSet(sum, Standing)
         /\ SumFunctionOnSet(StandingGap, Standing) <= SumFunctionOnSet(BlurTerms, Standing)
    <2>1. SumFunctionOnSet(zero, Standing) <= SumFunctionOnSet(sum, Standing)
      <3> HIDE DEF zero, sum
      <3> QED
        BY <1>5, <1>8, <1>9, SumOrder
    <2>2. SumFunctionOnSet(StandingGap, Standing) <= SumFunctionOnSet(BlurTerms, Standing)
      <3> HIDE DEF zero, sum
      <3> QED
        BY <1>1, <1>8, SumOrder
    <2> QED
      BY <1>9, <2>1, <2>2
  <1>11. /\ SumFunctionOnSet(BroughtTerms, Standing) \in Int /\ SumFunctionOnSet(StandingProfit, Standing) \in Int
         /\ SumFunctionOnSet(StandingCash, Standing) \in Int /\ SumFunctionOnSet(StandingCost, Standing) \in Int
         /\ SumFunctionOnSet(StandingGap, Standing) \in Int /\ SumFunctionOnSet(BlurTerms, Standing) \in Int
    BY <1>1, SumType
  <1> HIDE DEF left, paid, zero, sum
  <1> QED
    BY <1>2, <1>3, <1>4, <1>7, <1>9, <1>10, <1>11 DEF SumFunction

\* The cash of all accounts is that of the standing facts.
LEMMA CashOfAll ==
    ASSUME NoDoubt
    PROVE  SumFunction(cash) = SumFunction(StandingCash)
  <1> DEFINE label == [i \in Standing |-> Tx[i].account]
  <1>1. Terms(StandingCash) /\ DOMAIN StandingCash = Standing
    BY StandingTerms DEF StandingCash
  <1>2. DOMAIN cash = Account /\ IsFiniteSet(Account)
    BY BookAssumption DEF NoDoubt, Accounts, Balanced, IInv, TypeOK
  <1>3. \A i \in Standing : label[i] \in Account
    BY StandingHaveEffects, TxShape DEF WellFormed, NoDoubt, Accounts, Balanced
  <1>4. ASSUME NEW a \in Account
        PROVE  cash[a] = SumFunctionOnSet(StandingCash, {i \in Standing : label[i] = a})
    <2>1. cash[a] = SumFunction(CashTerms(a))
      BY DEF NoDoubt, Accounts, Balanced, Conservation, CashTerms, InAccount
    <2>2. InAccount(a) = {i \in Standing : label[i] = a} /\ InAccount(a) \subseteq Standing
      BY DEF InAccount
    <2>3. CashTerms(a) = [i \in InAccount(a) |-> StandingCash[i]]
      BY DEF InAccount, CashTerms, StandingCash
    <2>4. SumFunction([i \in InAccount(a) |-> StandingCash[i]]) = SumFunctionOnSet(StandingCash, InAccount(a))
      BY <1>1, <2>2, PartOfTerms
    <2> HIDE DEF label
    <2> QED
      BY <2>1, <2>2, <2>3, <2>4
  <1> HIDE DEF label
  <1>5. SumFunctionOnSet(cash, Account) = SumFunction(StandingCash)
    BY <1>1, <1>2, <1>3, <1>4, SumParts
  <1> QED
    BY <1>2, <1>5 DEF SumFunction

CostOf == [k \in Holding |-> positions[k].cost]

\* The cost of every holding as the standing facts add it up, and how far
\* the position's cost may be from it.
CostBooked == [k \in Holding |-> SumFunction(CostTerms(k))]

DriftOf == [k \in Holding |-> Drift(k)]

\* The facts' costs, holding by holding, are the cost of the standing facts.
LEMMA CostOfFacts ==
    ASSUME NoDoubt
    PROVE  /\ IsFiniteSet(Holding) /\ \A k \in Holding : CostBooked[k] \in Int
           /\ SumFunctionOnSet(CostBooked, Holding) = SumFunction(StandingCost)
  <1> DEFINE P == {i \in Standing : Tx[i].kind \in Positional}
             f == [i \in P |-> StandingCost[i]]
             label == [i \in P |-> Key(Tx[i])]
  <1>1. Terms(StandingCost) /\ DOMAIN StandingCost = Standing
    BY StandingTerms DEF StandingCost
  <1>2. DOMAIN CostBooked = Holding /\ IsFiniteSet(Holding)
    BY BookAssumption, FS_Product DEF CostBooked, Holding
  <1>3. \A i \in P : label[i] \in Holding
    BY StandingHaveEffects, KeyType DEF NoDoubt, Accounts, Balanced
  <1>4. Terms(f)
    <2>1. IsFiniteSet(P)
      BY <1>1, FS_Subset DEF Terms, Summable
    <2> QED
      BY <1>1, <2>1 DEF Terms, Summable
  <1>5. ASSUME NEW k \in Holding
        PROVE  CostBooked[k] = SumFunctionOnSet(f, {i \in P : label[i] = k})
    <2>1. CostBooked[k] = SumFunction(CostTerms(k))
      BY DEF CostBooked
    <2>2. StandingOf(k) = {i \in P : label[i] = k} /\ StandingOf(k) \subseteq P
      BY DEF StandingOf
    <2>3. CostTerms(k) = [i \in StandingOf(k) |-> f[i]]
      BY <2>2 DEF CostTerms, StandingCost
    <2> HIDE DEF f, label
    <2>4. DOMAIN f = P
      BY DEF f
    <2>5. SumFunction([i \in StandingOf(k) |-> f[i]]) = SumFunctionOnSet(f, StandingOf(k))
      <3> HIDE DEF P
      <3> QED
        BY <1>4, <2>2, <2>4, PartOfTerms
    <2> QED
      BY <2>1, <2>2, <2>3, <2>5
  <1>6. DOMAIN f = P
    OBVIOUS
  <1>7. SumFunction(f) = SumFunctionOnSet(StandingCost, P)
    BY <1>1, PartOfTerms
  <1>8. SumFunctionOnSet(StandingCost, Standing) = SumFunctionOnSet(StandingCost, P)
    <2>1. \A i \in Standing \ P : StandingCost[i] = 0
      BY ContributionTypes DEF StandingCost
    <2>2. Summable(StandingCost, Standing)
      BY <1>1 DEF Terms
    <2> QED
      BY <2>1, <2>2, SumSupport
  <1> HIDE DEF label, f, P
  <1>9. SumFunctionOnSet(CostBooked, Holding) = SumFunction(f) /\ \A k \in Holding : CostBooked[k] \in Int
    BY <1>2, <1>3, <1>4, <1>5, <1>6, SumParts
  <1> QED
    BY <1>1, <1>2, <1>7, <1>8, <1>9 DEF SumFunction

LEMMA DriftTyped ==
    ASSUME NoDoubt, NEW k \in Holding
    PROVE  Drift(k) \in Nat
  <1>1. IsFiniteSet({i \in applied : Touches(i, k)})
    BY TxAssumption, FS_Subset DEF NoDoubt, Accounts, Balanced, IInv, TypeOK
  <1>2. Cardinality({i \in applied : Touches(i, k)}) \in Nat
    BY <1>1, FS_CardinalityType
  <1> QED
    BY <1>2, RoundingAssumption DEF Drift

\* The cost of all holdings is that of the standing facts, but for the
\* rounding of sums.
LEMMA CostOfAll ==
    ASSUME NoDoubt
    PROVE  /\ Terms(CostOf) /\ Terms(DriftOf)
           /\ SumFunction(CostOf) - SumFunction(StandingCost)
                \in (-SumFunction(DriftOf))..SumFunction(DriftOf)
  <1> DEFINE above == [k \in Holding |-> CostBooked[k] + DriftOf[k]]
             below == [k \in Holding |-> CostOf[k] + DriftOf[k]]
  <1>1. /\ IsFiniteSet(Holding) /\ \A k \in Holding : CostBooked[k] \in Int
        /\ SumFunctionOnSet(CostBooked, Holding) = SumFunction(StandingCost)
    BY CostOfFacts
  <1>2. ASSUME NEW k \in Holding
        PROVE  CostOf[k] \in Int /\ DriftOf[k] \in Int /\ CostOf[k] - CostBooked[k] \in (-DriftOf[k])..DriftOf[k]
    <2>1. positions[k].cost \in Int /\ Drift(k) \in Nat
      BY DriftTyped DEF NoDoubt, Accounts, Balanced, IInv, TypeOK
    <2>2. positions[k].cost - SumFunction(CostTerms(k)) \in (-Drift(k))..Drift(k)
      BY DEF NoDoubt, Accounts, Balanced, Conservation, CostTerms
    <2> QED
      BY <2>1, <2>2 DEF CostOf, CostBooked, DriftOf
  <1>3. \A k \in Holding : CostOf[k] <= above[k] /\ CostBooked[k] <= below[k]
    <2> SUFFICES ASSUME NEW k \in Holding
                 PROVE  CostOf[k] <= CostBooked[k] + DriftOf[k] /\ CostBooked[k] <= CostOf[k] + DriftOf[k]
      OBVIOUS
    <2> QED
      BY <1>1, <1>2
  <1>4. Summable(CostOf, Holding) /\ Summable(DriftOf, Holding) /\ Summable(CostBooked, Holding)
        /\ Summable(above, Holding) /\ Summable(below, Holding)
    BY <1>1, <1>2 DEF Summable
  <1>5. /\ SumFunctionOnSet(above, Holding)
             = SumFunctionOnSet(CostBooked, Holding) + SumFunctionOnSet(DriftOf, Holding)
        /\ SumFunctionOnSet(below, Holding)
             = SumFunctionOnSet(CostOf, Holding) + SumFunctionOnSet(DriftOf, Holding)
    BY <1>4, SumPlus
  <1> HIDE DEF above, below
  <1>6. /\ SumFunctionOnSet(CostOf, Holding) <= SumFunctionOnSet(above, Holding)
        /\ SumFunctionOnSet(CostBooked, Holding) <= SumFunctionOnSet(below, Holding)
    BY <1>3, <1>4, SumOrder
  <1>7. /\ SumFunctionOnSet(CostOf, Holding) \in Int /\ SumFunctionOnSet(DriftOf, Holding) \in Int
        /\ SumFunctionOnSet(CostBooked, Holding) \in Int
    BY <1>4, SumType
  <1>8. DOMAIN CostOf = Holding /\ DOMAIN DriftOf = Holding
    BY DEF CostOf, DriftOf
  <1>9. SumFunctionOnSet(CostOf, Holding) - SumFunctionOnSet(CostBooked, Holding)
          \in (-SumFunctionOnSet(DriftOf, Holding))..SumFunctionOnSet(DriftOf, Holding)
    BY <1>5, <1>6, <1>7
  <1>10. /\ SumFunction(CostOf) = SumFunctionOnSet(CostOf, Holding)
         /\ SumFunction(DriftOf) = SumFunctionOnSet(DriftOf, Holding)
    BY <1>8 DEF SumFunction
  <1>11. Terms(CostOf) /\ Terms(DriftOf)
    <2>1. CostOf = [k \in Holding |-> CostOf[k]] /\ DriftOf = [k \in Holding |-> DriftOf[k]]
      BY DEF CostOf, DriftOf
    <2> QED
      BY <1>4, <1>8, <2>1 DEF Terms
  <1>12. SumFunction(CostOf) - SumFunction(StandingCost)
           \in (-SumFunction(DriftOf))..SumFunction(DriftOf)
    <2>1. SumFunctionOnSet(CostBooked, Holding) = SumFunction(StandingCost)
      BY <1>1
    <2> QED
      BY <1>9, <1>10, <2>1
  <1> QED
    BY <1>11, <1>12

\* The realized profit is that of the standing sales, but for the rounding of
\* sums, and the three roundings are the rounding allowed.
LEMMA ProfitOfAll ==
    ASSUME NoDoubt
    PROVE  /\ Realized \in Int /\ Realized - SumFunction(StandingProfit) \in (-Rounded)..Rounded
           /\ Rounding = SumFunction(BlurTerms) + SumFunction(DriftOf) + Rounded
           /\ Rounded \in Nat
  <1> DEFINE sold == [i \in StandingSales |-> StandingProfit[i]]
             amount == [i \in StandingSales |-> BlurTerms[i]]
  <1>1. Terms(StandingProfit) /\ Terms(BlurTerms) /\ DOMAIN StandingProfit = Standing /\ DOMAIN BlurTerms = Standing
    BY StandingTerms DEF StandingProfit, BlurTerms
  <1>2. StandingSales \subseteq Standing
    BY DEF StandingSales
  <1>3. \A i \in StandingSales : i \in DOMAIN profits /\ profits[i] # None
    BY DEF NoDoubt, Accounts, ProfitSound, StandingSales, Standing
  <1>4. ProfitTerms = sold
    BY <1>2, <1>3 DEF ProfitTerms, Known, StandingProfit, StandingSales
  <1>5. Rounding = SumFunction(amount) + SumFunction(DriftOf) + Rounded
    <2>1. [i \in StandingSales |-> Slack * (Tx[i].quantity + 1)] = amount
      BY <1>2 DEF BlurTerms, Blur, StandingSales
    <2> QED
      BY <2>1 DEF Rounding, DriftOf, Rounded
  <1>6. /\ SumFunction(sold) = SumFunctionOnSet(StandingProfit, StandingSales)
        /\ SumFunction(amount) = SumFunctionOnSet(BlurTerms, StandingSales)
    BY <1>1, <1>2, PartOfTerms
  <1>7. /\ \A i \in Standing \ StandingSales : StandingProfit[i] = 0
        /\ \A i \in Standing \ StandingSales : BlurTerms[i] = 0
    BY DEF StandingSales, StandingProfit, BlurTerms
  <1>8. Summable(StandingProfit, Standing) /\ Summable(BlurTerms, Standing)
    BY <1>1 DEF Terms
  <1> HIDE DEF sold, amount
  <1>9. /\ SumFunctionOnSet(StandingProfit, Standing) = SumFunctionOnSet(StandingProfit, StandingSales)
        /\ SumFunctionOnSet(BlurTerms, Standing) = SumFunctionOnSet(BlurTerms, StandingSales)
    BY <1>2, <1>7, <1>8, SumSupport
  <1>10. Realized = realized /\ realized \in Int
         /\ realized - SumFunction(ProfitTerms) \in (-Rounded)..Rounded
    BY DEF NoDoubt, Accounts, ProfitSound, ProfitAdds, Realized
  <1>11. Rounded \in Nat
    <2>1. IsFiniteSet(applied)
      BY TxAssumption, FS_Subset DEF NoDoubt, Accounts, Balanced, IInv, TypeOK
    <2>2. Cardinality(applied) \in Nat
      BY <2>1, FS_CardinalityType
    <2> QED
      BY <2>2, RoundingAssumption DEF Rounded
  <1> QED
    BY <1>1, <1>4, <1>5, <1>6, <1>9, <1>10, <1>11 DEF SumFunction

\* The market values cancel, and what is left is the cost of all holdings.
LEMMA UnrealizedIs ==
    ASSUME NoDoubt, Priced, Unrealized # None
    PROVE  /\ Unrealized - Stranded + SumFunction(cash)
                = PortfolioValue - SumFunction(CostOf)
           /\ Unrealized \in Int /\ Stranded \in Int /\ PortfolioValue \in Int
  <1> DEFINE value == [k \in Open |-> MarketValue(k)]
             gains == [k \in Open |-> MarketValue(k) - positions[k].cost]
             flat == Holding \ Open
             zeros == [k \in flat |-> positions[k].cost]
  <1>1. Open \subseteq Holding /\ DOMAIN CostOf = Holding
    BY DEF Open, CostOf
  <1>2. Terms(CostOf)
    BY CostOfAll
  <1>3. \A k \in Open : MarketValue(k) \in Int /\ positions[k].cost \in Int
    <2> SUFFICES ASSUME NEW k \in Open PROVE MarketValue(k) \in Int /\ positions[k].cost \in Int
      OBVIOUS
    <2>1. positions[k].quantity \in Int /\ positions[k].cost \in Int
      BY <1>1 DEF NoDoubt, Accounts, Balanced, IInv, TypeOK
    <2>2. Price[k[2]] \in Int
      BY <1>1, PriceAssumption DEF Priced, Holding
    <2> QED
      BY <2>1, <2>2 DEF MarketValue
  <1>4. IsFiniteSet(Open)
    BY <1>1, <1>2, FS_Subset DEF Terms, Summable
  <1>5. Summable(value, Open) /\ Summable(gains, Open) /\ Summable(CostOf, Open)
    BY <1>1, <1>3, <1>4 DEF Summable, CostOf
  <1>6. \A k \in Open : value[k] = gains[k] + CostOf[k]
    BY <1>1, <1>3 DEF CostOf
  <1>7. SumFunctionOnSet(value, Open) = SumFunctionOnSet(gains, Open) + SumFunctionOnSet(CostOf, Open)
    <2> HIDE DEF value, gains
    <2> QED
      BY <1>5, <1>6, SumPlus
  <1>8. Unrealized = SumFunctionOnSet(gains, Open)
    BY DEF Unrealized, SumFunction
  <1>9. Stranded = SumFunctionOnSet(CostOf, flat)
    <2>1. zeros = [k \in flat |-> CostOf[k]]
      BY DEF CostOf
    <2>2. flat \subseteq DOMAIN CostOf
      BY <1>1
    <2>3. SumFunction([k \in flat |-> CostOf[k]]) = SumFunctionOnSet(CostOf, flat)
      <3> HIDE DEF flat
      <3> QED
        BY <1>2, <2>2, PartOfTerms
    <2> QED
      BY <2>1, <2>3 DEF Stranded
  <1>10. SumFunction(CostOf) = SumFunctionOnSet(CostOf, Open) + SumFunctionOnSet(CostOf, flat)
    <2>1. Holding = Open \cup flat /\ Open \cap flat = {}
      BY <1>1
    <2>2. Summable(CostOf, Holding)
      BY <1>1, <1>2 DEF Terms
    <2> HIDE DEF flat
    <2>3. SumFunctionOnSet(CostOf, Holding) = SumFunctionOnSet(CostOf, Open) + SumFunctionOnSet(CostOf, flat)
      BY <2>1, <2>2, SumUnion
    <2> QED
      BY <1>1, <2>3 DEF SumFunction
  <1>11. PortfolioValue = SumFunction(cash) + SumFunctionOnSet(value, Open)
    BY DEF PortfolioValue, SumFunction
  <1>12. Summable(CostOf, flat)
    BY <1>1, <1>2, FS_Subset DEF Terms, Summable
  <1>13. SumFunction(cash) \in Int
    BY CashOfAll, FactsBalance
  <1> HIDE DEF value, gains, flat
  <1>14. /\ SumFunctionOnSet(value, Open) \in Int /\ SumFunctionOnSet(gains, Open) \in Int
         /\ SumFunctionOnSet(CostOf, Open) \in Int /\ SumFunctionOnSet(CostOf, flat) \in Int
    BY <1>5, <1>12, SumType
  <1> QED
    BY <1>7, <1>8, <1>9, <1>10, <1>11, <1>13, <1>14

\* The differences of the books, the realized profit and the costs add up.
LEMMA Differences ==
    ASSUME NEW b \in Int, NEW p \in Int, NEW a \in Int, NEW c \in Int, NEW g \in Int,
           b + p = a + c + g,
           NEW r \in Int, NEW o \in Int, NEW x \in Int, NEW y \in Int, NEW z \in Int,
           g \in (-x)..x, r - p \in (-z)..z, o - c \in (-y)..y
    PROVE  b + r - a - o \in (-(x + y + z))..(x + y + z)
  OBVIOUS

LEMMA ValueExplained ==
    ASSUME Accounts, Priced, Realized # None, Unrealized # None
    PROVE  Explained - PortfolioValue \in (-Rounding)..Rounding
  <1>1. PICK explained : explained = Explained
    OBVIOUS
  <1>2. NoDoubt
    BY DEF NoDoubt, Realized
  <1>3. PICK x, y, z : x = SumFunction(BlurTerms) /\ y = SumFunction(DriftOf) /\ z = Rounded
    OBVIOUS
  <1>4. /\ SumFunction(BroughtTerms) + SumFunction(StandingProfit)
             = SumFunction(StandingCash) + SumFunction(StandingCost) + SumFunction(StandingGap)
        /\ SumFunction(StandingGap) \in (-x)..x
        /\ SumFunction(BroughtTerms) \in Int /\ SumFunction(StandingProfit) \in Int
        /\ SumFunction(StandingCash) \in Int /\ SumFunction(StandingCost) \in Int /\ x \in Int
    BY <1>2, <1>3, FactsBalance
  <1>5. SumFunction(StandingGap) \in Int
    BY <1>4
  <1>6. /\ SumFunction(CostOf) \in Int /\ y \in Int
        /\ SumFunction(CostOf) - SumFunction(StandingCost) \in (-y)..y
    BY <1>2, <1>3, CostOfAll, TermsType
  <1>7. /\ Realized \in Int /\ z \in Int /\ Realized - SumFunction(StandingProfit) \in (-z)..z
        /\ Rounding = x + y + z
    BY <1>2, <1>3, ProfitOfAll
  <1>8. SumFunction(cash) = SumFunction(StandingCash)
    BY <1>2, CashOfAll
  <1>9. SumFunction(BroughtTerms) + Realized - SumFunction(cash) - SumFunction(CostOf)
          \in (-(x + y + z))..(x + y + z)
    BY <1>4, <1>5, <1>6, <1>7, <1>8, Differences
  <1>10. /\ Unrealized - Stranded + SumFunction(cash) = PortfolioValue - SumFunction(CostOf)
        /\ Unrealized \in Int /\ Stranded \in Int /\ PortfolioValue \in Int
    BY <1>2, UnrealizedIs
  <1>11. explained = SumFunction(BroughtTerms) + Realized + Unrealized - Stranded
    BY <1>1, Zenon DEF Explained, BroughtTerms
  <1>12. explained - PortfolioValue
           = SumFunction(BroughtTerms) + Realized - SumFunction(cash) - SumFunction(CostOf)
    BY <1>4, <1>6, <1>7, <1>8, <1>10, <1>11
  <1>13. explained - PortfolioValue \in (-Rounding)..Rounding
    BY <1>7, <1>9, <1>12
  <1> QED
    BY <1>1, <1>13, Zenon

\* The value of the fund is what was brought into it, the realized and the
\* unrealized profit, less the cost stranded on flat positions, but for the
\* rounding of quotients and of the sums they are part of: for every ledger,
\* order and price and every way to round, although the two profits come from
\* two replays (portfolio/engine.py 206-342, valuation/engine.py 64-156).
THEOREM BooksAlwaysBalance == ValuationSpec => []BooksBalance
  <1>1. ASSUME Accounts, RealizedKnown PROVE BooksBalance
    <2>1. Conservation
      BY <1>1 DEF Accounts, Balanced
    <2>2. Priced /\ Realized # None /\ Unrealized # None =>
            Explained - PortfolioValue \in (-Rounding)..Rounding
      BY <1>1, ValueExplained
    <2> QED
      BY <1>1, <2>1, <2>2, Zenon DEF BooksBalance
  <1> QED
    BY <1>1, AccountsInvariant, RealizedIsKnown, PTL
=============================================================================
