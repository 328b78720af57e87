------------------------- MODULE AssessmentsProofs -------------------------
(***************************************************************************)
(* Proofs about Assessments, for every set of inputs, rules and sessions,  *)
(* and about what the engines of Stress calculate for any book, sample,    *)
(* rules and shocks.                                                       *)
(***************************************************************************)
EXTENDS Assessments, Sums

-----------------------------------------------------------------------------
(* The inductive invariant.                                                *)

\* One row for a key, in a session's view and between open transactions.
KeysApart ==
    /\ \A a, b \in rows : SameKey(a, b) => a = b
    /\ \A s \in Session : \A a, b \in Visible(s) : SameKey(a, b) => a = b
    /\ \A s, u \in Session : s # u => \A a \in work[s].rows, b \in work[u].rows : ~ SameKey(a, b)

\* An observation is found by its identity.
Identified(row) ==
    row.table = "observation" => row = ObservationRow(row.content) /\ IsObservation(row.content)

\* What an evaluation or a scenario run says is what the engines make of its
\* key under some state of the rules.
Calculated(row) ==
    /\ row.table = "evaluation" =>
         /\ \E a \in DOMAIN Metered : row.key.metrics = Metered[a]
         /\ \E known \in SUBSET Rule : row.content = Items(known, row.key.metrics)
    /\ row.table = "scenario" =>
         /\ row.key \in DOMAIN Compared
         /\ \E known \in SUBSET Rule :
             row.content = [comparison |-> Compared[row.key],
                            before |-> Items(known, Compared[row.key].metrics.before),
                            after |-> Items(known, Compared[row.key].metrics.after)]

\* The observations are rows that are seen, as they are stored or were given,
\* each once.
Seen(observed, seen) ==
    /\ \A o \in observed : IsObservation(o) /\ Stored(ObservationRow(o)) \in seen
    /\ \A o, p \in observed : o.id = p.id => o = p

\* A reconciliation compares the observations it names, which are there.
Founded(row, seen) ==
    row.table = "reconciliation" =>
        /\ row = ReconciliationRow(row.key.snapshot, row.key.tolerance, row.key.evidence)
        /\ row.key.snapshot \in Snapshot /\ row.key.tolerance \in Tolerance
        /\ Seen(row.key.evidence, seen)

\* A row as a call has made it.
Sound(row, seen) == IsRow(row) /\ Identified(row) /\ Calculated(row) /\ Founded(row, seen)

\* A row as it is stored: what the columns keep of one that a call has made.
Kept(r, seen) == \E g : r = Stored(g) /\ Sound(g, seen) /\ Storable(g)

\* The objects a session holds are of rows it sees, one for a row.
Objects(h, seen) ==
    /\ \A g \in h : IsRow(g) /\ Identified(g) /\ Stored(g) \in seen
    /\ \A g, q \in h : Stored(g) = Stored(q) => g = q

RowsSound ==
    /\ \A r \in rows : Kept(r, rows)
    /\ \A s \in Session :
         /\ \A r \in work[s].rows : Kept(r, Visible(s))
         /\ ~ Idle(s) => Sound(call[s].row, Visible(s))
         /\ Objects(held[s], Visible(s))

Answered(seen, a) == \E r \in seen : SameKey(r, Stored(a)) /\ Agree(a.table, r.content, Stored(a).content)

IInv == TypeOK /\ KeysApart /\ RowsSound /\ AnswersStand

-----------------------------------------------------------------------------
(* Rounding.                                                               *)

LEMMA TimesKeepsOrder ==
    ASSUME NEW x \in Int, NEW y \in Int, NEW z \in Int, z > 0
    PROVE  x <= y <=> x * z <= y * z
  OBVIOUS

\* The multiples of a number are as far apart as it is large.
LEMMA Apart ==
    ASSUME NEW d \in Nat \ {0}, NEW k \in Int, NEW l \in Int, d * k < d * l + d
    PROVE  k <= l
  <1> SUFFICES ASSUME k >= l + 1 PROVE FALSE
    OBVIOUS
  <1>1. (l + 1) * d <= k * d
    BY TimesKeepsOrder
  <1>2. (l + 1) * d = d * l + d /\ k * d = d * k /\ d * l \in Int /\ d * k \in Int
    OBVIOUS
  <1> QED
    BY <1>1, <1>2

\* The whole number nearest to a quotient is half a unit away at most.
LEMMA NearestIs ==
    ASSUME NEW n \in Int, NEW d \in Nat \ {0}
    PROVE  /\ Nearest(n, d) \in Int /\ d * Nearest(n, d) \in Int
           /\ -d <= 2 * (d * Nearest(n, d)) - 2 * n /\ 2 * (d * Nearest(n, d)) - 2 * n <= d
           /\ n >= 0 => Nearest(n, d) >= 0 /\ 2 * n < 2 * (d * Nearest(n, d)) + d
           /\ n < 0 => Nearest(n, d) <= 0 /\ 2 * n > 2 * (d * Nearest(n, d)) - d
  <1>1. 2 * d \in Nat \ {0} /\ 2 * n + d \in Int /\ d - 2 * n \in Int
    OBVIOUS
  <1>2. CASE n >= 0
    <2> DEFINE k == (2 * n + d) \div (2 * d)
    <2>1. k \in Int /\ (2 * d) * k <= 2 * n + d /\ 2 * n + d < (2 * d) * k + 2 * d
      BY <1>1, Division
    <2>2. Nearest(n, d) = k
      BY <1>2 DEF Nearest
    <2> HIDE DEF k
    <2>3. (2 * d) * k = 2 * (d * k) /\ d * k \in Int
      BY <2>1
    <2>4. k >= 0
      <3>1. (2 * d) * 0 < (2 * d) * k + 2 * d
        BY <1>2, <2>1, <2>3
      <3> QED
        BY <1>1, <2>1, <3>1, Apart
    <2> QED
      BY <1>2, <2>1, <2>2, <2>3, <2>4
  <1>3. CASE n < 0
    <2> DEFINE k == (d - 2 * n) \div (2 * d)
    <2>1. k \in Int /\ (2 * d) * k <= d - 2 * n /\ d - 2 * n < (2 * d) * k + 2 * d
      BY <1>1, Division
    <2>2. Nearest(n, d) = -k
      BY <1>3 DEF Nearest
    <2> HIDE DEF k
    <2>3. (2 * d) * k = 2 * (d * k) /\ d * k \in Int /\ d * (-k) = -(d * k)
      BY <2>1
    <2>4. k >= 0
      <3>1. (2 * d) * 0 < (2 * d) * k + 2 * d
        BY <1>3, <2>1, <2>3
      <3> QED
        BY <1>1, <2>1, <3>1, Apart
    <2> QED
      BY <1>3, <2>1, <2>2, <2>3, <2>4
  <1> QED
    BY <1>2, <1>3

LEMMA NearestOfZero ==
    ASSUME NEW d \in Nat \ {0}
    PROVE  Nearest(0, d) = 0
  <1>1. /\ Nearest(0, d) \in Int /\ d * Nearest(0, d) \in Int /\ Nearest(0, d) >= 0
        /\ 2 * (d * Nearest(0, d)) <= d
    BY NearestIs
  <1>2. d * Nearest(0, d) < d * 0 + d
    BY <1>1
  <1>3. Nearest(0, d) <= 0
    BY <1>1, <1>2, Apart
  <1> QED
    BY <1>1, <1>3

\* Rounding knows no direction.
LEMMA NearestIsOdd ==
    ASSUME NEW n \in Int, NEW d \in Nat \ {0}
    PROVE  Nearest(-n, d) = -Nearest(n, d)
  <1>1. CASE n > 0
    <2>1. d - 2 * (-n) = 2 * n + d
      OBVIOUS
    <2> QED
      BY <1>1, <2>1 DEF Nearest
  <1>2. CASE n < 0
    <2>1. 2 * (-n) + d = d - 2 * n /\ (d - 2 * n) \div (2 * d) \in Int
      BY Division
    <2> QED
      BY <1>2, <2>1 DEF Nearest
  <1>3. CASE n = 0
    <2>1. Nearest(0, d) = 0
      BY NearestOfZero
    <2>2. -n \in Int /\ -n >= 0 /\ -n <= 0
      BY <1>3
    <2>3. -n = 0
      BY <2>2
    <2> QED
      BY <1>3, <2>1, <2>3
  <1> QED
    BY <1>1, <1>2, <1>3

\* Of two quotients that are not negative.
LEMMA NearestUp ==
    ASSUME NEW n \in Nat, NEW m \in Nat, NEW d \in Nat \ {0}, NEW e \in Nat \ {0}, n * e <= m * d
    PROVE  Nearest(n, d) <= Nearest(m, e)
  <1> DEFINE k == Nearest(n, d)
             l == Nearest(m, e)
  <1>1. k \in Int /\ l \in Int /\ 2 * (d * k) - 2 * n <= d /\ 2 * m < 2 * (e * l) + e
    BY NearestIs
  <1> HIDE DEF k, l
  <1>2. d * k \in Int /\ e * l \in Int /\ d * e \in Nat \ {0} /\ n * e \in Int /\ m * d \in Int
        /\ (d * e) * k \in Int /\ (d * e) * l \in Int
    BY <1>1
  <1>3. (2 * (d * k) - 2 * n) * e <= d * e
    BY <1>1, <1>2, TimesKeepsOrder
  <1>4. (2 * m) * d < (2 * (e * l) + e) * d
    <2>1. 2 * m + 1 <= 2 * (e * l) + e /\ 2 * m + 1 \in Int /\ 2 * (e * l) + e \in Int
      BY <1>1, <1>2
    <2>2. (2 * m + 1) * d <= (2 * (e * l) + e) * d
      BY <2>1, TimesKeepsOrder
    <2>3. (2 * m + 1) * d = (2 * m) * d + d /\ (2 * m) * d \in Int
      OBVIOUS
    <2>4. (2 * (e * l) + e) * d \in Int
      BY <2>1
    <2> QED
      BY <2>2, <2>3, <2>4
  <1>5. /\ (2 * (d * k) - 2 * n) * e = 2 * ((d * e) * k) - 2 * (n * e)
        /\ (2 * m) * d = 2 * (m * d)
        /\ (2 * (e * l) + e) * d = 2 * ((d * e) * l) + d * e
    BY <1>1
  <1>6. (d * e) * k < (d * e) * l + d * e
    BY <1>2, <1>3, <1>4, <1>5
  <1>7. k <= l
    BY <1>1, <1>2, <1>6, Apart
  <1> QED
    BY <1>7 DEF k, l

\* Rounding keeps the order of quotients.
LEMMA NearestKeepsOrder ==
    ASSUME NEW n \in Int, NEW m \in Int, NEW d \in Nat \ {0}, NEW e \in Nat \ {0}, n * e <= m * d
    PROVE  Nearest(n, d) <= Nearest(m, e)
  <1>1. CASE n >= 0 /\ m >= 0
    BY <1>1, NearestUp
  <1>2. CASE n < 0 /\ m < 0
    <2>1. -n \in Nat /\ -m \in Nat /\ (-m) * d <= (-n) * e
      <3>1. (-m) * d = -(m * d) /\ (-n) * e = -(n * e) /\ m * d \in Int /\ n * e \in Int
        OBVIOUS
      <3> QED
        BY <1>2, <3>1
    <2>2. Nearest(-m, e) <= Nearest(-n, d)
      BY <2>1, NearestUp
    <2>3. /\ Nearest(-m, e) = -Nearest(m, e) /\ Nearest(-n, d) = -Nearest(n, d)
          /\ Nearest(m, e) \in Int /\ Nearest(n, d) \in Int
      BY NearestIsOdd, NearestIs
    <2> QED
      BY <2>2, <2>3
  <1>3. CASE n < 0 /\ m >= 0
    <2>1. Nearest(n, d) \in Int /\ Nearest(n, d) <= 0 /\ Nearest(m, e) \in Int /\ Nearest(m, e) >= 0
      BY <1>3, NearestIs
    <2> QED
      BY <2>1
  <1>4. CASE n >= 0 /\ m < 0
    <2>1. 0 * e <= n * e /\ m * d <= (-1) * d
      <3>1. 0 <= n /\ m <= -1
        BY <1>4
      <3> QED
        BY <3>1, TimesKeepsOrder
    <2>2. n * e \in Int /\ m * d \in Int /\ 0 * e = 0 /\ (-1) * d < 0
      OBVIOUS
    <2> QED
      BY <2>1, <2>2
  <1> QED
    BY <1>1, <1>2, <1>3, <1>4

\* A multiple is nearest to itself.
LEMMA NearestOfMultiple ==
    ASSUME NEW k \in Int, NEW d \in Nat \ {0}
    PROVE  Nearest(d * k, d) = k
  <1> DEFINE l == Nearest(d * k, d)
  <1>1. l \in Int /\ d * l \in Int /\ d * k \in Int /\ -d <= 2 * (d * l) - 2 * (d * k) /\ 2 * (d * l) - 2 * (d * k) <= d
    BY NearestIs
  <1> HIDE DEF l
  <1>2. d * l < d * k + d /\ d * k < d * l + d
    BY <1>1
  <1>3. l <= k /\ k <= l
    BY <1>1, <1>2, Apart
  <1>4. l = k
    BY <1>1, <1>3
  <1> QED
    BY <1>4 DEF l

\* What a column keeps of a value.
LEMMA ValueIs ==
    ASSUME NEW v \in Int
    PROVE  /\ Value(v) \in Int /\ Near(Value(v), v, Grain)
           /\ Value(-v) = -Value(v) /\ Value(Value(v)) = Value(v)
           /\ v % Grain = 0 => Value(v) = v
  <1>1. Grain \in Nat \ {0}
    BY KeptAssumption
  <1>2. /\ Nearest(v, Grain) \in Int /\ Value(v) \in Int
        /\ -Grain <= 2 * Value(v) - 2 * v /\ 2 * Value(v) - 2 * v <= Grain
    BY <1>1, NearestIs DEF Value
  <1>3. Near(Value(v), v, Grain)
    BY <1>1, <1>2 DEF Near
  <1>4. Value(-v) = -Value(v)
    BY <1>1, <1>2, NearestIsOdd DEF Value
  <1>5. Value(Value(v)) = Value(v)
    BY <1>1, <1>2, NearestOfMultiple DEF Value
  <1>6. ASSUME v % Grain = 0 PROVE Value(v) = v
    <2>1. v \div Grain \in Int /\ Grain * (v \div Grain) = v
      BY <1>1, <1>6
    <2> QED
      BY <1>1, <2>1, NearestOfMultiple DEF Value
  <1> QED
    BY <1>2, <1>3, <1>4, <1>5, <1>6

LEMMA ValueKeepsOrder ==
    ASSUME NEW v \in Int, NEW w \in Int, v <= w
    PROVE  Value(v) <= Value(w)
  <1>1. Grain \in Nat \ {0}
    BY KeptAssumption
  <1>2. v * Grain <= w * Grain
    BY <1>1, TimesKeepsOrder
  <1>3. Nearest(v, Grain) <= Nearest(w, Grain) /\ Nearest(v, Grain) \in Int /\ Nearest(w, Grain) \in Int
    BY <1>1, <1>2, NearestKeepsOrder, NearestIs
  <1>4. Nearest(v, Grain) * Grain <= Nearest(w, Grain) * Grain
    BY <1>1, <1>3, TimesKeepsOrder
  <1> QED
    BY <1>1, <1>3, <1>4 DEF Value

\* Values of which the same is kept differ by less than a grain, and so do
\* their differences from a third up to one grain more.
LEMMA SameValue ==
    ASSUME NEW v \in Int, NEW w \in Int, Value(v) = Value(w), NEW x \in Int
    PROVE  Near(Value(v - x), Value(w - x), 2 * Grain)
  <1>1. Grain \in Nat \ {0}
    BY KeptAssumption
  <1>2. v - w < Grain /\ w - v < Grain
    <2>1. /\ Value(v) \in Int
          /\ -Grain <= 2 * Value(v) - 2 * v /\ 2 * Value(v) - 2 * v <= Grain
          /\ v >= 0 => Nearest(v, Grain) >= 0 /\ 2 * v < 2 * Value(v) + Grain
          /\ v < 0 => Nearest(v, Grain) <= 0 /\ 2 * v > 2 * Value(v) - Grain
      BY <1>1, NearestIs DEF Value
    <2>2. /\ -Grain <= 2 * Value(w) - 2 * w /\ 2 * Value(w) - 2 * w <= Grain
          /\ w >= 0 => Nearest(w, Grain) >= 0 /\ 2 * w < 2 * Value(w) + Grain
          /\ w < 0 => Nearest(w, Grain) <= 0 /\ 2 * w > 2 * Value(w) - Grain
      BY <1>1, NearestIs DEF Value
    <2>3. /\ Nearest(v, Grain) \in Int /\ Nearest(w, Grain) \in Int
          /\ Value(v) = Grain * Nearest(v, Grain) /\ Value(w) = Grain * Nearest(w, Grain)
      BY <1>1, NearestIs DEF Value
    <2>4. Nearest(v, Grain) = 0 => Value(v) = 0
      BY <1>1, <2>3
    <2>5. Nearest(v, Grain) = Nearest(w, Grain)
      <3>1. Grain * Nearest(v, Grain) \in Int
        BY <1>1, <2>3
      <3>2. Nearest(v, Grain) <= Nearest(w, Grain) /\ Nearest(w, Grain) <= Nearest(v, Grain)
        <4>1. /\ Grain * Nearest(v, Grain) < Grain * Nearest(w, Grain) + Grain
              /\ Grain * Nearest(w, Grain) < Grain * Nearest(v, Grain) + Grain
          <5>1. Grain * Nearest(v, Grain) = Grain * Nearest(w, Grain)
            BY <2>3
          <5> QED
            BY <1>1, <3>1, <5>1
        <4> QED
          BY <1>1, <2>3, <4>1, Apart
      <3> QED
        BY <2>3, <3>2
    <2>6. CASE v >= 0 /\ w >= 0
      BY <1>1, <2>1, <2>2, <2>6
    <2>7. CASE v < 0 /\ w < 0
      BY <1>1, <2>1, <2>2, <2>7
    <2>8. CASE (v >= 0 /\ w < 0) \/ (v < 0 /\ w >= 0)
      <3>1. Value(v) = 0
        BY <2>1, <2>2, <2>3, <2>4, <2>5, <2>8
      <3> QED
        BY <1>1, <2>1, <2>2, <2>8, <3>1
    <2> QED
      BY <2>6, <2>7, <2>8
  <1>3. /\ v - x \in Int /\ w - x \in Int
        /\ Nearest(v - x, Grain) \in Int /\ Nearest(w - x, Grain) \in Int
    BY <1>1, NearestIs
  <1>4. /\ -Grain <= 2 * Value(v - x) - 2 * (v - x) /\ 2 * Value(v - x) - 2 * (v - x) <= Grain
        /\ -Grain <= 2 * Value(w - x) - 2 * (w - x) /\ 2 * Value(w - x) - 2 * (w - x) <= Grain
        /\ Value(v - x) \in Int /\ Value(w - x) \in Int
    BY <1>1, <1>3, NearestIs DEF Value
  <1>5. Value(v - x) < Value(w - x) + 2 * Grain /\ Value(w - x) < Value(v - x) + 2 * Grain
    BY <1>1, <1>2, <1>4
  <1> DEFINE k == Nearest(v - x, Grain)
             l == Nearest(w - x, Grain)
  <1>6. /\ k \in Int /\ l \in Int /\ Value(v - x) = Grain * k /\ Value(w - x) = Grain * l
        /\ Grain * (l + 1) = Grain * l + Grain /\ Grain * (k + 1) = Grain * k + Grain
        /\ Grain * k \in Int /\ Grain * l \in Int
    BY <1>1, <1>3 DEF Value
  <1> HIDE DEF k, l
  <1>7. k <= l + 1 /\ l <= k + 1
    <2>1. Grain * k < Grain * (l + 1) + Grain /\ Grain * l < Grain * (k + 1) + Grain
      BY <1>1, <1>5, <1>6
    <2>2. l + 1 \in Int /\ k + 1 \in Int
      BY <1>6
    <2> QED
      BY <1>1, <1>6, <2>1, <2>2, Apart
  <1>8. k * Grain <= (l + 1) * Grain /\ l * Grain <= (k + 1) * Grain
    BY <1>1, <1>6, <1>7, TimesKeepsOrder
  <1>9. Value(v - x) <= Value(w - x) + Grain /\ Value(w - x) <= Value(v - x) + Grain
    BY <1>1, <1>6, <1>8
  <1> QED
    BY <1>1, <1>4, <1>9 DEF Near

\* What a column keeps of an amount of money.
LEMMA MoneyIs ==
    ASSUME NEW v \in Int
    PROVE  Money(v) \in Int /\ Near(Money(v), v, Cent) /\ (v >= 0 => Money(v) >= 0)
  <1>1. Cent \in Nat \ {0}
    BY KeptAssumption
  <1>2. /\ Nearest(v, Cent) \in Int /\ Money(v) \in Int
        /\ -Cent <= 2 * Money(v) - 2 * v /\ 2 * Money(v) - 2 * v <= Cent
        /\ v >= 0 => Nearest(v, Cent) >= 0
    BY <1>1, NearestIs DEF Money
  <1>3. ASSUME v >= 0 PROVE Money(v) >= 0
    <2>1. 0 * Cent <= Nearest(v, Cent) * Cent
      BY <1>1, <1>2, <1>3, TimesKeepsOrder
    <2> QED
      BY <1>1, <1>2, <2>1 DEF Money
  <1> QED
    BY <1>1, <1>2, <1>3 DEF Near

\* What a column keeps of a quotient.
LEMMA ShareIs ==
    ASSUME NEW q \in Quotient
    PROVE  /\ Share(q) \in Quotient /\ Share(q).d = Places
           /\ q.n = 0 => Share(q).n = 0
           /\ q.n >= 0 => Share(q).n >= 0
  <1>1. Places \in Nat \ {0} /\ q.n \in Int /\ q.d \in Nat \ {0} /\ q.n * Places \in Int
    BY KeptAssumption DEF Quotient
  <1>2. Nearest(q.n * Places, q.d) \in Int /\ Share(q) = [n |-> Nearest(q.n * Places, q.d), d |-> Places]
    BY <1>1, NearestIs DEF Share, Ratio
  <1>3. ASSUME q.n = 0 PROVE Share(q).n = 0
    <2>1. q.n * Places = 0
      BY <1>1, <1>3
    <2>2. Nearest(0, q.d) = 0
      BY <1>1, NearestOfZero
    <2> QED
      BY <1>2, <2>1, <2>2
  <1>4. ASSUME q.n >= 0 PROVE Share(q).n >= 0
    <2>1. 0 * Places <= q.n * Places
      BY <1>1, <1>4, TimesKeepsOrder
    <2>2. q.n * Places >= 0
      BY <1>1, <2>1
    <2>3. Nearest(q.n * Places, q.d) >= 0
      BY <1>1, <2>2, NearestIs
    <2> QED
      BY <1>2, <2>3
  <1> QED
    BY <1>1, <1>2, <1>3, <1>4 DEF Quotient

LEMMA ShareKeepsOrder ==
    ASSUME NEW q \in Quotient, NEW r \in Quotient, q.n * r.d <= r.n * q.d
    PROVE  Share(q).n <= Share(r).n
  <1>1. /\ Places \in Nat \ {0} /\ q.n \in Int /\ q.d \in Nat \ {0} /\ r.n \in Int /\ r.d \in Nat \ {0}
        /\ q.n * Places \in Int /\ r.n * Places \in Int /\ q.n * r.d \in Int /\ r.n * q.d \in Int
    BY KeptAssumption DEF Quotient
  <1>2. (q.n * r.d) * Places <= (r.n * q.d) * Places
    BY <1>1, TimesKeepsOrder
  <1>3. (q.n * r.d) * Places = (q.n * Places) * r.d /\ (r.n * q.d) * Places = (r.n * Places) * q.d
    BY <1>1
  <1>4. Nearest(q.n * Places, q.d) <= Nearest(r.n * Places, r.d)
    BY <1>1, <1>2, <1>3, NearestKeepsOrder
  <1> QED
    BY <1>4 DEF Share, Ratio

-----------------------------------------------------------------------------
(* Rows as they are stored.                                                *)

LEMMA StoredIs ==
    ASSUME NEW row, IsRow(row)
    PROVE  /\ IsRow(Stored(row)) /\ Stored(row).table = row.table
           /\ row.table # "reconciliation" => Stored(row).key = row.key
           /\ row.table = "observation" => Stored(row).content = StoredObservation(row.content)
           /\ row.table = "evaluation" => Stored(row).content = StoredOutcomes(row.content)
           /\ row.table = "scenario" =>
                Stored(row).content = [row.content EXCEPT !.comparison = StoredComparison(row.content.comparison)]
  <1>1. row.table \in {"observation", "reconciliation", "evaluation", "scenario"}
    BY DEF IsRow, Table
  <1>2. CASE row.table = "observation"
    <2>1. Stored(row) = Row("observation", row.key, StoredObservation(row.content))
      BY <1>2 DEF Stored
    <2> QED
      BY <1>2, <2>1 DEF Row, IsRow, Table
  <1>3. CASE row.table = "reconciliation"
    <2>1. PICK key, content : Stored(row) = Row("reconciliation", key, content)
      BY <1>3 DEF Stored
    <2> QED
      BY <1>3, <2>1 DEF Row, IsRow, Table
  <1>4. CASE row.table = "evaluation"
    <2>1. Stored(row) = Row("evaluation", row.key, StoredOutcomes(row.content))
      BY <1>4 DEF Stored
    <2> QED
      BY <1>4, <2>1 DEF Row, IsRow, Table
  <1>5. CASE row.table = "scenario"
    <2>1. PICK content : /\ Stored(row) = Row("scenario", row.key, content)
                         /\ content = [row.content EXCEPT !.comparison = StoredComparison(row.content.comparison)]
      BY <1>5 DEF Stored
    <2> QED
      BY <1>5, <2>1 DEF Row, IsRow, Table
  <1> QED
    BY <1>1, <1>2, <1>3, <1>4, <1>5

\* Records of which several fields are replaced.
LEMMA ObservationUpdated ==
    ASSUME NEW o,
           o = [id |-> o.id, account |-> o.account, line |-> o.line, value |-> o.value, text |-> o.text, at |-> o.at]
    PROVE  StoredObservation(o) =
             [id |-> o.id, account |-> o.account, line |-> o.line, value |-> Value(o.value),
              text |-> "STORED", at |-> o.at]
  <1> DEFINE p == StoredObservation(o)
             F == {"id", "account", "line", "value", "text", "at"}
  <1>1. DOMAIN o = F
    OBVIOUS
  <1>2. p = [f \in F |-> p[f]]
    BY <1>1 DEF StoredObservation
  <1>3. /\ p.id = o.id /\ p.account = o.account /\ p.line = o.line /\ p.value = Value(o.value)
        /\ p.text = "STORED" /\ p.at = o.at
    BY <1>1 DEF StoredObservation
  <1> HIDE DEF p
  <1>4. p = [id |-> o.id, account |-> o.account, line |-> o.line, value |-> Value(o.value),
             text |-> "STORED", at |-> o.at]
    BY <1>2, <1>3
  <1> QED
    BY <1>4 DEF p

LEMMA ItemUpdated ==
    ASSUME NEW i,
           i = [observation |-> i.observation, expected |-> i.expected, reported |-> i.reported,
                difference |-> i.difference, status |-> i.status]
    PROVE  StoredItem(i) =
             [observation |-> i.observation, expected |-> Value(i.expected), reported |-> Value(i.reported),
              difference |-> Value(i.difference), status |-> i.status]
  <1> DEFINE p == StoredItem(i)
             F == {"observation", "expected", "reported", "difference", "status"}
  <1>1. DOMAIN i = F
    OBVIOUS
  <1>2. p = [f \in F |-> p[f]]
    BY <1>1 DEF StoredItem
  <1>3. /\ p.observation = i.observation /\ p.expected = Value(i.expected)
        /\ p.reported = Value(i.reported) /\ p.difference = Value(i.difference) /\ p.status = i.status
    BY <1>1 DEF StoredItem
  <1> HIDE DEF p
  <1>4. p = [observation |-> i.observation, expected |-> Value(i.expected), reported |-> Value(i.reported),
             difference |-> Value(i.difference), status |-> i.status]
    BY <1>2, <1>3
  <1> QED
    BY <1>4 DEF p

\* An observation that has been stored is stored again as it is.
LEMMA ObservationStored ==
    ASSUME NEW o, IsObservation(o)
    PROVE  /\ IsRow(ObservationRow(o)) /\ IsObservation(StoredObservation(o))
           /\ StoredObservation(o) =
                [id |-> o.id, account |-> o.account, line |-> o.line, value |-> Value(o.value),
                 text |-> "STORED", at |-> o.at]
           /\ Stored(ObservationRow(o)) = ObservationRow(StoredObservation(o))
           /\ Stored(Stored(ObservationRow(o))) = Stored(ObservationRow(o))
  <1> DEFINE p == [id |-> o.id, account |-> o.account, line |-> o.line, value |-> Value(o.value),
                   text |-> "STORED", at |-> o.at]
             q == [id |-> p.id, account |-> p.account, line |-> p.line, value |-> Value(p.value),
                   text |-> "STORED", at |-> p.at]
  <1>1. /\ o = [id |-> o.id, account |-> o.account, line |-> o.line, value |-> o.value, text |-> o.text, at |-> o.at]
        /\ o.line \in Instrument \cup {None} /\ o.value \in Int /\ o.at \in Nat
    BY DEF IsObservation
  <1>2. Value(o.value) \in Int /\ Value(Value(o.value)) = Value(o.value)
    BY <1>1, ValueIs
  <1>3. StoredObservation(o) = p
    BY <1>1, ObservationUpdated
  <1>4. StoredObservation(p) = q /\ q = p
    <2>1. StoredObservation(p) = q
      <3>1. p = [id |-> p.id, account |-> p.account, line |-> p.line, value |-> p.value, text |-> p.text, at |-> p.at]
        OBVIOUS
      <3> HIDE DEF p
      <3> QED
        BY <3>1, ObservationUpdated
    <2> QED
      BY <1>2, <2>1
  <1>5. IsObservation(p)
    BY <1>1, <1>2 DEF IsObservation
  <1>6. p.id = o.id
    OBVIOUS
  <1> HIDE DEF p, q
  <1>7. /\ Stored(ObservationRow(o)) = Row("observation", o.id, p)
        /\ Stored(ObservationRow(p)) = Row("observation", p.id, p)
        /\ ObservationRow(p) = Row("observation", p.id, p)
    BY <1>3, <1>4 DEF Stored, ObservationRow, Row
  <1>8. IsRow(ObservationRow(o))
    BY DEF IsRow, ObservationRow, Row, Table
  <1> QED
    BY <1>3, <1>5, <1>6, <1>7, <1>8 DEF p

\* A comparison is of whole numbers.
LEMMA CompareIs ==
    ASSUME NEW p \in Snapshot, NEW t, NEW o, IsObservation(o)
    PROVE  /\ Expected(p, o) \in Int /\ Value(Expected(p, o)) = Expected(p, o)
           /\ o.value \in Int /\ o.value - Expected(p, o) \in Int
           /\ Compare(p, t, o) =
                [observation |-> o.id, expected |-> Expected(p, o), reported |-> o.value,
                 difference |-> o.value - Expected(p, o),
                 status |-> IF Within(o.value - Expected(p, o), t) THEN "MATCHED" ELSE "BREACH"]
           /\ StoredItem(Compare(p, t, o)) =
                [observation |-> o.id, expected |-> Expected(p, o), reported |-> Value(o.value),
                 difference |-> Value(o.value - Expected(p, o)),
                 status |-> IF Within(o.value - Expected(p, o), t) THEN "MATCHED" ELSE "BREACH"]
           /\ StoredItem(StoredItem(Compare(p, t, o))) = StoredItem(Compare(p, t, o))
  <1>1. Expected(p, o) \in Int /\ Expected(p, o) % Grain = 0
    <2>1. CASE <<o.account, o.line>> \in DOMAIN p.expected
      BY <2>1, SnapshotAssumption DEF Expected
    <2>2. CASE <<o.account, o.line>> \notin DOMAIN p.expected
      <3>1. 0 % Grain = 0
        BY KeptAssumption
      <3> QED
        BY <2>2, <3>1 DEF Expected
    <2> QED
      BY <2>1, <2>2
  <1>2. Value(Expected(p, o)) = Expected(p, o)
    BY <1>1, ValueIs
  <1>3. o.value \in Int /\ o.value - Expected(p, o) \in Int
    BY <1>1 DEF IsObservation
  <1>4. /\ Value(Value(o.value)) = Value(o.value)
        /\ Value(Value(o.value - Expected(p, o))) = Value(o.value - Expected(p, o))
    BY <1>3, ValueIs
  <1> DEFINE status == IF Within(o.value - Expected(p, o), t) THEN "MATCHED" ELSE "BREACH"
             stored == [observation |-> o.id, expected |-> Expected(p, o), reported |-> Value(o.value),
                        difference |-> Value(o.value - Expected(p, o)), status |-> status]
  <1>5. Compare(p, t, o) = [observation |-> o.id, expected |-> Expected(p, o), reported |-> o.value,
                            difference |-> o.value - Expected(p, o), status |-> status]
    BY DEF Compare
  <1> HIDE DEF status
  <1>6. StoredItem(Compare(p, t, o)) = stored
    <2> DEFINE i == Compare(p, t, o)
    <2>1. /\ i.observation = o.id /\ i.expected = Expected(p, o) /\ i.reported = o.value
          /\ i.difference = o.value - Expected(p, o) /\ i.status = status
          /\ i = [observation |-> i.observation, expected |-> i.expected, reported |-> i.reported,
                  difference |-> i.difference, status |-> i.status]
      BY <1>5
    <2> HIDE DEF i
    <2>2. StoredItem(i) =
            [observation |-> i.observation, expected |-> Value(i.expected), reported |-> Value(i.reported),
             difference |-> Value(i.difference), status |-> i.status]
      BY <2>1, ItemUpdated
    <2> QED
      BY <1>2, <2>1, <2>2 DEF i
  <1>7. StoredItem(stored) = stored
    <2> DEFINE i == stored
    <2>1. /\ i.observation = o.id /\ i.expected = Expected(p, o) /\ i.reported = Value(o.value)
          /\ i.difference = Value(o.value - Expected(p, o)) /\ i.status = status
          /\ i = [observation |-> i.observation, expected |-> i.expected, reported |-> i.reported,
                  difference |-> i.difference, status |-> i.status]
      OBVIOUS
    <2> HIDE DEF i
    <2>2. StoredItem(i) =
            [observation |-> i.observation, expected |-> Value(i.expected), reported |-> Value(i.reported),
             difference |-> Value(i.difference), status |-> i.status]
      BY <2>1, ItemUpdated
    <2> QED
      BY <1>2, <1>4, <2>1, <2>2 DEF i
  <1> QED
    BY <1>1, <1>2, <1>3, <1>5, <1>6, <1>7 DEF status

\* What is stored of a reconciliation run.
KeptRun(p, t, observed) ==
    Row("reconciliation",
        [snapshot |-> p, tolerance |-> Value(t), evidence |-> observed],
        [items |-> {StoredItem(Compare(p, t, o)) : o \in observed},
         status |-> RunStatus({Compare(p, t, o) : o \in observed})])

LEMMA RunStored ==
    ASSUME NEW p \in Snapshot, NEW t \in Tolerance, NEW observed, \A o \in observed : IsObservation(o)
    PROVE  /\ IsRow(ReconciliationRow(p, t, observed))
           /\ ReconciliationRow(p, t, observed).table = "reconciliation"
           /\ ReconciliationRow(p, t, observed).key = [snapshot |-> p, tolerance |-> t, evidence |-> observed]
           /\ Stored(ReconciliationRow(p, t, observed)) = KeptRun(p, t, observed)
           /\ Stored(Stored(ReconciliationRow(p, t, observed))) = Stored(ReconciliationRow(p, t, observed))
  <1> DEFINE items == {Compare(p, t, o) : o \in observed}
             kept == {StoredItem(Compare(p, t, o)) : o \in observed}
             key == [snapshot |-> p, tolerance |-> t, evidence |-> observed]
             keptKey == [snapshot |-> p, tolerance |-> Value(t), evidence |-> observed]
             content == [items |-> items, status |-> RunStatus(items)]
             keptContent == [items |-> kept, status |-> RunStatus(items)]
             row == Row("reconciliation", key, content)
             keptRow == Row("reconciliation", keptKey, keptContent)
  <1>1. t \in Int /\ Value(Value(t)) = Value(t)
    BY ToleranceAssumption, ValueIs
  <1>2. ReconciliationRow(p, t, observed) = row
    BY DEF ReconciliationRow
  <1>3. {StoredItem(i) : i \in items} = kept
    OBVIOUS
  <1>4. {StoredItem(i) : i \in kept} = kept
    BY CompareIs
  <1> HIDE DEF items, kept
  <1>5. /\ [key EXCEPT !.tolerance = Value(key.tolerance)] = keptKey
        /\ [keptKey EXCEPT !.tolerance = Value(keptKey.tolerance)] = keptKey
    BY <1>1
  <1>6. /\ [content EXCEPT !.items = {StoredItem(i) : i \in content.items}] = keptContent
        /\ [keptContent EXCEPT !.items = {StoredItem(i) : i \in keptContent.items}] = keptContent
    <2>1. content.items = items /\ keptContent.items = kept
      OBVIOUS
    <2>2. [content EXCEPT !.items = kept] = keptContent /\ [keptContent EXCEPT !.items = kept] = keptContent
      OBVIOUS
    <2> HIDE DEF content, keptContent
    <2> QED
      BY <1>3, <1>4, <2>1, <2>2
  <1> HIDE DEF key, keptKey, content, keptContent
  <1>7. /\ row.table = "reconciliation" /\ row.key = key /\ row.content = content
        /\ keptRow.table = "reconciliation" /\ keptRow.key = keptKey /\ keptRow.content = keptContent
    BY DEF Row
  <1> HIDE DEF row, keptRow
  <1>8. Stored(row) = keptRow /\ Stored(keptRow) = keptRow
    BY <1>5, <1>6, <1>7 DEF Stored, keptRow
  <1>9. IsRow(row)
    BY <1>7 DEF IsRow, Table, row
  <1> QED
    <2>1. keptRow = KeptRun(p, t, observed)
      BY DEF keptRow, keptKey, keptContent, kept, items, KeptRun
    <2> QED
      BY <1>2, <1>7, <1>8, <1>9, <2>1 DEF key

\* What is stored of an observation or a reconciliation is stored again as it is.
LEMMA StoredTwice ==
    ASSUME NEW g, NEW seen, Sound(g, seen), g.table \in {"observation", "reconciliation"}
    PROVE  Stored(Stored(g)) = Stored(g)
  <1>1. CASE g.table = "observation"
    BY <1>1, ObservationStored DEF Sound, Identified
  <1>2. CASE g.table = "reconciliation"
    <2>1. PICK p, t, observed :
            /\ p \in Snapshot /\ t \in Tolerance /\ \A o \in observed : IsObservation(o)
            /\ g = ReconciliationRow(p, t, observed)
      BY <1>2 DEF Sound, Founded, Seen
    <2>2. Stored(Stored(ReconciliationRow(p, t, observed))) = Stored(ReconciliationRow(p, t, observed))
      BY <2>1, RunStored
    <2> QED
      BY <2>1, <2>2
  <1> QED
    BY <1>1, <1>2

-----------------------------------------------------------------------------
(* Rows and views.                                                         *)

LEMMA SoundKept ==
    ASSUME NEW row, NEW seen, NEW more, Sound(row, seen), seen \subseteq more
    PROVE  Sound(row, more)
  BY DEF Sound, Founded, Seen

LEMMA KeptKept ==
    ASSUME NEW row, NEW seen, NEW more, Kept(row, seen), seen \subseteq more
    PROVE  Kept(row, more)
  BY SoundKept DEF Kept

LEMMA ObjectsKept ==
    ASSUME NEW h, NEW seen, NEW more, Objects(h, seen), seen \subseteq more
    PROVE  Objects(h, more)
  BY DEF Objects

LEMMA AnsweredKept ==
    ASSUME NEW a, NEW seen, NEW more, Answered(seen, a), seen \subseteq more
    PROVE  Answered(more, a)
  BY DEF Answered

LEMMA AnswersAre == AnswersStand <=> \A s \in Session : \A a \in work[s].answers : Answered(Visible(s), a)
  BY DEF AnswersStand, Answered

LEMMA AnswersAreNext ==
    AnswersStand' <=> \A s \in Session : \A a \in work'[s].answers : Answered(Visible(s)', a)
  BY DEF AnswersStand, Answered

LEMMA Shape ==
    ASSUME TypeOK
    PROVE  /\ DOMAIN work = Session /\ DOMAIN held = Session /\ DOMAIN call = Session
           /\ \A s \in Session : work[s] = [rows |-> work[s].rows, answers |-> work[s].answers]
           /\ work = [s \in Session |-> work[s]] /\ held = [s \in Session |-> held[s]]
           /\ call = [s \in Session |-> call[s]]
  BY DEF TypeOK

\* A step of session s leaves it with work w, objects h and call c.
Does(s, w, h, c) ==
    /\ work' = [work EXCEPT ![s] = w]
    /\ held' = [held EXCEPT ![s] = h]
    /\ call' = [call EXCEPT ![s] = c]

LEMMA ShapeStep ==
    ASSUME TypeOK, NEW s \in Session, NEW w, NEW h, NEW c,
           w = [rows |-> w.rows, answers |-> w.answers], Does(s, w, h, c)
    PROVE  /\ work' = [u \in Session |-> [rows |-> work'[u].rows, answers |-> work'[u].answers]]
           /\ held' = [u \in Session |-> held'[u]] /\ call' = [u \in Session |-> call'[u]]
           /\ work'[s] = w /\ held'[s] = h /\ call'[s] = c
           /\ \A u \in Session \ {s} : work'[u] = work[u] /\ held'[u] = held[u] /\ call'[u] = call[u]
  BY Shape DEF Does

\* A call in progress.
InCall(c, own) ==
    /\ c = [step |-> c.step, row |-> c.row] /\ IsRow(c.row)
    /\ c.step \in {"LOOKUP", "INSERT", "COMMIT"}
    /\ c.step = "COMMIT" => Stored(c.row) \in own /\ c.row.table \in Committing

\* What one session has, given the rows it sees.
Shaped(w, h, c, seen) ==
    /\ \A r \in w.rows \cup w.answers \cup h : IsRow(r)
    /\ c.step \in {"IDLE", "LOOKUP", "INSERT", "COMMIT"}
    /\ c.step = "IDLE" => c = NoCall
    /\ c.step # "IDLE" => c = [step |-> c.step, row |-> c.row] /\ IsRow(c.row)
    /\ c.step = "COMMIT" => Stored(c.row) \in w.rows /\ c.row.table \in Committing
    /\ \A g \in h : Stored(g) \in seen

RulesTyped == rules \subseteq Rule /\ \A r, q \in rules : r.metric = q.metric => r = q

LEMMA TypeIs ==
    TypeOK <=>
        /\ RulesTyped /\ \A r \in rows : IsRow(r)
        /\ work = [s \in Session |-> [rows |-> work[s].rows, answers |-> work[s].answers]]
        /\ held = [s \in Session |-> held[s]] /\ call = [s \in Session |-> call[s]]
        /\ \A s \in Session : Shaped(work[s], held[s], call[s], Visible(s))
  BY Zenon DEF TypeOK, RulesTyped, Shaped, Idle

LEMMA TypeIsNext ==
    TypeOK' <=>
        /\ RulesTyped' /\ \A r \in rows' : IsRow(r)
        /\ work' = [s \in Session |-> [rows |-> work'[s].rows, answers |-> work'[s].answers]]
        /\ held' = [s \in Session |-> held'[s]] /\ call' = [s \in Session |-> call'[s]]
        /\ \A s \in Session : Shaped(work'[s], held'[s], call'[s], Visible(s)')
  BY Zenon DEF TypeOK, RulesTyped, Shaped, Idle

\* The type of a state in which session s has done a step and rows only grew.
LEMMA TypeAfter ==
    ASSUME TypeOK, NEW s \in Session, RulesTyped',
           \A r \in rows' : IsRow(r), rows \subseteq rows',
           NEW w, NEW h, NEW c, w = [rows |-> w.rows, answers |-> w.answers], Does(s, w, h, c),
           \A r \in w.rows \cup w.answers : IsRow(r),
           c = NoCall \/ InCall(c, w.rows),
           Objects(h, rows' \cup w.rows)
    PROVE  TypeOK'
  <1>1. /\ work' = [u \in Session |-> [rows |-> work'[u].rows, answers |-> work'[u].answers]]
        /\ held' = [u \in Session |-> held'[u]] /\ call' = [u \in Session |-> call'[u]]
        /\ work'[s] = w /\ held'[s] = h /\ call'[s] = c
        /\ \A u \in Session \ {s} : work'[u] = work[u] /\ held'[u] = held[u] /\ call'[u] = call[u]
    BY ShapeStep
  <1>2. ASSUME NEW u \in Session \ {s} PROVE Shaped(work'[u], held'[u], call'[u], Visible(u)')
    <2>1. work'[u] = work[u] /\ held'[u] = held[u] /\ call'[u] = call[u] /\ Visible(u) \subseteq Visible(u)'
      BY <1>1 DEF Visible
    <2>2. Shaped(work[u], held[u], call[u], Visible(u))
      BY TypeIs
    <2> QED
      BY <2>1, <2>2 DEF Shaped
  <1>3. Shaped(w, h, c, Visible(s)')
    <2>1. Visible(s)' = rows' \cup w.rows
      BY <1>1 DEF Visible
    <2> QED
      BY <2>1 DEF Shaped, NoCall, InCall, Objects
  <1> QED
    BY <1>1, <1>2, <1>3, TypeIsNext

-----------------------------------------------------------------------------
(* What a session finds.                                                   *)

\* What the invariant says of the rows and answers of one session.
LEMMA OwnSound ==
    ASSUME IInv, NEW s \in Session
    PROVE  /\ \A r \in rows : Kept(r, rows) /\ IsRow(r)
           /\ \A r \in work[s].rows : Kept(r, Visible(s))
           /\ \A r \in Visible(s) : Kept(r, Visible(s)) /\ IsRow(r)
           /\ \A p, q \in Visible(s) : SameKey(p, q) => p = q
           /\ Objects(held[s], Visible(s))
           /\ \A a \in work[s].answers : Answered(Visible(s), a)
           /\ call[s].step # "IDLE" => Sound(call[s].row, Visible(s))
  <1>1. /\ \A r \in rows : Kept(r, rows)
        /\ \A r \in work[s].rows : Kept(r, Visible(s))
        /\ Objects(held[s], Visible(s))
        /\ call[s].step # "IDLE" => Sound(call[s].row, Visible(s))
    BY DEF IInv, RowsSound, Idle
  <1>2. \A r \in rows : Kept(r, Visible(s))
    BY <1>1, KeptKept DEF Visible
  <1>3. \A r \in Visible(s) : IsRow(r)
    BY DEF IInv, TypeOK, Visible
  <1>4. \A a \in work[s].answers : Answered(Visible(s), a)
    BY AnswersAre DEF IInv
  <1>5. \A p, q \in Visible(s) : SameKey(p, q) => p = q
    BY DEF IInv, KeysApart
  <1> QED
    BY <1>1, <1>2, <1>3, <1>4, <1>5 DEF Visible

\* A stored observation is one that can be reported, and stays as it is.
LEMMA ObservationKept ==
    ASSUME NEW r, NEW seen, Kept(r, seen), r.table = "observation"
    PROVE  r = ObservationRow(r.content) /\ IsObservation(r.content) /\ Stored(r) = r
  <1>1. PICK g : r = Stored(g) /\ Sound(g, seen)
    BY DEF Kept
  <1>2. g.table = "observation"
    BY <1>1, StoredIs DEF Sound
  <1>3. g = ObservationRow(g.content) /\ IsObservation(g.content)
    BY <1>1, <1>2 DEF Sound, Identified
  <1>4. /\ r = ObservationRow(StoredObservation(g.content)) /\ IsObservation(StoredObservation(g.content))
        /\ Stored(r) = r
    BY <1>1, <1>3, ObservationStored
  <1>5. r.content = StoredObservation(g.content)
    BY <1>4 DEF ObservationRow, Row
  <1> QED
    BY <1>4, <1>5

\* An answer to a query is an object of a row selected, or such a row.
LEMMA AnswerIs ==
    ASSUME NEW s \in Session, NEW selected, NEW r \in Answer(s, selected)
    PROVE  (r \in held[s] /\ Stored(r) \in selected) \/ r \in selected
  BY DEF Answer

\* A query for observations answers with each once.
LEMMA ObservationsFound ==
    ASSUME IInv, NEW s \in Session, NEW selected, selected \subseteq Visible(s),
           \A r \in selected : r.table = "observation"
    PROVE  Seen({r.content : r \in Answer(s, selected)}, Visible(s))
  <1> DEFINE found == Answer(s, selected)
             objects == {g \in held[s] : Stored(g) \in selected}
             seen == Visible(s)
  <1>1. /\ found = objects \cup (selected \ {Stored(g) : g \in objects})
        /\ Objects(held[s], seen) /\ \A r \in seen : Kept(r, seen) /\ IsRow(r)
        /\ \A p, q \in seen : SameKey(p, q) => p = q
    BY OwnSound DEF Answer
  <1>2. ASSUME NEW g \in objects
        PROVE  /\ g = ObservationRow(g.content) /\ IsObservation(g.content) /\ Stored(g) \in selected
               /\ Stored(g).key = g.content.id
    <2>1. IsRow(g) /\ Identified(g) /\ Stored(g) \in selected
      BY <1>1 DEF Objects
    <2>2. g.table = "observation" /\ Stored(g).key = g.key
      BY <2>1, StoredIs
    <2>3. g = ObservationRow(g.content) /\ IsObservation(g.content)
      BY <2>1, <2>2 DEF Identified
    <2>4. g.key = g.content.id
      BY <2>3 DEF ObservationRow, Row
    <2> QED
      BY <2>1, <2>2, <2>3, <2>4
  <1>3. ASSUME NEW r \in selected
        PROVE  /\ r = ObservationRow(r.content) /\ IsObservation(r.content) /\ Stored(r) = r
               /\ r.key = r.content.id
    <2>1. r = ObservationRow(r.content) /\ IsObservation(r.content) /\ Stored(r) = r
      BY <1>1, ObservationKept
    <2>2. r.key = r.content.id
      BY <2>1 DEF ObservationRow, Row
    <2> QED
      BY <2>1, <2>2
  <1> HIDE DEF found, objects, seen
  <1>4. ASSUME NEW r \in found
        PROVE  /\ r = ObservationRow(r.content) /\ IsObservation(r.content) /\ Stored(r) \in selected
               /\ Stored(r).key = r.content.id
    BY <1>1, <1>2, <1>3
  <1>5. ASSUME NEW p \in found, NEW q \in found, p.content.id = q.content.id PROVE p = q
    <2>1. Stored(p) = Stored(q)
      <3>1. Stored(p) \in selected /\ Stored(q) \in selected /\ Stored(p).key = Stored(q).key
        BY <1>4, <1>5
      <3>2. SameKey(Stored(p), Stored(q))
        BY <3>1 DEF SameKey
      <3> QED
        BY <1>1, <3>1, <3>2 DEF seen
    <2>2. CASE p \in objects /\ q \in objects
      BY <1>1, <2>1, <2>2 DEF Objects, objects
    <2>3. CASE p \in objects /\ q \notin objects
      <3>1. Stored(q) = q /\ q \notin {Stored(g) : g \in objects}
        BY <1>1, <1>3, <2>3
      <3> QED
        BY <2>1, <2>3, <3>1
    <2>4. CASE p \notin objects /\ q \in objects
      <3>1. Stored(p) = p /\ p \notin {Stored(g) : g \in objects}
        BY <1>1, <1>3, <2>4
      <3> QED
        BY <2>1, <2>4, <3>1
    <2>5. CASE p \notin objects /\ q \notin objects
      BY <1>1, <1>3, <2>1, <2>5
    <2> QED
      BY <2>2, <2>3, <2>4, <2>5
  <1>6. \A o \in {r.content : r \in found} : IsObservation(o) /\ Stored(ObservationRow(o)) \in seen
    BY <1>4 DEF seen
  <1>7. \A o, p \in {r.content : r \in found} : o.id = p.id => o = p
    BY <1>5
  <1> QED
    BY <1>6, <1>7 DEF Seen, found, seen

-----------------------------------------------------------------------------
(* The rows the calls make.                                                *)

LEMMA ObservationSound ==
    ASSUME NEW o \in Observation, NEW seen
    PROVE  Sound(ObservationRow(o), seen)
  BY ObservationAssumption DEF IsRow, ObservationRow, Row, Table, Sound, Identified, Calculated, Founded

LEMMA ReconciliationSound ==
    ASSUME IInv, NEW s \in Session, NEW p \in Snapshot, NEW t \in Tolerance
    PROVE  Sound(ReconciliationRow(p, t, Applicable(s, p)), Visible(s))
  <1> DEFINE observed == Applicable(s, p)
             row == ReconciliationRow(p, t, observed)
  <1>1. Seen(observed, Visible(s))
    <2> DEFINE selected == {q \in Visible(s) :
                   /\ q.table = "observation" /\ q.content.at = p.at
                   /\ p.account \in {None, q.content.account}}
    <2>1. selected \subseteq Visible(s) /\ \A r \in selected : r.table = "observation"
      OBVIOUS
    <2>2. observed = {r.content : r \in Answer(s, selected)}
      BY DEF Applicable
    <2> HIDE DEF observed, selected
    <2> QED
      BY <2>1, <2>2, ObservationsFound
  <1> HIDE DEF observed
  <1>2. /\ IsRow(row) /\ row.table = "reconciliation"
        /\ row.key = [snapshot |-> p, tolerance |-> t, evidence |-> observed]
    <2>1. \A o \in observed : IsObservation(o)
      BY <1>1 DEF Seen
    <2> QED
      BY <2>1, RunStored
  <1>3. row = ReconciliationRow(row.key.snapshot, row.key.tolerance, row.key.evidence)
        /\ row.key.snapshot = p /\ row.key.tolerance = t /\ row.key.evidence = observed
    BY <1>2
  <1> HIDE DEF row
  <1>4. Sound(row, Visible(s))
    BY <1>1, <1>2, <1>3 DEF Sound, Identified, Calculated, Founded
  <1> QED
    BY <1>4 DEF row, observed

LEMMA EvaluationRowSound ==
    ASSUME TypeOK, NEW a \in DOMAIN Metered, NEW seen
    PROVE  Sound(EvaluationRow(a), seen)
  <1>1. /\ EvaluationRow(a).table = "evaluation" /\ IsRow(EvaluationRow(a))
        /\ EvaluationRow(a).key.metrics = Metered[a]
        /\ EvaluationRow(a).content = Items(rules, Metered[a])
    BY DEF EvaluationRow, EvaluationKey, Row, IsRow, Table
  <1>2. rules \in SUBSET Rule
    BY DEF TypeOK
  <1> QED
    BY <1>1, <1>2 DEF Sound, Identified, Calculated, Founded

LEMMA ScenarioRowSound ==
    ASSUME TypeOK, NEW e \in DOMAIN Compared, NEW seen
    PROVE  Sound(ScenarioRow(e), seen)
  <1>1. /\ ScenarioRow(e).table = "scenario" /\ IsRow(ScenarioRow(e))
        /\ ScenarioRow(e).key = e
        /\ ScenarioRow(e).content = [comparison |-> Compared[e],
                                     before |-> Items(rules, Compared[e].metrics.before),
                                     after |-> Items(rules, Compared[e].metrics.after)]
    BY DEF ScenarioRow, Row, IsRow, Table
  <1>2. rules \in SUBSET Rule
    BY DEF TypeOK
  <1> QED
    BY <1>1, <1>2 DEF Sound, Identified, Calculated, Founded

\* Two sound rows of one key agree: the outcome of a rule is a matter of the
\* rule and the metrics.
LEMMA SameItems ==
    ASSUME NEW known, NEW others, NEW metrics
    PROVE  /\ SameOutcomes(Items(known, metrics), Items(others, metrics))
           /\ SameOutcomes(StoredOutcomes(Items(known, metrics)), StoredOutcomes(Items(others, metrics)))
  BY DEF SameOutcomes, Items, StoredOutcomes

LEMMA SoundRowsAgree ==
    ASSUME NEW g, NEW q, NEW seen, Sound(g, seen), Sound(q, seen), SameKey(g, q),
           g.table \in {"evaluation", "scenario"}
    PROVE  Agree(g.table, Stored(g).content, Stored(q).content)
  <1>1. /\ Stored(g).table = g.table /\ Stored(q).table = q.table /\ g.table = q.table /\ g.key = q.key
    BY StoredIs DEF Sound, SameKey
  <1>2. CASE g.table = "evaluation"
    <2>1. Stored(g).content = StoredOutcomes(g.content) /\ Stored(q).content = StoredOutcomes(q.content)
      BY <1>1, <1>2, StoredIs DEF Sound
    <2> QED
      BY <1>1, <1>2, <2>1, SameItems DEF Sound, Calculated, Agree
  <1>3. CASE g.table = "scenario"
    <2>1. PICK known : g.content = [comparison |-> Compared[g.key],
                                    before |-> Items(known, Compared[g.key].metrics.before),
                                    after |-> Items(known, Compared[g.key].metrics.after)]
      BY <1>3 DEF Sound, Calculated
    <2>2. PICK others : q.content = [comparison |-> Compared[g.key],
                                     before |-> Items(others, Compared[g.key].metrics.before),
                                     after |-> Items(others, Compared[g.key].metrics.after)]
      BY <1>1, <1>3 DEF Sound, Calculated
    <2>3. /\ Stored(g).content = [g.content EXCEPT !.comparison = StoredComparison(g.content.comparison)]
          /\ Stored(q).content = [q.content EXCEPT !.comparison = StoredComparison(q.content.comparison)]
      BY <1>1, <1>3, StoredIs DEF Sound
    <2> DEFINE kept == StoredComparison(Compared[g.key])
    <2>4. /\ Stored(g).content = [comparison |-> kept,
                                  before |-> Items(known, Compared[g.key].metrics.before),
                                  after |-> Items(known, Compared[g.key].metrics.after)]
          /\ Stored(q).content = [comparison |-> kept,
                                  before |-> Items(others, Compared[g.key].metrics.before),
                                  after |-> Items(others, Compared[g.key].metrics.after)]
      BY <2>1, <2>2, <2>3
    <2> HIDE DEF kept
    <2> QED
      BY <1>3, <2>4, SameItems DEF Agree
  <1> QED
    BY <1>2, <1>3

-----------------------------------------------------------------------------
(* The steps.                                                              *)

\* After a step of session s, the invariant is a matter of what s has.
LEMMA Preserved ==
    ASSUME IInv, TypeOK', KeysApart', NEW s \in Session,
           \A u \in Session \ {s} : work'[u] = work[u] /\ held'[u] = held[u] /\ call'[u] = call[u],
           rows \subseteq rows', \A r \in rows' : Kept(r, rows'),
           \A r \in work'[s].rows : Kept(r, Visible(s)'),
           call'[s].step # "IDLE" => Sound(call'[s].row, Visible(s)'),
           Objects(held'[s], Visible(s)'),
           \A a \in work'[s].answers : Answered(Visible(s)', a)
    PROVE  IInv'
  <1>1. \A u \in Session \ {s} : Visible(u) \subseteq Visible(u)'
    BY DEF Visible
  <1>2. RowsSound'
    <2>1. ASSUME NEW u \in Session \ {s}
          PROVE  /\ \A r \in work'[u].rows : Kept(r, Visible(u)')
                 /\ call'[u].step # "IDLE" => Sound(call'[u].row, Visible(u)')
                 /\ Objects(held'[u], Visible(u)')
      <3>1. /\ \A r \in work[u].rows : Kept(r, Visible(u))
            /\ call[u].step # "IDLE" => Sound(call[u].row, Visible(u))
            /\ Objects(held[u], Visible(u))
        BY OwnSound
      <3> QED
        BY <1>1, <3>1, SoundKept, KeptKept, ObjectsKept
    <2> QED
      BY <2>1 DEF RowsSound, Idle
  <1>3. AnswersStand'
    <2>1. ASSUME NEW u \in Session \ {s}, NEW a \in work'[u].answers PROVE Answered(Visible(u)', a)
      BY <1>1, AnsweredKept, AnswersAre DEF IInv
    <2> QED
      BY <2>1, AnswersAreNext
  <1> QED
    BY <1>2, <1>3 DEF IInv

LEMMA SameRows ==
    ASSUME IInv, rows' = rows, \A u \in Session : work'[u].rows = work[u].rows
    PROVE  KeysApart' /\ \A u \in Session : Visible(u)' = Visible(u)
  <1>1. \A u \in Session : Visible(u)' = Visible(u)
    BY DEF Visible
  <1> QED
    BY <1>1 DEF IInv, KeysApart

\* The shape of the calls and the work of session s.
LEMMA OwnShape ==
    ASSUME TypeOK, NEW s \in Session
    PROVE  /\ work[s] = [rows |-> work[s].rows, answers |-> work[s].answers]
           /\ call[s].step = "IDLE" => call[s] = NoCall
           /\ call[s].step # "IDLE" => InCall(call[s], work[s].rows)
           /\ \A r \in work[s].rows \cup work[s].answers : IsRow(r)
           /\ \A r \in rows : IsRow(r)
           /\ RulesTyped
  <1>1. work[s] = [rows |-> work[s].rows, answers |-> work[s].answers]
    BY Shape
  <1> QED
    BY <1>1 DEF TypeOK, Idle, Visible, InCall, RulesTyped

LEMMA SameWork ==
    ASSUME TypeOK, NEW s \in Session
    PROVE  work = [work EXCEPT ![s] = work[s]] /\ held = [held EXCEPT ![s] = held[s]]
  BY Shape

\* What a session's work and call must be, given the rows it sees.
WorkSound(w, c, seen) ==
    /\ w = [rows |-> w.rows, answers |-> w.answers]
    /\ \A r \in w.rows \cup w.answers : IsRow(r)
    /\ \A r \in w.rows : Kept(r, seen)
    /\ \A a \in w.answers : Answered(seen, a)
    /\ c = NoCall \/ (InCall(c, w.rows) /\ Sound(c.row, seen))

\* A step loses no committed row, and those it leaves are sound.
StoreSound == rows \subseteq rows' /\ \A r \in rows' : IsRow(r) /\ Kept(r, rows')

\* Every step of a session in these terms.
LEMMA StepOf ==
    ASSUME IInv, KeysApart', NEW s \in Session, NEW w, NEW h, NEW c,
           Does(s, w, h, c), RulesTyped', StoreSound,
           WorkSound(w, c, rows' \cup w.rows), Objects(h, rows' \cup w.rows)
    PROVE  IInv'
  <1>1. TypeOK
    BY DEF IInv
  <1>2. /\ w = [rows |-> w.rows, answers |-> w.answers]
        /\ \A r \in w.rows \cup w.answers : IsRow(r)
        /\ \A r \in w.rows : Kept(r, rows' \cup w.rows)
        /\ \A a \in w.answers : Answered(rows' \cup w.rows, a)
        /\ c = NoCall \/ (InCall(c, w.rows) /\ Sound(c.row, rows' \cup w.rows))
    BY DEF WorkSound
  <1>3. rows \subseteq rows' /\ \A r \in rows' : IsRow(r) /\ Kept(r, rows')
    BY DEF StoreSound
  <1>4. TypeOK'
    BY <1>1, <1>2, <1>3, TypeAfter
  <1>5. /\ work'[s] = w /\ held'[s] = h /\ call'[s] = c
        /\ \A u \in Session \ {s} : work'[u] = work[u] /\ held'[u] = held[u] /\ call'[u] = call[u]
    BY <1>1, <1>2, ShapeStep
  <1>6. Visible(s)' = rows' \cup w.rows
    BY <1>5 DEF Visible
  <1>7. call'[s].step # "IDLE" => Sound(call'[s].row, Visible(s)')
    BY <1>2, <1>5, <1>6 DEF NoCall
  <1>8. /\ \A r \in work'[s].rows : Kept(r, Visible(s)')
        /\ \A a \in work'[s].answers : Answered(Visible(s)', a)
        /\ Objects(held'[s], Visible(s)')
    BY <1>2, <1>5, <1>6
  <1> QED
    BY <1>3, <1>4, <1>5, <1>7, <1>8, Preserved

\* A step of session s that writes and commits no row and keeps its objects.
LEMMA QuietStepOf ==
    ASSUME IInv, NEW s \in Session, NEW w, NEW c,
           w.rows = work[s].rows, w = [rows |-> w.rows, answers |-> w.answers],
           work' = [work EXCEPT ![s] = w], call' = [call EXCEPT ![s] = c],
           rules' = rules, rows' = rows, held' = held,
           \A a \in w.answers : IsRow(a) /\ Answered(Visible(s), a),
           c = NoCall \/ (InCall(c, w.rows) /\ Sound(c.row, Visible(s)))
    PROVE  IInv'
  <1>1. TypeOK
    BY DEF IInv
  <1>2. Does(s, w, held[s], c)
    BY <1>1, SameWork DEF Does
  <1>3. \A u \in Session : work'[u].rows = work[u].rows
    BY <1>1, Shape
  <1>4. KeysApart'
    BY <1>3, SameRows
  <1>5. RulesTyped'
    BY <1>1, OwnShape DEF RulesTyped
  <1>6. Visible(s) = rows' \cup w.rows
    BY DEF Visible
  <1>7. /\ \A r \in rows : IsRow(r) /\ Kept(r, rows)
        /\ \A r \in w.rows : IsRow(r) /\ Kept(r, Visible(s))
        /\ Objects(held[s], Visible(s))
    BY <1>1, OwnSound, OwnShape
  <1>8. StoreSound
    BY <1>7 DEF StoreSound
  <1>9. WorkSound(w, c, Visible(s))
    BY <1>7 DEF WorkSound
  <1> QED
    BY <1>2, <1>4, <1>5, <1>6, <1>7, <1>8, <1>9, StepOf

LEMMA BeginStep ==
    ASSUME IInv, NEW s \in Session, NEW row, Sound(row, Visible(s)), Begin(s, row)
    PROVE  IInv'
  <1> DEFINE next == [step |-> "LOOKUP", row |-> row]
  <1>1. TypeOK /\ call' = [call EXCEPT ![s] = next] /\ UNCHANGED <<rules, rows, work, held>>
    BY DEF Begin, IInv
  <1>2. work' = [work EXCEPT ![s] = work[s]]
    BY <1>1, SameWork
  <1>3. InCall(next, work[s].rows) /\ next.row = row
    BY DEF InCall, Sound
  <1> HIDE DEF next
  <1>4. work[s] = [rows |-> work[s].rows, answers |-> work[s].answers]
        /\ \A a \in work[s].answers : IsRow(a) /\ Answered(Visible(s), a)
    BY <1>1, OwnShape, OwnSound
  <1> QED
    BY <1>1, <1>2, <1>3, <1>4, QuietStepOf

LEMMA FindStep == ASSUME IInv, NEW s \in Session, Find(s) PROVE IInv'
  <1> DEFINE row == call[s].row
             seen == Visible(s)
  <1>1. /\ TypeOK /\ call' = [call EXCEPT ![s] = NoCall] /\ UNCHANGED <<rules, rows, held>>
        /\ call[s].step = "LOOKUP"
    BY DEF Find, Return, IInv
  <1>2. /\ work[s] = [rows |-> work[s].rows, answers |-> work[s].answers]
        /\ \A a \in work[s].answers : IsRow(a) /\ Answered(seen, a)
        /\ \A q \in seen : Kept(q, seen) /\ IsRow(q)
        /\ Objects(held[s], seen) /\ Sound(row, seen)
    BY <1>1, OwnShape, OwnSound
  <1>3. CASE work' = work
    <2>1. work' = [work EXCEPT ![s] = work[s]]
      BY <1>1, <1>3, SameWork
    <2> QED
      BY <1>1, <1>2, <2>1, QuietStepOf DEF NoCall
  <1>4. ASSUME NEW q \in Existing(s, row), work' = [work EXCEPT ![s].answers = @ \cup {Reused(s, q)}]
        PROVE  IInv'
    <2> DEFINE w == [rows |-> work[s].rows, answers |-> work[s].answers \cup {Reused(s, q)}]
               selected == {r \in seen : SameKey(r, row)}
    <2>1. work' = [work EXCEPT ![s] = w]
      <3>1. work[s] = [rows |-> work[s].rows, answers |-> work[s].answers]
        BY <1>2
      <3>2. [work[s] EXCEPT !.answers = @ \cup {Reused(s, q)}] = w
        BY <3>1
      <3> HIDE DEF w
      <3> QED
        BY <1>1, <1>4, <3>2, Shape
    <2> DEFINE a == Reused(s, q)
    <2>2. /\ w.rows = work[s].rows /\ w = [rows |-> w.rows, answers |-> w.answers]
          /\ w.answers = work[s].answers \cup {a}
      OBVIOUS
    <2> SUFFICES IsRow(a) /\ Answered(seen, a)
      <3> HIDE DEF w, a
      <3>1. \A b \in w.answers : IsRow(b) /\ Answered(Visible(s), b)
        BY <1>2, <2>2
      <3> QED
        BY <1>1, <2>1, <2>2, <3>1, QuietStepOf DEF NoCall
    <2>3. (q \in held[s] /\ Stored(q) \in selected) \/ q \in selected
      BY <1>4, AnswerIs DEF Existing
    <2> HIDE DEF w, row, seen
    <2>4. PICK r \in selected : r.table = q.table /\ (r = q \/ (q \in held[s] /\ r = Stored(q)))
      <3>1. q \in held[s] => IsRow(q)
        BY <1>2 DEF Objects
      <3> QED
        BY <2>3, <3>1, StoredIs
    <2>5. r \in seen /\ SameKey(r, row) /\ Kept(r, seen) /\ IsRow(q)
      BY <1>2, <2>4 DEF Objects
    <2>6. PICK g : r = Stored(g) /\ Sound(g, seen)
      BY <2>5 DEF Kept
    <2>7. g.table = r.table /\ r.table = row.table
      BY <2>5, <2>6, StoredIs DEF Sound, SameKey
    <2>8. CASE q.table \in {"observation", "reconciliation"}
      <3>1. Reused(s, q) = q
        BY <2>8 DEF Reused
      <3>2. Stored(q) = r
        BY <2>4, <2>6, <2>7, <2>8, StoredTwice
      <3>3. Answered(seen, q)
        BY <2>4, <2>5, <2>8, <3>2 DEF Answered, SameKey, Agree
      <3> QED
        BY <2>5, <3>1, <3>3
    <2>9. CASE q.table \in {"evaluation", "scenario"}
      <3>1. Reused(s, q) = row
        BY <2>9 DEF Reused, row
      <3>2. Stored(row).table = row.table /\ Stored(row).key = row.key /\ r.key = g.key
        BY <1>2, <2>4, <2>6, <2>7, <2>9, StoredIs DEF Sound
      <3>3. SameKey(g, row) /\ SameKey(r, Stored(row))
        BY <2>5, <2>7, <3>2 DEF SameKey
      <3>4. Agree(row.table, r.content, Stored(row).content)
        BY <1>2, <2>4, <2>6, <2>7, <2>9, <3>3, SoundRowsAgree
      <3>5. Answered(seen, row) /\ IsRow(row)
        BY <1>2, <2>5, <3>3, <3>4 DEF Answered, Sound
      <3> QED
        BY <3>1, <3>5
    <2> QED
      BY <2>5, <2>8, <2>9 DEF IsRow, Table
  <1> QED
    BY <1>3, <1>4 DEF Find

LEMMA MissStep == ASSUME IInv, NEW s \in Session, Miss(s) PROVE IInv'
  <1> DEFINE next == [step |-> "INSERT", row |-> call[s].row]
  <1>1. TypeOK /\ call[s].step = "LOOKUP" /\ UNCHANGED <<rules, rows, work, held>>
    BY DEF Miss, IInv
  <1>2. InCall(call[s], work[s].rows) /\ Sound(call[s].row, Visible(s))
    BY <1>1, OwnShape, OwnSound
  <1>3. call' = [call EXCEPT ![s] = next]
    <2>1. [call[s] EXCEPT !.step = "INSERT"] = next
      BY <1>2 DEF InCall
    <2> HIDE DEF next
    <2> QED
      BY <1>1, <2>1, Shape DEF Miss
  <1>4. InCall(next, work[s].rows) /\ next.row = call[s].row
    BY <1>2 DEF InCall
  <1>5. work' = [work EXCEPT ![s] = work[s]]
    BY <1>1, SameWork
  <1>6. work[s] = [rows |-> work[s].rows, answers |-> work[s].answers]
        /\ \A a \in work[s].answers : IsRow(a) /\ Answered(Visible(s), a)
    BY <1>1, OwnShape, OwnSound
  <1> HIDE DEF next
  <1> QED
    BY <1>1, <1>2, <1>3, <1>4, <1>5, <1>6, QuietStepOf

\* What an insertion does to the work of its session.
LEMMA Written ==
    ASSUME TypeOK, NEW s \in Session, Insert(s)
    PROVE  work' = [work EXCEPT ![s] = [rows |-> work[s].rows \cup {Stored(call[s].row)},
                                        answers |-> work[s].answers \cup {call[s].row}]]
  <1> DEFINE row == call[s].row
             new == Stored(row)
             o == work[s]
             p == [o EXCEPT !.rows = @ \cup {new}, !.answers = @ \cup {row}]
  <1>1. work' = [work EXCEPT ![s].rows = @ \cup {new}, ![s].answers = @ \cup {row}]
    BY DEF Insert
  <1> HIDE DEF row, new
  <1>2. [work EXCEPT ![s].rows = @ \cup {new}, ![s].answers = @ \cup {row}] = [work EXCEPT ![s] = p]
    OBVIOUS
  <1>3. o = [rows |-> o.rows, answers |-> o.answers]
    BY Shape
  <1> HIDE DEF o
  <1>4. DOMAIN o = {"rows", "answers"}
    BY <1>3
  <1>5. p = [k \in {"rows", "answers"} |-> p[k]] /\ p.rows = o.rows \cup {new} /\ p.answers = o.answers \cup {row}
    BY <1>4
  <1> HIDE DEF p
  <1>6. p = [rows |-> o.rows \cup {new}, answers |-> o.answers \cup {row}]
    BY <1>5
  <1> QED
    BY <1>1, <1>2, <1>6 DEF o, new, row

LEMMA InsertStep == ASSUME IInv, NEW s \in Session, Insert(s) PROVE IInv'
  <1> DEFINE row == call[s].row
             new == Stored(row)
             w == [rows |-> work[s].rows \cup {new}, answers |-> work[s].answers \cup {row}]
             h == held[s] \cup (IF row.table \in Committing THEN {} ELSE {row})
             c == IF row.table \in Committing THEN [step |-> "COMMIT", row |-> row] ELSE NoCall
  <1>1. TypeOK /\ call[s].step = "INSERT" /\ UNCHANGED <<rules, rows>> /\ Storable(row)
    BY DEF Insert, IInv
  <1>2. /\ Sound(row, Visible(s)) /\ IsRow(row)
        /\ work[s] = [rows |-> work[s].rows, answers |-> work[s].answers]
    BY <1>1, OwnShape, OwnSound DEF Sound
  <1>3. Does(s, w, h, c)
    <2>1. work' = [work EXCEPT ![s] = w]
      BY <1>1, Written
    <2>2. held' = [held EXCEPT ![s] = h] /\ call' = [call EXCEPT ![s] = c]
      BY DEF Insert
    <2> HIDE DEF w, h, c, row, new
    <2> QED
      BY <2>1, <2>2 DEF Does
  <1>4. w = [rows |-> w.rows, answers |-> w.answers] /\ w.rows = work[s].rows \cup {new}
        /\ w.answers = work[s].answers \cup {row}
    OBVIOUS
  <1>5. c = NoCall \/ (InCall(c, w.rows) /\ c.row = row)
    BY <1>2 DEF InCall
  <1>6. IsRow(new)
    BY <1>2, StoredIs
  <1>7. h \subseteq held[s] \cup {row}
    OBVIOUS
  <1>8. /\ \A r \in rows \cup work[s].rows : ~ SameKey(r, new) /\ ~ SameKey(new, r)
        /\ \A u \in Session \ {s} : \A r \in work[u].rows : ~ SameKey(r, new) /\ ~ SameKey(new, r)
    BY <1>1 DEF Insert, Free, Violates, WaitsFor, Visible, SameKey
  <1> HIDE DEF w, h, c, row, new
  <1>9. /\ work'[s] = w /\ \A u \in Session \ {s} : work'[u] = work[u]
    BY <1>1, <1>3, <1>4, ShapeStep
  <1>10. KeysApart'
    <2>1. /\ Visible(s)' = Visible(s) \cup {new}
          /\ \A u \in Session \ {s} : Visible(u)' = Visible(u)
      BY <1>1, <1>4, <1>9 DEF Visible
    <2>2. \A a, b \in Visible(s)' : SameKey(a, b) => a = b
      BY <1>8, <2>1 DEF IInv, KeysApart, Visible
    <2>3. \A u, v \in Session : u # v => \A a \in work'[u].rows, b \in work'[v].rows : ~ SameKey(a, b)
      BY <1>4, <1>8, <1>9 DEF IInv, KeysApart
    <2> QED
      BY <1>1, <2>1, <2>2, <2>3 DEF IInv, KeysApart
  <1>11. Visible(s) \subseteq rows' \cup w.rows /\ new \in w.rows
    BY <1>1, <1>4 DEF Visible
  <1>12. Sound(row, rows' \cup w.rows) /\ Kept(new, rows' \cup w.rows) /\ Answered(rows' \cup w.rows, row)
    <2>1. Sound(row, rows' \cup w.rows)
      BY <1>2, <1>11, SoundKept
    <2>2. Kept(new, rows' \cup w.rows)
      BY <1>1, <2>1 DEF Kept, new
    <2>3. Agree(row.table, new.content, new.content)
      BY <1>2 DEF Agree, SameOutcomes, IsRow, Table
    <2> QED
      BY <1>11, <2>1, <2>2, <2>3 DEF Answered, SameKey, new
  <1>13. /\ \A r \in w.rows : Kept(r, rows' \cup w.rows)
         /\ \A a \in w.answers : Answered(rows' \cup w.rows, a)
    BY <1>4, <1>11, <1>12, OwnSound, KeptKept, AnsweredKept
  <1>14. \A r \in w.rows \cup w.answers : IsRow(r)
    BY <1>1, <1>2, <1>4, <1>6, OwnShape
  <1>15. Objects(h, rows' \cup w.rows)
    <2>1. Objects(held[s], Visible(s))
      BY OwnSound
    <2>2. \A g \in held[s] : Stored(g) # new
      BY <1>8, <2>1 DEF Objects, Visible, SameKey
    <2>3. Identified(row)
      BY <1>2 DEF Sound
    <2> QED
      BY <1>2, <1>7, <1>11, <2>1, <2>2, <2>3 DEF Objects, new
  <1>16. RulesTyped' /\ StoreSound
    BY <1>1, OwnShape, OwnSound DEF RulesTyped, StoreSound
  <1>17. WorkSound(w, c, rows' \cup w.rows)
    BY <1>4, <1>5, <1>12, <1>13, <1>14 DEF WorkSound
  <1> QED
    BY <1>3, <1>10, <1>15, <1>16, <1>17, StepOf

LEMMA UndoStep == ASSUME IInv, NEW s \in Session, Undo(s) PROVE IInv'
  <1>1. TypeOK /\ UNCHANGED <<rules, rows>> /\ Does(s, NoWork, {}, NoCall)
    BY DEF Undo, Return, KeptObjects, Does, IInv
  <1>2. NoWork = [rows |-> NoWork.rows, answers |-> NoWork.answers]
        /\ NoWork.rows = {} /\ NoWork.answers = {} /\ NoCall.step = "IDLE"
    BY DEF NoWork, NoCall
  <1>3. work'[s] = NoWork /\ \A u \in Session \ {s} : work'[u] = work[u]
    BY <1>1, <1>2, ShapeStep
  <1>4. KeysApart'
    <2>1. Visible(s)' = rows /\ \A u \in Session \ {s} : Visible(u)' = Visible(u)
      BY <1>1, <1>2, <1>3 DEF Visible
    <2> QED
      BY <1>1, <1>2, <1>3, <2>1 DEF IInv, KeysApart
  <1>5. RulesTyped' /\ StoreSound
    BY <1>1, OwnShape, OwnSound DEF RulesTyped, StoreSound
  <1>6. WorkSound(NoWork, NoCall, rows' \cup NoWork.rows)
    BY <1>2 DEF WorkSound
  <1>7. Objects({}, rows' \cup NoWork.rows)
    BY DEF Objects
  <1> QED
    BY <1>1, <1>4, <1>5, <1>6, <1>7, StepOf

LEMMA SettleStep ==
    ASSUME IInv, NEW s \in Session, Settle(s), call' = [call EXCEPT ![s] = NoCall]
    PROVE  IInv'
  <1>1. /\ TypeOK /\ rules' = rules /\ rows' = Visible(s) /\ held' = held
        /\ work' = [work EXCEPT ![s] = NoWork]
    BY DEF Settle, IInv
  <1>2. Does(s, NoWork, held[s], NoCall)
    BY <1>1, SameWork DEF Does
  <1>3. NoWork = [rows |-> NoWork.rows, answers |-> NoWork.answers]
        /\ NoWork.rows = {} /\ NoWork.answers = {} /\ NoCall.step = "IDLE"
    BY DEF NoWork, NoCall
  <1>4. work'[s] = NoWork /\ \A u \in Session \ {s} : work'[u] = work[u]
    BY <1>1, <1>2, <1>3, ShapeStep
  <1>5. KeysApart'
    <2>1. /\ Visible(s)' = Visible(s) /\ rows' = rows \cup work[s].rows
          /\ \A u \in Session \ {s} : Visible(u)' = Visible(u) \cup work[s].rows
      BY <1>1, <1>3, <1>4 DEF Visible
    <2>2. ASSUME NEW u \in Session \ {s}, NEW a \in Visible(u)', NEW b \in Visible(u)', SameKey(a, b)
          PROVE  a = b
      <3>1. SameKey(b, a)
        BY <2>2 DEF SameKey
      <3>2. \A p \in rows \cup work[s].rows, q \in rows \cup work[s].rows : SameKey(p, q) => p = q
        BY DEF IInv, KeysApart, Visible
      <3>3. \A p \in rows \cup work[u].rows, q \in rows \cup work[u].rows : SameKey(p, q) => p = q
        BY DEF IInv, KeysApart, Visible
      <3>4. \A p \in work[s].rows, q \in work[u].rows : ~ SameKey(p, q) /\ ~ SameKey(q, p)
        BY DEF IInv, KeysApart
      <3>5. a \in rows \cup work[u].rows \cup work[s].rows /\ b \in rows \cup work[u].rows \cup work[s].rows
        BY <2>1, <2>2 DEF Visible
      <3> QED
        BY <2>2, <3>1, <3>2, <3>3, <3>4, <3>5
    <2>3. \A a, b \in rows' : SameKey(a, b) => a = b
      BY <1>1 DEF IInv, KeysApart
    <2>4. \A a, b \in Visible(s)' : SameKey(a, b) => a = b
      BY <2>1 DEF IInv, KeysApart
    <2>5. \A u, v \in Session : u # v => \A a \in work'[u].rows, b \in work'[v].rows : ~ SameKey(a, b)
      BY <1>3, <1>4 DEF IInv, KeysApart
    <2> QED
      BY <2>2, <2>3, <2>4, <2>5 DEF KeysApart
  <1>6. RulesTyped' /\ StoreSound
    BY <1>1, OwnShape, OwnSound DEF RulesTyped, Visible, StoreSound
  <1>7. WorkSound(NoWork, NoCall, rows' \cup NoWork.rows)
    BY <1>3 DEF WorkSound
  <1>8. Objects(held[s], rows' \cup NoWork.rows)
    <2>1. rows' \cup NoWork.rows = Visible(s)
      BY <1>1, <1>3
    <2> QED
      BY <2>1, OwnSound
  <1> QED
    BY <1>2, <1>5, <1>6, <1>7, <1>8, StepOf

LEMMA ReleaseStep ==
    ASSUME IInv, NEW s \in Session, NEW row, Release(s, row)
    PROVE  IInv'
  <1>1. /\ TypeOK /\ UNCHANGED <<rules, rows, work, call>>
        /\ held' = [held EXCEPT ![s] = held[s] \ {row}]
    BY DEF Release, IInv
  <1>2. held' = [u \in Session |-> held'[u]] /\ \A u \in Session : held'[u] \subseteq held[u]
    BY <1>1, Shape
  <1>3. KeysApart' /\ \A u \in Session : Visible(u)' = Visible(u)
    BY <1>1, SameRows
  <1>4. TypeOK'
    BY <1>1, <1>2, <1>3 DEF TypeOK, Idle
  <1>5. RowsSound'
    <2>1. \A u \in Session : Objects(held'[u], Visible(u))
      BY <1>2, OwnSound DEF Objects
    <2> QED
      BY <1>1, <1>3, <2>1 DEF IInv, RowsSound, Idle
  <1>6. AnswersStand'
    BY <1>1, <1>3, AnswersAre, AnswersAreNext DEF IInv
  <1> QED
    BY <1>3, <1>4, <1>5, <1>6 DEF IInv

LEMMA AddRuleStep ==
    ASSUME IInv, NEW rule \in Rule, AddRule(rule)
    PROVE  IInv'
  <1>1. /\ TypeOK /\ UNCHANGED <<rows, work, held, call>> /\ rules' = rules \cup {rule}
        /\ \A r \in rules : r.metric # rule.metric
    BY DEF AddRule, IInv
  <1>2. KeysApart' /\ \A u \in Session : Visible(u)' = Visible(u)
    BY <1>1, SameRows
  <1>3. rules' \subseteq Rule /\ \A r, q \in rules' : r.metric = q.metric => r = q
    BY <1>1 DEF TypeOK
  <1>4. TypeOK'
    BY <1>1, <1>2, <1>3 DEF TypeOK, Idle
  <1>5. RowsSound'
    BY <1>1, <1>2 DEF IInv, RowsSound, Idle
  <1>6. AnswersStand'
    BY <1>1, <1>2, AnswersAre, AnswersAreNext DEF IInv
  <1> QED
    BY <1>2, <1>4, <1>5, <1>6 DEF IInv

\* A stored reconciliation run.
LEMMA KeptRunIs ==
    ASSUME NEW r, NEW seen, Kept(r, seen), r.table = "reconciliation"
    PROVE  \E p, t, observed :
             /\ p \in Snapshot /\ t \in Tolerance /\ Seen(observed, seen)
             /\ r = KeptRun(p, t, observed)
  <1>1. PICK g : r = Stored(g) /\ Sound(g, seen)
    BY DEF Kept
  <1>2. g.table = "reconciliation"
    BY <1>1, StoredIs DEF Sound
  <1>3. PICK p, t, observed :
          /\ p \in Snapshot /\ t \in Tolerance /\ Seen(observed, seen)
          /\ g = ReconciliationRow(p, t, observed)
    BY <1>1, <1>2 DEF Sound, Founded
  <1>4. r = KeptRun(p, t, observed)
    BY <1>1, <1>3, RunStored DEF Seen
  <1> QED
    BY <1>3, <1>4

\* What a reconciliation names is found by its identity.
LEMMA EvidenceThere ==
    ASSUME NEW r, NEW seen, Kept(r, seen), r.table = "reconciliation", NEW e \in r.key.evidence
    PROVE  \E b \in seen : b.table = "observation" /\ b.key = e.id
  <1>1. PICK p, t, observed : Seen(observed, seen) /\ r = KeptRun(p, t, observed)
    BY KeptRunIs
  <1>2. e \in observed
    BY <1>1 DEF KeptRun, Row
  <1>3. IsObservation(e) /\ Stored(ObservationRow(e)) \in seen
    BY <1>1, <1>2 DEF Seen
  <1>4. Stored(ObservationRow(e)).table = "observation" /\ Stored(ObservationRow(e)).key = e.id
    BY <1>3, ObservationStored, StoredIs DEF ObservationRow, Row
  <1> QED
    BY <1>3, <1>4

LEMMA Initially == Init => IInv
  <1> SUFFICES ASSUME Init PROVE IInv
    OBVIOUS
  <1>1. TypeOK
    BY DEF Init, TypeOK, NoWork, NoCall, Idle
  <1>2. KeysApart /\ RowsSound
    BY DEF Init, KeysApart, RowsSound, Visible, NoWork, NoCall, Idle, Objects
  <1>3. AnswersStand
    BY DEF Init, AnswersStand, NoWork
  <1> QED
    BY <1>1, <1>2, <1>3 DEF IInv

LEMMA Inductive == IInv /\ [Next]_vars => IInv'
  <1> SUFFICES ASSUME IInv, [Next]_vars PROVE IInv'
    OBVIOUS
  <1>1. TypeOK
    BY DEF IInv
  <1>2. CASE UNCHANGED vars
    <2>1. KeysApart' /\ \A u \in Session : Visible(u)' = Visible(u)
      BY <1>2, SameRows DEF vars
    <2>2. TypeOK'
      BY <1>1, <1>2, <2>1 DEF vars, TypeOK, Idle
    <2>3. RowsSound'
      BY <1>2, <2>1 DEF vars, IInv, RowsSound, Idle
    <2>4. AnswersStand'
      BY <1>2, <2>1, AnswersAre, AnswersAreNext DEF vars, IInv
    <2> QED
      BY <2>1, <2>2, <2>3, <2>4 DEF IInv
  <1>3. ASSUME NEW s \in Session, BeginCall(s) PROVE IInv'
    <2>1. CASE \E o \in Observation : Observe(s, o)
      BY <2>1, ObservationSound, BeginStep DEF Observe
    <2>2. CASE \E p \in Snapshot, t \in Tolerance : Reconcile(s, p, t)
      BY <2>2, ReconciliationSound, BeginStep DEF Reconcile
    <2>3. CASE \E a \in Analysis : Analyze(s, a)
      BY <1>1, <2>3, EvaluationRowSound, BeginStep DEF Analyze
    <2>4. CASE \E e \in Execution : Execute(s, e)
      BY <1>1, <2>4, ScenarioRowSound, BeginStep DEF Execute
    <2> QED
      BY <1>3, <2>1, <2>2, <2>3, <2>4 DEF BeginCall
  <1>4. ASSUME NEW s \in Session, CommitOwn(s) PROVE IInv'
    BY <1>4, SettleStep DEF CommitOwn, Return
  <1>5. ASSUME NEW s \in Session, Commit(s) PROVE IInv'
    <2>1. call[s] = NoCall
      BY <1>1, <1>5, OwnShape DEF Commit, Idle
    <2>2. call' = [call EXCEPT ![s] = NoCall]
      BY <1>1, <1>5, <2>1, Shape DEF Commit
    <2> QED
      BY <1>5, <2>2, SettleStep DEF Commit
  <1>6. ASSUME NEW s \in Session, InsertFails(s) \/ CommitFails(s) \/ Rollback(s) PROVE IInv'
    BY <1>6, UndoStep DEF InsertFails, CommitFails, Rollback
  <1> QED
    BY <1>2, <1>3, <1>4, <1>5, <1>6, FindStep, MissStep, InsertStep, ReleaseStep, AddRuleStep DEF Next

-----------------------------------------------------------------------------
(* Quotients.                                                              *)

\* The order of quotients is a total one: in cross products.
LEMMA CrossProducts ==
    ASSUME NEW a \in Int, NEW b \in Int, NEW c \in Int,
           NEW p \in Int, NEW q \in Int, NEW r \in Int, p > 0, q > 0, r > 0,
           b * p <= a * q, c * q <= b * r
    PROVE  c * p <= a * r
  <1>1. (b * p) * r <= (a * q) * r
    <2>1. b * p \in Int /\ a * q \in Int
      OBVIOUS
    <2> QED
      BY <2>1, TimesKeepsOrder
  <1>2. (c * q) * p <= (b * r) * p
    <2>1. c * q \in Int /\ b * r \in Int
      OBVIOUS
    <2> QED
      BY <2>1, TimesKeepsOrder
  <1>3. (b * p) * r = (b * r) * p /\ (c * q) * p = (c * p) * q /\ (a * q) * r = (a * r) * q
    OBVIOUS
  <1>4. (c * p) * q <= (a * r) * q
    <2>1. (b * p) * r \in Int /\ (c * q) * p \in Int /\ (a * q) * r \in Int
      OBVIOUS
    <2> QED
      BY <1>1, <1>2, <1>3, <2>1
  <1>5. c * p \in Int /\ a * r \in Int
    OBVIOUS
  <1> QED
    BY <1>4, <1>5, TimesKeepsOrder

\* At least is transitive.
LEMMA AtLeast ==
    ASSUME NEW a \in Quotient, NEW b \in Quotient, NEW c \in Quotient, ~ Less(a, b), ~ Less(b, c)
    PROVE  ~ Less(a, c)
  <1>1. /\ a.n \in Int /\ b.n \in Int /\ c.n \in Int
        /\ a.d \in Int /\ b.d \in Int /\ c.d \in Int /\ a.d > 0 /\ b.d > 0 /\ c.d > 0
    BY DEF Quotient
  <1>2. /\ a.n * b.d \in Int /\ b.n * a.d \in Int /\ b.n * c.d \in Int /\ c.n * b.d \in Int
        /\ a.n * c.d \in Int /\ c.n * a.d \in Int
    BY <1>1
  <1>3. b.n * a.d <= a.n * b.d /\ c.n * b.d <= b.n * c.d
    BY <1>2 DEF Less
  <1>4. c.n * a.d <= a.n * c.d
    BY <1>1, <1>3, CrossProducts
  <1> QED
    BY <1>2, <1>4 DEF Less

\* Less is asymmetric.
LEMMA NotBoth ==
    ASSUME NEW a \in Quotient, NEW b \in Quotient, Less(a, b)
    PROVE  ~ Less(b, a)
  <1>1. a.n * b.d \in Int /\ b.n * a.d \in Int
    BY DEF Quotient
  <1> QED
    BY <1>1 DEF Less

\* The arithmetic of the engines stays within the quotients.
LEMMA QuotientsAre ==
    /\ \A n \in Int, d \in Nat \ {0} : Ratio(n, d) \in Quotient
    /\ Zero \in Quotient
    /\ \A a \in Quotient : Minus(a) \in Quotient /\ Positive(a) \in Quotient
    /\ \A a, b \in Quotient : Plus(a, b) \in Quotient
  <1>1. \A n \in Int, d \in Nat \ {0} : Ratio(n, d) \in Quotient
    BY DEF Ratio, Quotient
  <1>2. Zero \in Quotient
    BY <1>1 DEF Zero
  <1>3. \A a \in Quotient : a.n \in Int /\ a.d \in Nat \ {0}
    BY DEF Quotient
  <1>4. \A a \in Quotient : -a.n \in Int
    BY <1>3
  <1>5. \A a, b \in Quotient : a.n + b.n \in Int /\ a.n * b.d + b.n * a.d \in Int /\ a.d * b.d \in Nat \ {0}
    <2>1. \A x, y \in Nat \ {0} : x * y \in Nat \ {0}
      OBVIOUS
    <2> QED
      BY <1>3, <2>1
  <1>6. \A a \in Quotient : Minus(a) \in Quotient /\ Positive(a) \in Quotient
    BY <1>1, <1>2, <1>3, <1>4 DEF Minus, Positive
  <1>7. \A a, b \in Quotient : Plus(a, b) \in Quotient
    BY <1>1, <1>3, <1>5 DEF Plus
  <1> QED
    BY <1>1, <1>2, <1>6, <1>7

\* The positive part of a is at least a and at least zero; if something that is
\* not negative is less than it, it is a.
LEMMA PositivePart ==
    ASSUME NEW a \in Quotient
    PROVE  /\ ~ Less(Positive(a), a) /\ Positive(a).n >= 0
           /\ \A b \in Quotient : b.n >= 0 /\ Less(b, Positive(a)) => Positive(a) = a
  <1>1. a.n \in Int /\ a.d \in Int /\ a.d > 0
    BY DEF Quotient
  <1>2. CASE a.n > 0
    <2>1. Positive(a) = a
      BY <1>2 DEF Positive
    <2>2. a.n * a.d \in Int
      BY <1>1
    <2>3. ~ Less(a, a)
      BY <2>2 DEF Less
    <2> QED
      BY <1>1, <1>2, <2>1, <2>3
  <1>3. CASE ~ a.n > 0
    <2>1. Positive(a) = Zero /\ Zero.n = 0 /\ Zero.d = 1
      BY <1>3 DEF Positive, Zero, Ratio
    <2>2. ~ Less(Zero, a)
      BY <1>1, <1>3, <2>1 DEF Less
    <2>3. \A b \in Quotient : b.n >= 0 => ~ Less(b, Zero)
      BY <2>1 DEF Less, Quotient
    <2> QED
      BY <2>1, <2>2, <2>3
  <1> QED
    BY <1>2, <1>3

-----------------------------------------------------------------------------
(* Sorting.                                                                *)

\* The places of s that come no later than i once s is sorted.
UpTo(s, i) == {j \in DOMAIN s : IF j <= i THEN ~ Less(s[i], s[j]) ELSE Less(s[j], s[i])}

\* What is sorted up to a place is a chain of sets.
LEMMA UpToOrder ==
    ASSUME NEW n \in Nat, NEW s \in [1..n -> Quotient]
    PROVE  /\ \A i \in 1..n : i \in UpTo(s, i)
           /\ \A i, j \in 1..n : j \in UpTo(s, i) \/ i \in UpTo(s, j)
           /\ \A i, j \in 1..n : i # j => ~ (j \in UpTo(s, i) /\ i \in UpTo(s, j))
           /\ \A i, j \in 1..n : j \in UpTo(s, i) => ~ Less(s[i], s[j])
           /\ \A i, j \in 1..n : j \in UpTo(s, i) => UpTo(s, j) \subseteq UpTo(s, i)
  <1>1. DOMAIN s = 1..n /\ \A i \in 1..n : s[i] \in Quotient /\ i \in Int
    OBVIOUS
  <1>2. \A i, j \in 1..n : Less(s[i], s[j]) => ~ Less(s[j], s[i])
    BY <1>1, NotBoth
  <1>3. \A i, j \in 1..n : j \in UpTo(s, i) => ~ Less(s[i], s[j])
    BY <1>2 DEF UpTo
  <1>4. ASSUME NEW i \in 1..n, NEW j \in 1..n, NEW k \in 1..n, j \in UpTo(s, i), k \in UpTo(s, j)
        PROVE  k \in UpTo(s, i)
    <2>1. ~ Less(s[i], s[j]) /\ ~ Less(s[j], s[k])
      BY <1>3, <1>4
    <2>2. ~ Less(s[i], s[k])
      BY <1>1, <2>1, AtLeast
    <2>3. CASE k <= i
      BY <1>1, <2>2, <2>3 DEF UpTo
    <2>4. CASE ~ (k <= i)
      <3>1. Less(s[k], s[j]) \/ Less(s[j], s[i])
        BY <1>4, <2>4 DEF UpTo
      <3>2. ~ Less(s[k], s[i]) => ~ Less(s[k], s[j])
        BY <1>1, <2>1, AtLeast
      <3>3. ~ Less(s[k], s[i]) => ~ Less(s[j], s[i])
        BY <1>1, <2>1, AtLeast
      <3> QED
        BY <1>1, <2>4, <3>1, <3>2, <3>3 DEF UpTo
    <2> QED
      BY <2>3, <2>4
  <1>5. \A i \in 1..n : i \in UpTo(s, i)
    BY <1>1, <1>2 DEF UpTo
  <1>6. \A i, j \in 1..n : j \in UpTo(s, i) \/ i \in UpTo(s, j)
    BY <1>1, <1>2 DEF UpTo
  <1>7. \A i, j \in 1..n : i # j => ~ (j \in UpTo(s, i) /\ i \in UpTo(s, j))
    BY <1>1, <1>2 DEF UpTo
  <1>8. \A i, j \in 1..n : j \in UpTo(s, i) => UpTo(s, j) \subseteq UpTo(s, i)
    BY <1>4, <1>1 DEF UpTo
  <1> QED
    BY <1>3, <1>5, <1>6, <1>7, <1>8

\* A rank counts what is sorted up to a place.
LEMMA RankIs == \A s, i : Rank(s, i) = Cardinality(UpTo(s, i))
  BY DEF Rank, UpTo

\* Every rank is taken.
LEMMA RanksTaken ==
    ASSUME NEW n \in Nat, NEW s \in [1..n -> Quotient]
    PROVE  \A k \in 1..n : \E i \in 1..n : Rank(s, i) = k
  <1> DEFINE rank == [i \in 1..n |-> Rank(s, i)]
  <1>1. IsFiniteSet(1..n) /\ Cardinality(1..n) = n
    BY FS_Interval
  <1>2. \A i \in 1..n : IsFiniteSet(UpTo(s, i)) /\ UpTo(s, i) \in SUBSET (1..n) /\ UpTo(s, i) # {}
    BY <1>1, UpToOrder, FS_Subset DEF UpTo
  <1>3. \A i \in 1..n : Cardinality(UpTo(s, i)) \in 1..n
    <2> SUFFICES ASSUME NEW i \in 1..n PROVE Cardinality(UpTo(s, i)) \in 1..n
      OBVIOUS
    <2>1. Cardinality(UpTo(s, i)) <= n
      BY <1>1, <1>2, FS_Subset
    <2>2. Cardinality(UpTo(s, i)) # 0 /\ Cardinality(UpTo(s, i)) \in Nat
      BY <1>2, FS_EmptySet, FS_CardinalityType
    <2> QED
      BY <2>1, <2>2
  <1>4. ASSUME NEW i \in 1..n, NEW j \in 1..n, i # j, j \in UpTo(s, i)
        PROVE  Cardinality(UpTo(s, j)) # Cardinality(UpTo(s, i))
    <2>1. UpTo(s, j) \in SUBSET UpTo(s, i) /\ i \in UpTo(s, i) /\ i \notin UpTo(s, j)
      BY <1>4, UpToOrder
    <2> QED
      BY <1>2, <2>1, FS_Subset
  <1>5. \A i, j \in 1..n : i # j => Rank(s, i) # Rank(s, j)
    BY <1>4, UpToOrder, RankIs
  <1>6. rank \in Injection(1..n, 1..n)
    BY <1>3, <1>5, RankIs DEF Injection, IsInjective
  <1>7. rank \in Surjection(1..n, 1..n)
    <2> HIDE DEF rank
    <2> QED
      BY <1>1, <1>6, FS_Injection
  <1> QED
    BY <1>7 DEF Surjection

\* Sorting permutes the sample.
LEMMA Sorted ==
    ASSUME NEW n \in Nat, NEW s \in [1..n -> Quotient]
    PROVE  /\ Ascending(s) \in [1..n -> Quotient]
           /\ \A k \in 1..n : \E i \in 1..n : Ascending(s)[k] = s[i] /\ Rank(s, i) = k
  <1>1. \A k \in 1..n : \E i \in 1..n : Ascending(s)[k] = s[i] /\ Rank(s, i) = k
    <2> SUFFICES ASSUME NEW k \in 1..n PROVE \E i \in 1..n : Ascending(s)[k] = s[i] /\ Rank(s, i) = k
      OBVIOUS
    <2>1. DOMAIN s = 1..n
      OBVIOUS
    <2>2. Ascending(s)[k] = s[CHOOSE i \in 1..n : Rank(s, i) = k]
      BY <2>1 DEF Ascending
    <2>3. \E i \in 1..n : Rank(s, i) = k
      BY RanksTaken
    <2> QED
      BY <2>2, <2>3
  <1>2. Ascending(s) \in [1..n -> Quotient]
    BY <1>1 DEF Ascending
  <1> QED
    BY <1>1, <1>2

-----------------------------------------------------------------------------
(* Value at risk and the tail.                                             *)

\* The nearest rank is a place of the sample, the first that covers the
\* confidence.
LEMMA NearestRankIs ==
    ASSUME NEW returns \in Seq(Quotient), returns # <<>>, NEW confidence \in Quotient,
           0 < confidence.n, confidence.n < confidence.d
    PROVE  /\ NearestRank(returns, confidence) \in 1..Len(returns)
           /\ confidence.n * Len(returns) <= NearestRank(returns, confidence) * confidence.d
           /\ (NearestRank(returns, confidence) - 1) * confidence.d < confidence.n * Len(returns)
  <1> DEFINE k == NearestRank(returns, confidence)
             l == Len(returns)
             n == confidence.n
             d == confidence.d
  <1>1. n \in Int /\ d \in Nat \ {0} /\ l \in Nat \ {0} /\ n * l \in Int
    BY DEF Quotient
  <1>2. k = (n * l + d - 1) \div d
    BY DEF NearestRank
  <1> HIDE DEF k, n, d, l
  <1>3. k \in Int /\ d * k <= n * l + d - 1 /\ n * l + d - 1 < d * k + d
    <2>1. PICK m \in Int : m = n * l + d - 1
      BY <1>1
    <2> QED
      BY <1>1, <1>2, <2>1, Division
  <1>4. d * k = k * d /\ (k - 1) * d = d * k - d /\ d * k \in Int
    BY <1>1, <1>3
  <1>5. n * l <= k * d /\ (k - 1) * d < n * l
    BY <1>1, <1>3, <1>4
  <1>6. k > 0
    <2>1. 0 < n * l
      BY <1>1 DEF n
    <2>2. k <= 0 => k * d <= 0
      BY <1>1, <1>3
    <2> QED
      BY <1>1, <1>3, <1>4, <1>5, <2>1, <2>2
  <1>7. k <= l
    <2>1. n * l < d * l
      BY <1>1 DEF n, d
    <2>2. (k - 1) * d < l * d
      BY <1>1, <1>3, <1>4, <1>5, <2>1
    <2>3. l * d <= (k - 1) * d \/ k - 1 < l
      <3>1. l <= k - 1 => l * d <= (k - 1) * d
        BY <1>1, <1>3, TimesKeepsOrder
      <3> QED
        BY <1>1, <1>3, <3>1
    <2>4. l * d \in Int /\ (k - 1) * d \in Int
      BY <1>1, <1>3
    <2> QED
      BY <1>1, <1>3, <2>2, <2>3, <2>4
  <1> QED
    BY <1>1, <1>3, <1>5, <1>6, <1>7 DEF k, n, d, l

Negated(returns) == [i \in DOMAIN returns |-> Minus(returns[i])]

\* The losses are the negated returns, sorted.
LEMMA LossesAre ==
    ASSUME NEW returns \in Seq(Quotient)
    PROVE  /\ Len(returns) \in Nat /\ DOMAIN returns = 1..Len(returns)
           /\ Negated(returns) \in [1..Len(returns) -> Quotient]
           /\ Losses(returns) = Ascending(Negated(returns))
           /\ Losses(returns) \in [1..Len(returns) -> Quotient]
  <1>1. DOMAIN returns = 1..Len(returns) /\ Len(returns) \in Nat
        /\ \A i \in DOMAIN returns : returns[i] \in Quotient
    OBVIOUS
  <1>2. Negated(returns) \in [1..Len(returns) -> Quotient]
    BY <1>1, QuotientsAre DEF Negated
  <1>3. Losses(returns) = Ascending(Negated(returns))
    BY DEF Losses, Negated
  <1>4. PICK n \in Nat : n = Len(returns)
    BY <1>1
  <1>5. PICK s \in [1..n -> Quotient] : s = Negated(returns)
    BY <1>2, <1>4
  <1>6. Ascending(s) \in [1..n -> Quotient]
    BY Sorted
  <1>7. Losses(returns) \in [1..Len(returns) -> Quotient]
    BY <1>3, <1>4, <1>5, <1>6
  <1> QED
    BY <1>1, <1>2, <1>3, <1>7

\* The value at risk is a quotient that is not negative.
LEMMA ValueAtRiskIs ==
    ASSUME NEW returns \in Seq(Quotient), returns # <<>>, NEW confidence \in Quotient,
           0 < confidence.n, confidence.n < confidence.d
    PROVE  ValueAtRisk(returns, confidence) \in Quotient /\ ValueAtRisk(returns, confidence).n >= 0
  <1>1. Losses(returns)[NearestRank(returns, confidence)] \in Quotient
    BY LossesAre, NearestRankIs
  <1> QED
    BY <1>1, QuotientsAre, PositivePart DEF ValueAtRisk

LEMMA QuantileFound ==
    ASSUME NEW returns \in Seq(Quotient), returns # <<>>, NEW confidence \in Quotient,
           0 < confidence.n, confidence.n < confidence.d
    PROVE  IsQuantile(ValueAtRisk(returns, confidence), returns, confidence)
  <1> DEFINE n == Len(returns)
             s == Negated(returns)
             k == NearestRank(returns, confidence)
             v == ValueAtRisk(returns, confidence)
             Below(x) == {j \in 1..n : ~ Less(x, s[j])}
             Covers(x) == Cardinality(Below(x)) * confidence.d >= confidence.n * n
  <1>1. n \in Nat /\ DOMAIN returns = 1..n /\ s \in [1..n -> Quotient] /\ \A j \in 1..n : s[j] = Minus(returns[j])
    BY LossesAre DEF Negated
  <1>2. k \in 1..n /\ confidence.n * n <= k * confidence.d /\ (k - 1) * confidence.d < confidence.n * n
    BY NearestRankIs
  <1>3. PICK i \in 1..n : Losses(returns)[k] = s[i] /\ Rank(s, i) = k
    <2> HIDE DEF s, k, n
    <2>1. Losses(returns) = Ascending(s)
      BY LossesAre DEF s
    <2> QED
      BY <1>1, <1>2, <2>1, Sorted
  <1>4. v = Positive(s[i])
    BY <1>3 DEF ValueAtRisk
  <1>5. /\ confidence.n \in Int /\ confidence.d \in Int /\ confidence.d > 0
        /\ confidence.n * n \in Int
    BY <1>1 DEF Quotient
  <1>6. s[i] \in Quotient /\ v \in Quotient /\ ~ Less(v, s[i]) /\ v.n >= 0
        /\ \A b \in Quotient : b.n >= 0 /\ Less(b, v) => v = s[i]
    <2>1. PICK a \in Quotient : a = s[i]
      BY <1>1
    <2>2. v = Positive(a)
      BY <1>4, <2>1
    <2> HIDE DEF s, k, v, n
    <2> QED
      BY <2>1, <2>2, PositivePart, QuotientsAre
  <1> HIDE DEF s, k, v, n
  <1>7. \A x : IsFiniteSet(Below(x)) /\ Cardinality(Below(x)) \in Nat
    <2>1. IsFiniteSet(1..n)
      BY <1>1, FS_Interval
    <2>2. \A x : Below(x) \in SUBSET (1..n)
      OBVIOUS
    <2> HIDE DEF Below
    <2> QED
      BY <2>1, <2>2, FS_Subset, FS_CardinalityType
  <1>8. UpTo(s, i) \subseteq 1..n /\ IsFiniteSet(UpTo(s, i)) /\ Cardinality(UpTo(s, i)) = k
    <2>1. UpTo(s, i) \subseteq 1..n
      BY <1>1 DEF UpTo
    <2>2. IsFiniteSet(1..n)
      BY <1>1, FS_Interval
    <2> QED
      BY <1>3, <2>1, <2>2, RankIs, FS_Subset
  <1>9. Covers(v)
    <2>1. UpTo(s, i) \in SUBSET Below(v)
      <3> SUFFICES ASSUME NEW j \in UpTo(s, i) PROVE ~ Less(v, s[j])
        BY <1>8
      <3>1. ~ Less(s[i], s[j]) /\ s[j] \in Quotient
        BY <1>1, <1>3, <1>8, UpToOrder
      <3> QED
        BY <1>6, <3>1, AtLeast
    <2> DEFINE c == Cardinality(Below(v))
    <2> HIDE DEF Below
    <2>2. k <= c
      BY <1>7, <1>8, <2>1, FS_Subset
    <2>3. c \in Int /\ k \in Int
      BY <1>1, <1>2, <1>7
    <2> HIDE DEF c
    <2>4. k * confidence.d <= c * confidence.d
      BY <1>5, <2>2, <2>3, TimesKeepsOrder
    <2>5. k * confidence.d \in Int /\ c * confidence.d \in Int
      BY <1>5, <2>3
    <2>6. c * confidence.d >= confidence.n * n
      BY <1>2, <1>5, <2>4, <2>5
    <2> QED
      BY <2>6 DEF c
  <1>10. ASSUME NEW m \in 1..n, Covers(s[m]), Less(Positive(s[m]), v) PROVE FALSE
    <2>1. s[m] \in Quotient /\ Positive(s[m]) \in Quotient /\ Positive(s[m]).n >= 0
          /\ ~ Less(Positive(s[m]), s[m])
      BY <1>1, PositivePart, QuotientsAre
    <2>2. v = s[i]
      BY <1>6, <1>10, <2>1
    <2>3. Less(s[m], s[i])
      BY <1>6, <1>10, <2>1, <2>2, AtLeast
    <2>4. Below(s[m]) \in SUBSET (UpTo(s, i) \ {i})
      <3> SUFFICES ASSUME NEW j \in 1..n, ~ Less(s[m], s[j]) PROVE j \in UpTo(s, i) /\ j # i
        OBVIOUS
      <3>1. s[j] \in Quotient /\ j \in DOMAIN s
        BY <1>1
      <3>2. Less(s[j], s[i])
        BY <1>6, <2>1, <2>3, <3>1, AtLeast
      <3>3. ~ Less(s[i], s[j])
        BY <1>6, <3>1, <3>2, NotBoth
      <3> QED
        BY <2>3, <3>1, <3>2, <3>3 DEF UpTo
    <2> DEFINE c == Cardinality(Below(s[m]))
    <2>5. i \in UpTo(s, i)
      BY <1>1, UpToOrder
    <2> HIDE DEF Below
    <2>6. c <= k - 1
      <3>1. IsFiniteSet(UpTo(s, i) \ {i}) /\ Cardinality(UpTo(s, i) \ {i}) = k - 1
        BY <1>8, <2>5, FS_RemoveElement
      <3> QED
        BY <2>4, <3>1, FS_Subset
    <2>7. c \in Int /\ k - 1 \in Int
      BY <1>1, <1>2, <1>7
    <2>8. c * confidence.d >= confidence.n * n
      BY <1>10
    <2> HIDE DEF c
    <2>9. c * confidence.d <= (k - 1) * confidence.d
      <3>1. PICK e \in Int : e = k - 1
        BY <2>7
      <3> QED
        BY <1>5, <2>6, <2>7, <3>1, TimesKeepsOrder
    <2>10. c * confidence.d \in Int /\ (k - 1) * confidence.d \in Int
      BY <1>5, <2>7
    <2> QED
      BY <1>2, <1>5, <2>8, <2>9, <2>10
  <1>11. \A x : {j \in DOMAIN returns : ~ Less(x, Minus(returns[j]))} = Below(x)
    BY <1>1
  <1>12. \A m \in 1..n : Covers(s[m]) => ~ Less(Positive(s[m]), v)
    BY <1>10
  <1> HIDE DEF Below
  <1> QED
    BY <1>1, <1>9, <1>11, <1>12 DEF IsQuantile, v, n

\* The recursion of the total of the quotients of f.
IsTotal(g, f, S) ==
    g = [s \in SUBSET S |-> IF s = {} THEN Zero ELSE Plus(f[Pick(s)], g[s \ {Pick(s)}])]

\* A total of quotients exists.
LEMMA TotalExists ==
    ASSUME NEW f, NEW S, IsFiniteSet(S), \A x \in S : f[x] \in Quotient
    PROVE  \E g : IsTotal(g, f, S) /\ \A s \in SUBSET S : g[s] \in Quotient
  <1> DEFINE step == [p \in S \X Quotient |-> Plus(f[p[1]], p[2])]
  <1>1. PICK g : IsFold(g, step, Zero, S)
    <2> HIDE DEF step
    <2> QED
      BY FoldExists
  <1>2. DOMAIN g = SUBSET S
    BY <1>1 DEF IsFold
  <1>3. \A s \in SUBSET S : g[s] = IF s = {} THEN Zero ELSE step[<<Pick(s), g[s \ {Pick(s)}]>>]
    <2> HIDE DEF step
    <2> QED
      BY <1>1 DEF IsFold
  <1> DEFINE B == {s \in SUBSET S : g[s] \notin Quotient}
  <1>4. B = {}
    <2> SUFFICES ASSUME B # {} PROVE FALSE
      OBVIOUS
    <2>1. \A V \in B : IsFiniteSet(V)
      BY FS_Subset
    <2>2. PICK V \in B : \A W \in B : W \subseteq V => W = V
      <3> HIDE DEF B
      <3> QED
        BY <2>1, LeastSet
    <2>3. V # {}
      <3>1. g[{}] = Zero
        BY <1>3
      <3> QED
        BY <3>1, QuotientsAre
    <2>4. Pick(V) \in V /\ Pick(V) \in S
      BY <2>3, PickIn
    <2>5. g[V \ {Pick(V)}] \in Quotient
      BY <2>2, <2>4
    <2>6. step[<<Pick(V), g[V \ {Pick(V)}]>>] = Plus(f[Pick(V)], g[V \ {Pick(V)}])
      BY <2>4, <2>5
    <2>7. g[V] = Plus(f[Pick(V)], g[V \ {Pick(V)}])
      BY <1>3, <2>3, <2>6
    <2>8. g[V] \in Quotient
      BY <2>4, <2>5, <2>7, QuotientsAre
    <2> QED
      BY <2>8
  <1>5. \A s \in SUBSET S : g[s] \in Quotient
    BY <1>4
  <1>6. \A s \in SUBSET S : s # {} =>
           step[<<Pick(s), g[s \ {Pick(s)}]>>] = Plus(f[Pick(s)], g[s \ {Pick(s)}])
    <2> SUFFICES ASSUME NEW s \in SUBSET S, s # {}
                 PROVE  step[<<Pick(s), g[s \ {Pick(s)}]>>] = Plus(f[Pick(s)], g[s \ {Pick(s)}])
      OBVIOUS
    <2>1. Pick(s) \in S
      BY PickIn
    <2>2. g[s \ {Pick(s)}] \in Quotient
      BY <1>5
    <2> QED
      BY <2>1, <2>2
  <1> HIDE DEF step
  <1>7. g = [s \in SUBSET S |-> IF s = {} THEN Zero ELSE step[<<Pick(s), g[s \ {Pick(s)}]>>]]
    BY <1>1 DEF IsFold
  <1> QED
    BY <1>5, <1>6, <1>7 DEF IsTotal

\* A total of c quotients that are at least v is at least c times v.
CoversTimes(c, v, total) == c * (v.n * total.d) <= total.n * v.d

LEMMA TotalGrows ==
    ASSUME NEW a \in Quotient, NEW b \in Quotient, NEW v \in Quotient, NEW c \in Nat,
           ~ Less(a, v), CoversTimes(c, v, b)
    PROVE  CoversTimes(c + 1, v, Plus(a, b))
  <1>1. PICK an \in Int, ad \in Int, bn \in Int, bd \in Int, vn \in Int, vd \in Int :
          /\ an = a.n /\ ad = a.d /\ bn = b.n /\ bd = b.d /\ vn = v.n /\ vd = v.d
          /\ ad > 0 /\ bd > 0 /\ vd > 0
    BY DEF Quotient
  <1>2. vn * ad <= an * vd
    <2>1. vn * ad \in Int /\ an * vd \in Int
      BY <1>1
    <2> QED
      BY <1>1, <2>1 DEF Less
  <1>3. c * (vn * bd) <= bn * vd
    BY <1>1 DEF CoversTimes
  <1>4. CASE ad = bd
    <2>1. Plus(a, b).n = an + bn /\ Plus(a, b).d = ad
      BY <1>1, <1>4 DEF Plus, Ratio
    <2>2. (c + 1) * (vn * ad) = c * (vn * ad) + vn * ad
      <3>1. PICK x \in Int : x = vn * ad
        BY <1>1
      <3> QED
        BY <3>1
    <2>3. (an + bn) * vd = an * vd + bn * vd
      BY <1>1
    <2>4. c * (vn * ad) \in Int /\ vn * ad \in Int /\ an * vd \in Int /\ bn * vd \in Int
      BY <1>1
    <2> QED
      BY <1>1, <1>2, <1>3, <1>4, <2>1, <2>2, <2>3, <2>4 DEF CoversTimes
  <1>5. CASE ad # bd
    <2>1. Plus(a, b).n = an * bd + bn * ad /\ Plus(a, b).d = ad * bd
      BY <1>1, <1>5 DEF Plus, Ratio
    <2>2. (vn * ad) * bd <= (an * vd) * bd
      <3>1. vn * ad \in Int /\ an * vd \in Int
        BY <1>1
      <3> QED
        BY <1>1, <1>2, <3>1, TimesKeepsOrder
    <2>3. (c * (vn * bd)) * ad <= (bn * vd) * ad
      <3>1. c * (vn * bd) \in Int /\ bn * vd \in Int
        BY <1>1
      <3> QED
        BY <1>1, <1>3, <3>1, TimesKeepsOrder
    <2>4. /\ (vn * ad) * bd = vn * (ad * bd)
          /\ (c * (vn * bd)) * ad = c * (vn * (ad * bd))
          /\ (an * vd) * bd + (bn * vd) * ad = (an * bd + bn * ad) * vd
      BY <1>1
    <2>5. (c + 1) * (vn * (ad * bd)) = c * (vn * (ad * bd)) + vn * (ad * bd)
      <3>1. PICK x \in Int : x = vn * (ad * bd)
        BY <1>1
      <3> QED
        BY <3>1
    <2>6. /\ vn * (ad * bd) \in Int /\ c * (vn * (ad * bd)) \in Int
          /\ (an * vd) * bd \in Int /\ (bn * vd) * ad \in Int
      BY <1>1
    <2>7. (c + 1) * (vn * (ad * bd)) <= (an * bd + bn * ad) * vd
      BY <2>2, <2>3, <2>4, <2>5, <2>6
    <2> QED
      BY <1>1, <2>1, <2>7 DEF CoversTimes
  <1> QED
    BY <1>4, <1>5

\* A total of numbers that are each at least v is at least that many times v.
LEMMA TotalCovers ==
    ASSUME NEW f, NEW S, IsFiniteSet(S), \A x \in S : f[x] \in Quotient,
           NEW v \in Quotient, \A x \in S : ~ Less(f[x], v)
    PROVE  LET total == FoldFunctionOnSet(Plus, Zero, f, S)
           IN total \in Quotient /\ CoversTimes(Cardinality(S), v, total)
  <1> DEFINE g == CHOOSE h : IsTotal(h, f, S)
             Good(s) == g[s] \in Quotient /\ CoversTimes(Cardinality(s), v, g[s])
             B == {s \in SUBSET S : ~ Good(s)}
  <1>1. IsTotal(g, f, S)
    BY TotalExists
  <1>2. FoldFunctionOnSet(Plus, Zero, f, S) = g[S]
    BY DEF FoldFunctionOnSet, MapThenFoldSet, IsTotal, Pick
  <1> HIDE DEF g
  <1>3. \A s \in SUBSET S : g[s] = IF s = {} THEN Zero ELSE Plus(f[Pick(s)], g[s \ {Pick(s)}])
    BY <1>1 DEF IsTotal
  <1>4. B = {}
    <2> SUFFICES ASSUME B # {} PROVE FALSE
      OBVIOUS
    <2>1. \A T \in B : IsFiniteSet(T)
      BY FS_Subset
    <2>2. PICK T \in B : \A U \in B : U \subseteq T => U = T
      <3> HIDE DEF B
      <3> QED
        BY <2>1, LeastSet
    <2>3. T # {}
      <3>1. g[{}] = Zero
        BY <1>3
      <3>2. Cardinality({}) = 0 /\ Zero.n = 0 /\ Zero.d = 1
        BY FS_EmptySet DEF Zero, Ratio
      <3>3. v.n \in Int /\ v.d \in Int
        BY DEF Quotient
      <3>4. Good({})
        BY <3>1, <3>2, <3>3, QuotientsAre DEF CoversTimes
      <3> QED
        BY <3>4
    <2>4. Pick(T) \in T /\ Pick(T) \in S
      BY <2>3, PickIn
    <2> DEFINE U == T \ {Pick(T)}
    <2>5. Good(U)
      BY <2>2, <2>4
    <2>6. IsFiniteSet(U) /\ Cardinality(U) \in Nat /\ Cardinality(T) = Cardinality(U) + 1
      <3>1. IsFiniteSet(T)
        BY <2>1
      <3>2. IsFiniteSet(U) /\ Cardinality(U) = Cardinality(T) - 1
        BY <2>4, <3>1, FS_RemoveElement
      <3> QED
        BY <3>1, <3>2, FS_CardinalityType
    <2>7. g[T] = Plus(f[Pick(T)], g[U])
      BY <1>3, <2>3
    <2> HIDE DEF U
    <2>8. Good(T)
      BY <2>4, <2>5, <2>6, <2>7, TotalGrows, QuotientsAre
    <2> QED
      BY <2>8
  <1>5. Good(S)
    BY <1>4
  <1> QED
    BY <1>2, <1>5

LEMMA ShortfallFound ==
    ASSUME NEW returns \in Seq(Quotient), NEW confidence \in Quotient, NEW benchmark,
           Assessable(returns, benchmark, confidence)
    PROVE  /\ Shortfall(returns, confidence) \in Quotient
           /\ ~ Less(Shortfall(returns, confidence), ValueAtRisk(returns, confidence))
  <1> DEFINE losses == Losses(returns)
             v == ValueAtRisk(returns, confidence)
             tail == Beyond(returns, confidence)
             c == Cardinality(tail)
             total == FoldFunctionOnSet(Plus, Zero, losses, tail)
             mean == Ratio(total.n, total.d * c)
  <1>1. v \in Quotient /\ v.n >= 0
    BY ValueAtRiskIs DEF Assessable
  <1>2. Len(returns) \in Nat /\ losses \in [1..Len(returns) -> Quotient]
    BY LossesAre
  <1>3. tail \in SUBSET (1..Len(returns)) /\ tail # {}
        /\ \A k \in tail : losses[k] \in Quotient /\ ~ Less(losses[k], v)
    BY <1>2 DEF Assessable, Beyond
  <1>4. Shortfall(returns, confidence) = Positive(mean)
    BY DEF Shortfall
  <1> HIDE DEF losses, v, tail
  <1>5. IsFiniteSet(tail) /\ c \in Nat \ {0}
    <2>1. IsFiniteSet(tail)
      <3>1. IsFiniteSet(1..Len(returns))
        BY <1>2, FS_Interval
      <3> QED
        BY <1>3, <3>1, FS_Subset
    <2> QED
      BY <1>3, <2>1, FS_CardinalityType, FS_EmptySet
  <1>6. total \in Quotient /\ CoversTimes(c, v, total)
    BY <1>1, <1>3, <1>5, TotalCovers
  <1> HIDE DEF total, c
  <1>7. total.n \in Int /\ total.d \in Int /\ total.d > 0 /\ v.n \in Int /\ v.d \in Int /\ v.d > 0
    BY <1>1, <1>6 DEF Quotient
  <1>8. mean \in Quotient /\ mean.n = total.n /\ mean.d = total.d * c
    <2>1. total.d * c \in Nat \ {0}
      BY <1>5, <1>7
    <2> QED
      BY <1>7, <2>1, QuotientsAre DEF Ratio
  <1> HIDE DEF mean
  <1>9. ~ Less(mean, v)
    <2>1. c * (v.n * total.d) <= total.n * v.d
      BY <1>6 DEF CoversTimes
    <2>2. c * (v.n * total.d) = v.n * (total.d * c)
      BY <1>5, <1>7
    <2>3. v.n * (total.d * c) \in Int /\ total.n * v.d \in Int
      BY <1>5, <1>7
    <2> QED
      BY <1>8, <2>1, <2>2, <2>3 DEF Less
  <1>10. Positive(mean) \in Quotient /\ ~ Less(Positive(mean), mean)
    BY <1>8, QuotientsAre, PositivePart
  <1> QED
    BY <1>1, <1>4, <1>8, <1>9, <1>10, AtLeast DEF v

\* The two figures together.
LEMMA RiskIsSound ==
    ASSUME NEW returns \in Seq(Quotient), NEW confidence \in Quotient, NEW benchmark,
           Assessable(returns, benchmark, confidence)
    PROVE  RiskSound(RiskOf(returns, confidence), returns, confidence)
  <1>1. returns # <<>> /\ 0 < confidence.n /\ confidence.n < confidence.d
    BY DEF Assessable
  <1>2. RiskOf(returns, confidence).var = ValueAtRisk(returns, confidence)
        /\ RiskOf(returns, confidence).shortfall = Shortfall(returns, confidence)
    BY DEF RiskOf
  <1> QED
    BY <1>1, <1>2, QuantileFound, ShortfallFound DEF RiskSound

-----------------------------------------------------------------------------
(* Exposures.                                                              *)

\* A book whose positions are worth whole numbers.
Valued(book) == Terms(book.values) /\ book.cash \in Int

\* The total of a book is an integer.
LEMMA TotalIs ==
    ASSUME NEW book, Valued(book)
    PROVE  Total(book) \in Int /\ Total(book) = book.cash + SumFunction(book.values)
  BY TermsType DEF Total, Valued

\* The weights of the categories add up to the whole.
LEMMA CategoriesAddUp ==
    ASSUME NEW book, Valued(book), NEW dimension
    PROVE  /\ SumFunction([c \in Categories(book, dimension) |-> CategoryValue(book, dimension, c)]) = Total(book)
           /\ \A c \in Categories(book, dimension) : CategoryValue(book, dimension, c) \in Int
  <1> DEFINE f == book.values
             S == DOMAIN f
             C == Categories(book, dimension)
             label == [p \in S |-> LabelOf(p, dimension, book.at)]
             labels == {label[p] : p \in S}
             part == [c \in C |-> SumFunctionOnSet(f, {p \in S : label[p] = c})]
             extra == [c \in C |-> IF c = "CASH" THEN book.cash ELSE 0]
             whole == [c \in C |-> CategoryValue(book, dimension, c)]
  <1>1. Terms(f) /\ IsFiniteSet(S) /\ book.cash \in Int
    BY DEF Valued, Terms, Summable
  <1>2. C = labels \cup (IF book.cash # 0 THEN {"CASH"} ELSE {})
    BY DEF Categories
  <1>3. IsFiniteSet(C)
    <2>1. label \in Surjection(S, labels)
      BY DEF Surjection
    <2> HIDE DEF S, label, labels
    <2>2. IsFiniteSet(labels)
      BY <1>1, <2>1, FS_Surjection
    <2>3. IsFiniteSet(labels \cup {"CASH"})
      BY <2>2, FS_AddElement
    <2>4. C = labels \/ C = labels \cup {"CASH"}
      BY <1>2
    <2> QED
      BY <2>2, <2>3, <2>4
  <1>4. \A p \in S : label[p] \in C
    BY <1>2
  <1>5. /\ SumFunctionOnSet(part, C) = SumFunction(f)
        /\ \A c \in C : part[c] \in Int
    <2>1. DOMAIN part = C /\ \A c \in C : part[c] = SumFunctionOnSet(f, {p \in DOMAIN f : label[p] = c})
      OBVIOUS
    <2> HIDE DEF f, C, label, part
    <2> QED
      BY <1>1, <1>3, <1>4, <2>1, SumParts DEF S
  <1>6. SumFunctionOnSet(extra, C) = book.cash
    <2>1. \A c \in C : extra[c] \in Int
      BY <1>1
    <2>2. CASE "CASH" \in C
      <3>1. {"CASH"} \subseteq C /\ \A c \in C \ {"CASH"} : extra[c] = 0
        BY <2>2
      <3>2. extra["CASH"] = book.cash
        BY <2>2
      <3> HIDE DEF extra, C
      <3>3. Summable(extra, C) /\ Summable(extra, {"CASH"})
        BY <1>3, <2>1, <3>1, FS_Singleton DEF Summable
      <3>4. SumFunctionOnSet(extra, C) = SumFunctionOnSet(extra, {"CASH"})
        BY <3>1, <3>3, SumSupport
      <3>5. SumFunctionOnSet(extra, {"CASH"}) = extra["CASH"] + SumFunctionOnSet(extra, {})
        <4>1. {"CASH"} \ {"CASH"} = {}
          OBVIOUS
        <4>2. "CASH" \in {"CASH"}
          OBVIOUS
        <4>3. SumFunctionOnSet(extra, {"CASH"}) = extra["CASH"] + SumFunctionOnSet(extra, {"CASH"} \ {"CASH"})
          BY <3>3, <4>2, SumTakes
        <4> QED
          BY <4>1, <4>3
      <3> QED
        BY <1>1, <3>2, <3>4, <3>5, SumEmpty
    <2>3. CASE "CASH" \notin C
      <3>1. book.cash = 0 /\ \A c \in C : extra[c] = 0
        BY <1>2, <2>3
      <3> HIDE DEF extra, C
      <3> QED
        BY <1>3, <3>1, SumOfZeros
    <2> QED
      BY <2>2, <2>3
  <1>7. \A c \in C : extra[c] \in Int /\ whole[c] = part[c] + extra[c]
    <2> SUFFICES ASSUME NEW c \in C PROVE extra[c] \in Int /\ whole[c] = part[c] + extra[c]
      OBVIOUS
    <2>1. {p \in S : label[p] = c} = {p \in S : LabelOf(p, dimension, book.at) = c}
      OBVIOUS
    <2>2. part[c] = SumFunctionOnSet(f, {p \in S : LabelOf(p, dimension, book.at) = c})
      BY <2>1
    <2>3. extra[c] = IF c = "CASH" THEN book.cash ELSE 0
      OBVIOUS
    <2>4. whole[c] = CategoryValue(book, dimension, c)
      OBVIOUS
    <2> HIDE DEF part, extra, whole, label, C
    <2>5. whole[c] = part[c] + extra[c]
      BY <2>2, <2>3, <2>4 DEF CategoryValue
    <2> QED
      BY <1>1, <2>3, <2>5
  <1>8. SumFunctionOnSet(whole, C) = SumFunctionOnSet(part, C) + SumFunctionOnSet(extra, C)
    <2> HIDE DEF whole, part, extra, C
    <2>1. Summable(part, C) /\ Summable(extra, C)
      BY <1>3, <1>5, <1>7 DEF Summable
    <2> QED
      BY <1>7, <2>1, SumPlus
  <1>9. SumFunction(whole) = SumFunctionOnSet(whole, C)
    BY DEF SumFunction
  <1>10. \A c \in C : CategoryValue(book, dimension, c) \in Int
    <2>1. \A c \in C : whole[c] = CategoryValue(book, dimension, c)
      OBVIOUS
    <2> HIDE DEF whole, part, extra, C
    <2> QED
      BY <1>5, <1>7, <2>1
  <1>11. SumFunction(f) \in Int
    BY <1>1, TermsType
  <1> HIDE DEF part, extra
  <1> QED
    BY <1>1, <1>5, <1>6, <1>8, <1>9, <1>10, <1>11 DEF Total

\* One of the values is the largest.
LEMMA LargestExists ==
    ASSUME NEW f, NEW S, Summable(f, S), S # {}
    PROVE  \E x \in S : \A y \in S : f[y] <= f[x]
  <1> DEFINE Good(T) == \E x \in T : \A y \in T : f[y] <= f[x]
             B == {T \in SUBSET S : T # {} /\ ~ Good(T)}
  <1> SUFFICES ASSUME B # {} PROVE FALSE
    OBVIOUS
  <1>1. \A T \in B : IsFiniteSet(T)
    BY FS_Subset DEF Summable
  <1>2. PICK T \in B : \A U \in B : U \subseteq T => U = T
    <2> HIDE DEF B
    <2> QED
      BY <1>1, LeastSet
  <1>3. PICK x : x \in T
    OBVIOUS
  <1>4. \A y \in T : f[y] \in Int
    BY DEF Summable
  <1>5. CASE T = {x}
    BY <1>3, <1>4, <1>5
  <1>6. CASE T # {x}
    <2>1. T \ {x} # {} /\ T \ {x} \notin B
      BY <1>2, <1>3, <1>6
    <2>2. PICK m \in T \ {x} : \A y \in T \ {x} : f[y] <= f[m]
      BY <2>1
    <2>3. \A y \in T : f[y] <= f[m] \/ f[y] <= f[x]
      BY <1>4, <2>2
    <2>4. f[m] <= f[x] \/ f[x] <= f[m]
      BY <1>3, <1>4, <2>2
    <2>5. (\A y \in T : f[y] <= f[m]) \/ (\A y \in T : f[y] <= f[x])
      BY <1>3, <1>4, <2>2, <2>3, <2>4
    <2> QED
      BY <1>3, <2>2, <2>5
  <1> QED
    BY <1>5, <1>6

\* Every metric is a quotient.
LEMMA MetricsAre ==
    ASSUME NEW book, Valued(book), Measurable(book),
           NEW returns \in Seq(Quotient), NEW confidence \in Quotient, NEW benchmark,
           Assessable(returns, benchmark, confidence)
    PROVE  \A m \in DOMAIN Metrics(book, returns, confidence) : Metrics(book, returns, confidence)[m] \in Quotient
  <1>1. Total(book) \in Nat \ {0}
    BY TotalIs DEF Measurable
  <1>2. Terms(book.values) /\ IsFiniteSet(DOMAIN book.values)
        /\ \A p \in DOMAIN book.values : book.values[p] \in Int
    BY DEF Valued, Terms, Summable
  <1>3. LargestWeight(book) \in Quotient
    <2>1. CASE DOMAIN book.values = {}
      BY <2>1, QuotientsAre DEF LargestWeight
    <2>2. CASE DOMAIN book.values # {}
      <3>1. \E p \in DOMAIN book.values : \A q \in DOMAIN book.values : book.values[q] <= book.values[p]
        BY <1>2, <2>2, LargestExists DEF Terms
      <3> QED
        BY <1>1, <1>2, <2>2, <3>1, QuotientsAre DEF LargestWeight
    <2> QED
      BY <2>1, <2>2
  <1>4. Herfindahl(book) \in Quotient
    <2> DEFINE squares == [p \in DOMAIN book.values |-> book.values[p] * book.values[p]]
    <2>1. Terms(squares)
      BY <1>2 DEF Terms, Summable
    <2>2. SumFunction(squares) \in Int
      <3> HIDE DEF squares
      <3> QED
        BY <2>1, TermsType
    <2>3. Total(book) * Total(book) \in Nat \ {0}
      BY <1>1
    <2> QED
      BY <2>2, <2>3, QuotientsAre DEF Herfindahl
  <1>5. ValueAtRisk(returns, confidence) \in Quotient /\ Shortfall(returns, confidence) \in Quotient
    BY ValueAtRiskIs, ShortfallFound DEF Assessable
  <1>6. \A m \in Weights(book) : Ratio(CategoryValue(book, m[1], m[2]), Total(book)) \in Quotient
    <2> SUFFICES ASSUME NEW m \in Weights(book)
                 PROVE  Ratio(CategoryValue(book, m[1], m[2]), Total(book)) \in Quotient
      OBVIOUS
    <2>1. PICK dimension \in Dimension : \E c \in Categories(book, dimension) : m = <<dimension, c>>
      BY DEF Weights
    <2>2. PICK c \in Categories(book, dimension) : m = <<dimension, c>>
      BY <2>1
    <2>3. CategoryValue(book, dimension, c) \in Int
      BY CategoriesAddUp
    <2> QED
      BY <1>1, <2>2, <2>3, QuotientsAre
  <1> DEFINE metrics == Metrics(book, returns, confidence)
  <1>7. DOMAIN metrics = Weights(book) \cup Figures
    BY DEF Metrics
  <1>8. ASSUME NEW m \in Weights(book) \cup Figures PROVE metrics[m] \in Quotient
    <2>1. metrics[m] =
            CASE m = <<"concentration", "largest_position_weight">> -> LargestWeight(book)
              [] m = <<"concentration", "herfindahl_index">> -> Herfindahl(book)
              [] m = <<"risk", "var_return">> -> ValueAtRisk(returns, confidence)
              [] m = <<"risk", "expected_shortfall_return">> -> Shortfall(returns, confidence)
              [] OTHER -> Ratio(CategoryValue(book, m[1], m[2]), Total(book))
      BY DEF Metrics
    <2>2. m \notin Weights(book) => m \in Figures
      OBVIOUS
    <2>3. CASE m \in Figures
      <3>1. metrics[m] \in {LargestWeight(book), Herfindahl(book),
                            ValueAtRisk(returns, confidence), Shortfall(returns, confidence)}
        <4>1. /\ <<"concentration", "largest_position_weight">> # <<"concentration", "herfindahl_index">>
              /\ <<"concentration", "largest_position_weight">> # <<"risk", "var_return">>
              /\ <<"concentration", "largest_position_weight">> # <<"risk", "expected_shortfall_return">>
              /\ <<"concentration", "herfindahl_index">> # <<"risk", "var_return">>
              /\ <<"concentration", "herfindahl_index">> # <<"risk", "expected_shortfall_return">>
              /\ <<"risk", "var_return">> # <<"risk", "expected_shortfall_return">>
          OBVIOUS
        <4> HIDE DEF metrics
        <4> QED
          BY <2>1, <2>3, <4>1 DEF Figures
      <3> QED
        BY <1>3, <1>4, <1>5, <3>1
    <2>4. CASE m \notin Figures
      <3>1. metrics[m] = Ratio(CategoryValue(book, m[1], m[2]), Total(book))
        <4> HIDE DEF metrics
        <4> QED
          BY <2>1, <2>4 DEF Figures
      <3> QED
        BY <1>6, <2>4, <3>1
    <2> QED
      BY <2>3, <2>4
  <1> QED
    BY <1>7, <1>8

-----------------------------------------------------------------------------
(* Scenarios.                                                              *)

\* Division undoes multiplication.
LEMMA Multiples ==
    ASSUME NEW u \in Nat \ {0}, NEW y \in Int
    PROVE  (u * y) \div u = y
  <1>1. PICK x \in Int : x = u * y
    OBVIOUS
  <1>2. PICK q \in Int : q = x \div u
    BY Division
  <1>3. u * q <= u * y /\ u * y < u * q + u
    BY <1>1, <1>2, Division
  <1>4. u * q + u = u * (q + 1)
    OBVIOUS
  <1>5. q <= y
    <2>1. y < q => u * (y + 1) <= u * q
      OBVIOUS
    <2>2. u * (y + 1) = u * y + u /\ u * y \in Int /\ u * q \in Int
      OBVIOUS
    <2> QED
      BY <1>3, <2>1, <2>2
  <1>6. y <= q
    <2>1. q < y => u * (q + 1) <= u * y
      OBVIOUS
    <2>2. u * y \in Int /\ u * q \in Int
      OBVIOUS
    <2> QED
      BY <1>3, <1>4, <2>1, <2>2
  <1> QED
    BY <1>1, <1>2, <1>5, <1>6

\* What a position is worth after a shock.
LEMMA Shocked ==
    ASSUME NEW u \in Nat \ {0}, NEW v \in Int, v % u = 0, NEW i \in Int
    PROVE  /\ (v * (u + i)) \div u \in Int
           /\ u * ((v * (u + i)) \div u - v) = v * i
  <1>1. PICK x \in Int : v = u * x
    <2>1. v = u * (v \div u) /\ v \div u \in Int
      OBVIOUS
    <2> QED
      BY <2>1
  <1>2. v * (u + i) = u * (x * (u + i)) /\ x * (u + i) \in Int
    BY <1>1
  <1>3. (v * (u + i)) \div u = x * (u + i)
    BY <1>2, Multiples
  <1>4. u * (x * (u + i) - u * x) = (u * x) * i
    OBVIOUS
  <1> QED
    BY <1>1, <1>2, <1>3, <1>4

\* At most one sensitivity is in effect.
LEMMA OneInEffect ==
    ASSUME NEW i, NEW at, NEW r \in InEffect(Sensitivity, i, at), NEW q \in InEffect(Sensitivity, i, at)
    PROVE  r = q
  <1>1. /\ r \in Sensitivity /\ q \in Sensitivity /\ r.instrument = q.instrument
        /\ q.from <= r.from /\ r.from <= q.from
    BY DEF InEffect
  <1>2. r.from \in Nat /\ q.from \in Nat
    BY <1>1, SensitivityAssumption
  <1> QED
    BY <1>1, <1>2, SensitivityAssumption

\* What a shock does is an integer.
LEMMA ImpactIs ==
    ASSUME NEW shock, shock.type \in ShockType, shock.magnitude \in Int, NEW i, NEW at,
           Impact(shock, i, at) # None
    PROVE  Impact(shock, i, at) \in Int
  <1> DEFINE sensitivity == InEffect(Sensitivity, i, at)
             r == CHOOSE q \in sensitivity : TRUE
  <1>1. CASE shock.type \in {"SECURITY", "MARKET", "SECTOR"}
    BY <1>1 DEF Impact
  <1>2. CASE shock.type = "RATE"
    <2>1. /\ \E q \in sensitivity : q.duration # None
          /\ Impact(shock, i, at) = -r.duration * shock.magnitude
      BY <1>2 DEF Impact
    <2>2. r \in sensitivity
      BY <2>1
    <2> HIDE DEF r
    <2>3. r.duration # None
      BY <2>1, <2>2, OneInEffect
    <2>4. r.duration \in Nat
      BY <2>2, <2>3, SensitivityAssumption DEF InEffect
    <2> QED
      BY <2>1, <2>4
  <1>3. CASE shock.type = "FACTOR"
    <2>1. /\ \E q \in sensitivity : shock.target \in DOMAIN q.loadings
          /\ Impact(shock, i, at) = r.loadings[shock.target] * shock.magnitude
      BY <1>3 DEF Impact
    <2>2. r \in sensitivity
      BY <2>1
    <2> HIDE DEF r
    <2>3. shock.target \in DOMAIN r.loadings
      BY <2>1, <2>2, OneInEffect
    <2>4. r.loadings[shock.target] \in Int
      BY <2>2, <2>3, SensitivityAssumption DEF InEffect
    <2> QED
      BY <2>1, <2>4
  <1> QED
    BY <1>1, <1>2, <1>3 DEF ShockType

\* The shocks on record add up to the impact.
LEMMA ReturnImpactIs ==
    ASSUME NEW shocks, AreShocks(shocks), NEW i, NEW at
    PROVE  /\ ReturnImpact(shocks, i, at) \in Int
           /\ ReturnImpact(shocks, i, at) =
                SumFunction([shock \in Contributions(shocks, i, at) |-> Impact(shock, i, at)])
  <1> DEFINE C == Contributions(shocks, i, at)
             f == [shock \in C |-> Impact(shock, i, at)]
  <1>1. C \in SUBSET shocks /\ \A shock \in C : Impact(shock, i, at) # None
    BY DEF Contributions
  <1>2. IsFiniteSet(C) /\ \A shock \in C : Impact(shock, i, at) \in Int
    BY <1>1, ImpactIs, FS_Subset DEF AreShocks
  <1>3. Terms(f)
    BY <1>2 DEF Terms, Summable
  <1>4. ReturnImpact(shocks, i, at) = SumFunctionOnSet(f, C)
    BY DEF ReturnImpact
  <1>5. SumFunction(f) = SumFunctionOnSet(f, C)
    BY DEF SumFunction
  <1>6. SumFunction(f) \in Int
    <2> HIDE DEF f
    <2> QED
      BY <1>3, TermsType
  <1> QED
    BY <1>4, <1>5, <1>6

\* A book of an analysis has sums.
LEMMA BookIsValued ==
    ASSUME NEW book, IsBook(book)
    PROVE  Valued(book)
  BY DEF IsBook, Valued, Terms, Summable

\* Each position gains its value times its impact, exactly, and nothing else
\* of the book changes.
LEMMA ProjectedIs ==
    ASSUME NEW book, IsBook(book), NEW shocks, AreShocks(shocks)
    PROVE  LET after == Projected(shocks, book)
           IN /\ Valued(after) /\ after.cash = book.cash /\ after.at = book.at
              /\ DOMAIN after.values = DOMAIN book.values
              /\ \A p \in DOMAIN book.values :
                   /\ book.values[p] \in Int /\ after.values[p] \in Int
                   /\ Unit * (after.values[p] - book.values[p]) =
                        book.values[p] * ReturnImpact(shocks, InstrumentOf(p), book.at)
  <1> DEFINE after == Projected(shocks, book)
             S == DOMAIN book.values
             impact(p) == ReturnImpact(shocks, InstrumentOf(p), book.at)
             values == [p \in S |-> (book.values[p] * (Unit + impact(p))) \div Unit]
  <1>1. after = [values |-> values, cash |-> book.cash, at |-> book.at]
    BY DEF IsBook, Projected
  <1>2. \A p \in S : impact(p) \in Int /\ book.values[p] \in Int /\ book.values[p] % Unit = 0
    BY ReturnImpactIs DEF IsBook
  <1> HIDE DEF impact, after
  <1>3. \A p \in S : /\ values[p] \in Int
                     /\ Unit * (values[p] - book.values[p]) = book.values[p] * impact(p)
    <2> SUFFICES ASSUME NEW p \in S
                 PROVE  /\ values[p] \in Int
                        /\ Unit * (values[p] - book.values[p]) = book.values[p] * impact(p)
      OBVIOUS
    <2>1. PICK v \in Int, i \in Int : v = book.values[p] /\ i = impact(p) /\ v % Unit = 0
      BY <1>2
    <2>2. values[p] = (v * (Unit + i)) \div Unit
      BY <2>1
    <2> HIDE DEF values
    <2> QED
      BY <2>1, <2>2, Shocked, UnitAssumption
  <1>4. IsFiniteSet(S) /\ book.cash \in Int
    BY DEF IsBook
  <1>5. Terms(values)
    BY <1>3, <1>4 DEF Terms, Summable
  <1>6. DOMAIN values = S
    OBVIOUS
  <1> HIDE DEF values
  <1>7. Valued(after) /\ after.cash = book.cash /\ after.at = book.at /\ after.values = values
    BY <1>1, <1>4, <1>5 DEF Valued
  <1> QED
    BY <1>2, <1>3, <1>6, <1>7 DEF after, impact

\* The sample with the scenario's return is a sample.
LEMMA StressedAre ==
    ASSUME NEW book, IsBook(book), NEW shocks, AreShocks(shocks), Measurable(book),
           NEW returns \in Seq(Quotient)
    PROVE  StressedReturns(shocks, book, returns) \in Seq(Quotient)
  <1>1. Total(book) \in Nat \ {0} /\ Total(Projected(shocks, book)) \in Int
    BY BookIsValued, ProjectedIs, TotalIs DEF Measurable
  <1>2. Ratio(Total(Projected(shocks, book)) - Total(book), Total(book)) \in Quotient
    BY <1>1, QuotientsAre
  <1> QED
    BY <1>2 DEF StressedReturns

\* The profit is made of what each position gains.
LEMMA ProfitAddsUp ==
    ASSUME NEW before, NEW after, Terms(before), Terms(after), DOMAIN after = DOMAIN before
    PROVE  SumFunction([p \in DOMAIN before |-> after[p] - before[p]]) = SumFunction(after) - SumFunction(before)
  <1> DEFINE S == DOMAIN before
             gains == [p \in S |-> after[p] - before[p]]
  <1>1. \A p \in S : before[p] \in Int /\ after[p] \in Int
    BY DEF Terms, Summable
  <1>2. Summable(gains, S) /\ Summable(before, S)
    BY <1>1 DEF Terms, Summable
  <1>3. \A p \in S : after[p] = before[p] + gains[p]
    BY <1>1
  <1>4. SumFunction(gains) = SumFunctionOnSet(gains, S)
    BY DEF SumFunction
  <1> HIDE DEF gains
  <1>5. SumFunctionOnSet(after, S) = SumFunctionOnSet(before, S) + SumFunctionOnSet(gains, S)
    BY <1>2, <1>3, SumPlus
  <1>6. SumFunctionOnSet(before, S) \in Int /\ SumFunctionOnSet(gains, S) \in Int
    BY <1>2, SumType
  <1> QED
    BY <1>4, <1>5, <1>6 DEF SumFunction, gains

\* A comparison is of whole amounts, none of a position negative, and its
\* return joins the sample.
Amounts(e, run) ==
    /\ run.baseline \in Int /\ run.projected \in Int /\ run.pnl = run.projected - run.baseline
    /\ IsFiniteSet(DOMAIN run.positions)
    /\ \A p \in DOMAIN run.positions : run.positions[p].before \in Nat /\ run.positions[p].after \in Nat
    /\ e.analysis.returns \in Seq(Quotient)
    /\ StressedReturns(e.scenario.shocks, e.analysis.book, e.analysis.returns) =
         Append(e.analysis.returns, Ratio(run.pnl, run.baseline))

\* What the engines compare is sound.
LEMMA ComparisonSound ==
    ASSUME NEW e, IsAnalysis(e.analysis), AreShocks(e.scenario.shocks),
           Comparable(e.scenario.shocks, e.analysis.book, e.analysis.returns,
                      e.analysis.benchmark, e.analysis.confidence),
           NEW run, run = Comparison(e.scenario.shocks, e.analysis.book, e.analysis.returns,
                                     e.analysis.confidence)
    PROVE  ScenarioSound(e, run) /\ Amounts(e, run)
  <1> DEFINE shocks == e.scenario.shocks
             book == e.analysis.book
             returns == e.analysis.returns
             confidence == e.analysis.confidence
             after == Projected(shocks, book)
             stressed == StressedReturns(shocks, book, returns)
             S == DOMAIN book.values
  <1>1. /\ IsBook(book) /\ AreShocks(shocks) /\ returns \in Seq(Quotient) /\ confidence \in Quotient
        /\ Measurable(book) /\ Measurable(after)
        /\ Assessable(returns, e.analysis.benchmark, confidence)
        /\ Assessable(stressed, e.analysis.benchmark + 1, confidence)
        /\ run = Comparison(shocks, book, returns, confidence)
    BY DEF Comparable, IsAnalysis
  <1> HIDE DEF shocks, book, returns, confidence
  <1>2. Valued(book) /\ Total(book) \in Int /\ Total(book) > 0
    BY <1>1, BookIsValued, TotalIs DEF Measurable
  <1>3. /\ Valued(after) /\ after.cash = book.cash /\ after.at = book.at /\ DOMAIN after.values = S
        /\ Total(after) \in Int /\ Total(after) > 0
        /\ \A p \in S :
             /\ book.values[p] \in Int /\ after.values[p] \in Int /\ after.values[p] >= 0
             /\ Unit * (after.values[p] - book.values[p]) =
                  book.values[p] * ReturnImpact(shocks, InstrumentOf(p), book.at)
    BY <1>1, ProjectedIs, TotalIs DEF Measurable
  <1>4. stressed \in Seq(Quotient) /\ stressed = Append(returns, Ratio(Total(after) - Total(book), Total(book)))
    BY <1>1, StressedAre DEF StressedReturns
  <1>5. run = [baseline |-> Total(book),
               projected |-> Total(after),
               pnl |-> Total(after) - Total(book),
               positions |-> [p \in S |->
                   [before |-> book.values[p], after |-> after.values[p],
                    impact |-> ReturnImpact(shocks, InstrumentOf(p), book.at),
                    evidence |-> Contributions(shocks, InstrumentOf(p), book.at)]],
               weights |-> [dimension \in Dimension |->
                   [c \in Categories(book, dimension) \cup Categories(after, dimension) |->
                       [before |-> CategoryValue(book, dimension, c),
                        after |-> CategoryValue(after, dimension, c)]]],
               risk |-> [before |-> RiskOf(returns, confidence), after |-> RiskOf(stressed, confidence)],
               metrics |-> [before |-> Metrics(book, returns, confidence),
                            after |-> Metrics(after, stressed, confidence)]]
    BY <1>1 DEF Comparison
  <1> HIDE DEF after, stressed
  <1>6. run.baseline = Total(book) /\ run.projected = Total(after) /\ run.pnl = Total(after) - Total(book)
        /\ run.risk.before = RiskOf(returns, confidence) /\ run.risk.after = RiskOf(stressed, confidence)
        /\ DOMAIN run.positions = S
    BY <1>5
  <1>7. \A p \in S : /\ run.positions[p].before = book.values[p]
                     /\ run.positions[p].after = after.values[p]
                     /\ run.positions[p].impact = ReturnImpact(shocks, InstrumentOf(p), book.at)
                     /\ run.positions[p].evidence = Contributions(shocks, InstrumentOf(p), book.at)
    BY <1>5
  <1>8. run.pnl = SumFunction([p \in DOMAIN run.positions |-> run.positions[p].after - run.positions[p].before])
    <2>1. [p \in DOMAIN run.positions |-> run.positions[p].after - run.positions[p].before] =
            [p \in S |-> after.values[p] - book.values[p]]
      BY <1>6, <1>7
    <2>2. SumFunction([p \in S |-> after.values[p] - book.values[p]]) =
            SumFunction(after.values) - SumFunction(book.values)
      BY <1>2, <1>3, ProfitAddsUp DEF Valued
    <2>3. /\ SumFunction(after.values) \in Int /\ SumFunction(book.values) \in Int /\ book.cash \in Int
          /\ Total(after) = after.cash + SumFunction(after.values)
          /\ Total(book) = book.cash + SumFunction(book.values) /\ after.cash = book.cash
      BY <1>2, <1>3, TermsType, TotalIs DEF Valued
    <2>4. Total(after) - Total(book) = SumFunction(after.values) - SumFunction(book.values)
      BY <2>3
    <2>5. run.pnl = Total(after) - Total(book)
      BY <1>6
    <2> QED
      BY <2>1, <2>2, <2>4, <2>5, Zenon
  <1>9. ASSUME NEW p \in DOMAIN run.positions
        PROVE  LET result == run.positions[p] IN
               /\ result.after >= 0
               /\ Unit * (result.after - result.before) = result.before * result.impact
               /\ result.impact =
                    SumFunction([shock \in result.evidence |-> Impact(shock, InstrumentOf(p), book.at)])
    <2>1. p \in S
      BY <1>6
    <2>2. ReturnImpact(shocks, InstrumentOf(p), book.at) =
            SumFunction([shock \in Contributions(shocks, InstrumentOf(p), book.at) |->
                            Impact(shock, InstrumentOf(p), book.at)])
      BY <1>1, ReturnImpactIs
    <2> QED
      BY <1>3, <1>7, <2>1, <2>2
  <1>10. ASSUME NEW d \in Dimension
         PROVE  /\ SumFunction([c \in DOMAIN run.weights[d] |-> run.weights[d][c].before]) = run.baseline
                /\ SumFunction([c \in DOMAIN run.weights[d] |-> run.weights[d][c].after]) = run.projected
    <2>1. Categories(after, d) = Categories(book, d)
      BY <1>3 DEF Categories
    <2>2. /\ DOMAIN run.weights[d] = Categories(book, d)
          /\ \A c \in Categories(book, d) : /\ run.weights[d][c].before = CategoryValue(book, d, c)
                                            /\ run.weights[d][c].after = CategoryValue(after, d, c)
      BY <1>5, <2>1
    <2>3. /\ [c \in DOMAIN run.weights[d] |-> run.weights[d][c].before] =
               [c \in Categories(book, d) |-> CategoryValue(book, d, c)]
          /\ [c \in DOMAIN run.weights[d] |-> run.weights[d][c].after] =
               [c \in Categories(after, d) |-> CategoryValue(after, d, c)]
      BY <2>1, <2>2
    <2>4. /\ SumFunction([c \in Categories(book, d) |-> CategoryValue(book, d, c)]) = Total(book)
          /\ SumFunction([c \in Categories(after, d) |-> CategoryValue(after, d, c)]) = Total(after)
      BY <1>2, <1>3, CategoriesAddUp
    <2> QED
      BY <1>6, <2>3, <2>4
  <1>11. RiskSound(run.risk.before, returns, confidence)
    BY <1>1, <1>6, RiskIsSound
  <1>12. RiskSound(run.risk.after, Append(returns, Ratio(run.pnl, run.baseline)), confidence)
    BY <1>1, <1>4, <1>6, RiskIsSound
  <1>13. run.baseline > 0 /\ run.projected > 0
    BY <1>2, <1>3, <1>6
  <1>14. ScenarioSound(e, run)
    BY <1>1, <1>8, <1>9, <1>10, <1>11, <1>12, <1>13 DEF ScenarioSound, book, returns, confidence
  <1>15. Amounts(e, run)
    <2>1. IsFiniteSet(DOMAIN run.positions)
      BY <1>1, <1>6 DEF IsBook
    <2>2. \A p \in DOMAIN run.positions : run.positions[p].before \in Nat /\ run.positions[p].after \in Nat
      BY <1>1, <1>3, <1>6, <1>7 DEF Measurable
    <2>3. stressed = Append(returns, Ratio(run.pnl, run.baseline))
      BY <1>4, <1>6
    <2> QED
      BY <1>1, <1>2, <1>3, <1>6, <2>1, <2>2, <2>3 DEF Amounts, stressed, shocks, book, returns
  <1> QED
    BY <1>14, <1>15

\* Amounts near others add up to a sum that is near theirs.
LEMMA NearlyAdds ==
    ASSUME NEW f, NEW g, NEW S, IsFiniteSet(S), DOMAIN f = S, DOMAIN g = S,
           \A p \in S : f[p] \in Int /\ g[p] \in Int /\ Near(f[p], g[p], Cent)
    PROVE  /\ SumFunction(f) \in Int /\ SumFunction(g) \in Int /\ SumFunction([p \in S |-> Cent]) \in Int
           /\ Near(SumFunction(f), SumFunction(g), SumFunction([p \in S |-> Cent]))
  <1> DEFINE c == [p \in S |-> Cent]
             twice == [p \in S |-> f[p] + f[p]]
             double == [p \in S |-> g[p] + g[p]]
             more == [p \in S |-> twice[p] + c[p]]
             most == [p \in S |-> double[p] + c[p]]
             Total2(h) == SumFunctionOnSet(h, S)
  <1>1. Cent \in Nat \ {0}
    BY KeptAssumption
  <1>2. \A p \in S : /\ f[p] \in Int /\ g[p] \in Int /\ c[p] = Cent
                     /\ twice[p] = f[p] + f[p] /\ double[p] = g[p] + g[p]
                     /\ more[p] = twice[p] + c[p] /\ most[p] = double[p] + c[p]
                     /\ -Cent <= 2 * (f[p] - g[p]) /\ 2 * (f[p] - g[p]) <= Cent
    BY DEF Near
  <1> HIDE DEF c, twice, double, more, most
  <1>3. \A p \in S : twice[p] \in Int /\ double[p] \in Int /\ c[p] \in Int /\ more[p] \in Int /\ most[p] \in Int
    BY <1>1, <1>2
  <1>4. Summable(f, S) /\ Summable(g, S) /\ Summable(c, S) /\ Summable(twice, S) /\ Summable(double, S)
        /\ Summable(more, S) /\ Summable(most, S)
    BY <1>2, <1>3 DEF Summable
  <1>5. /\ Total2(twice) = Total2(f) + Total2(f) /\ Total2(double) = Total2(g) + Total2(g)
        /\ Total2(more) = Total2(twice) + Total2(c) /\ Total2(most) = Total2(double) + Total2(c)
    BY <1>2, <1>4, SumPlus
  <1>6. Total2(twice) <= Total2(most) /\ Total2(double) <= Total2(more)
    <2>1. \A p \in S : twice[p] <= most[p] /\ double[p] <= more[p]
      BY <1>1, <1>2
    <2> QED
      BY <1>4, <2>1, SumOrder
  <1>7. Total2(f) \in Int /\ Total2(g) \in Int /\ Total2(c) \in Int
    BY <1>4, SumType
  <1>8. DOMAIN c = S
    BY DEF c
  <1>9. SumFunction(f) = Total2(f) /\ SumFunction(g) = Total2(g) /\ SumFunction(c) = Total2(c)
    BY <1>8 DEF SumFunction
  <1> HIDE DEF Total2
  <1>10. Near(Total2(f), Total2(g), Total2(c))
    BY <1>5, <1>6, <1>7 DEF Near
  <1> QED
    BY <1>7, <1>9, <1>10 DEF c

\* What is kept of two amounts and of their difference.
LEMMA NearDifference ==
    ASSUME NEW x \in Int, NEW y \in Int
    PROVE  Near(Money(x) - Money(y), Money(x - y), 3 * Cent)
  <1>1. /\ Cent \in Nat \ {0} /\ x - y \in Int
        /\ Money(x) \in Int /\ Money(y) \in Int /\ Money(x - y) \in Int
        /\ Near(Money(x), x, Cent) /\ Near(Money(y), y, Cent) /\ Near(Money(x - y), x - y, Cent)
    BY KeptAssumption, MoneyIs
  <1> QED
    BY <1>1 DEF Near

\* What the columns keep of a sound comparison.
LEMMA StoredComparisonSound ==
    ASSUME NEW e, NEW run, ScenarioSound(e, run), Amounts(e, run), Recordable(e.analysis.book),
           Money(run.baseline) > 0, Money(run.projected) > 0
    PROVE  StoredScenarioSound(e, StoredComparison(run))
  <1> DEFINE S == DOMAIN run.positions
             gains == [p \in S |-> run.positions[p].after - run.positions[p].before]
             kept == StoredComparison(run)
             profits == [p \in S |-> kept.positions[p].pnl]
  <1>1. /\ run.baseline \in Int /\ run.projected \in Int /\ run.pnl = run.projected - run.baseline
        /\ IsFiniteSet(S) /\ e.analysis.returns \in Seq(Quotient)
        /\ \A p \in S : run.positions[p].before \in Nat /\ run.positions[p].after \in Nat
    BY DEF Amounts
  <1>2. /\ kept.baseline = Money(run.baseline) /\ kept.projected = Money(run.projected)
        /\ kept.pnl = Money(run.pnl) /\ kept.return = Share(Ratio(run.pnl, run.baseline))
        /\ DOMAIN kept.positions = S
        /\ \A p \in S : kept.positions[p] = StoredPosition(run.positions[p])
        /\ kept.weights = run.weights /\ kept.risk = run.risk
    BY DEF StoredComparison
  <1> HIDE DEF kept
  <1>3. ASSUME NEW p \in S
        PROVE  /\ kept.positions[p].before = Money(run.positions[p].before)
               /\ kept.positions[p].after = Money(run.positions[p].after)
               /\ kept.positions[p].pnl = Money(run.positions[p].after - run.positions[p].before)
               /\ kept.positions[p].impact = Share(Ratio(run.positions[p].impact, Unit))
               /\ kept.positions[p].evidence = run.positions[p].evidence
    <2> DEFINE result == run.positions[p]
    <2>1. kept.positions[p] = StoredPosition(result)
      BY <1>2
    <2> HIDE DEF result
    <2>2. kept.positions[p] =
            [before |-> Money(result.before), after |-> Money(result.after),
             pnl |-> Money(result.after - result.before),
             impact |-> Share(Ratio(result.impact, Unit)), evidence |-> result.evidence]
      BY <2>1 DEF StoredPosition
    <2> QED
      BY <2>2 DEF result
  <1>4. \A p \in S : gains[p] \in Int /\ gains[p] = run.positions[p].after - run.positions[p].before
    BY <1>1
  <1>5. \A p \in S : profits[p] = Money(gains[p])
    BY <1>3
  <1>6. run.pnl \in Int /\ run.pnl = SumFunction(gains)
    BY <1>1 DEF ScenarioSound
  <1>7. Near(kept.projected - kept.baseline, kept.pnl, 3 * Cent)
    BY <1>1, <1>2, NearDifference
  <1>8. Near(SumFunction(profits), kept.pnl, SumFunction([p \in S |-> Cent]) + Cent)
    <2> DEFINE cents == SumFunction([p \in S |-> Cent])
    <2>1. DOMAIN gains = S /\ DOMAIN profits = S
      OBVIOUS
    <2> HIDE DEF gains, profits
    <2>2. \A p \in S : profits[p] \in Int /\ gains[p] \in Int /\ Near(profits[p], gains[p], Cent)
      BY <1>4, <1>5, MoneyIs
    <2>3. /\ SumFunction(profits) \in Int /\ SumFunction(gains) \in Int /\ cents \in Int
          /\ Near(SumFunction(profits), SumFunction(gains), cents)
      BY <1>1, <2>1, <2>2, NearlyAdds
    <2>4. kept.pnl \in Int /\ Near(kept.pnl, run.pnl, Cent) /\ Cent \in Nat
      BY <1>2, <1>6, MoneyIs, KeptAssumption
    <2> HIDE DEF cents
    <2>5. Near(SumFunction(profits), kept.pnl, cents + Cent)
      BY <1>6, <2>3, <2>4 DEF Near
    <2> QED
      BY <2>5 DEF cents
  <1>9. ASSUME NEW p \in S
        PROVE  LET result == kept.positions[p] IN
               /\ result.before >= 0 /\ result.after >= 0
               /\ Near(result.after - result.before, result.pnl, 3 * Cent)
               /\ result.impact =
                    Share(Ratio(SumFunction([shock \in result.evidence |->
                                                Impact(shock, InstrumentOf(p), e.analysis.book.at)]), Unit))
    <2>1. /\ run.positions[p].before \in Int /\ run.positions[p].before >= 0
          /\ run.positions[p].after \in Int /\ run.positions[p].after >= 0
      BY <1>1
    <2>2. kept.positions[p].before >= 0 /\ kept.positions[p].after >= 0
      BY <1>3, <2>1, MoneyIs
    <2>3. Near(kept.positions[p].after - kept.positions[p].before, kept.positions[p].pnl, 3 * Cent)
      BY <1>3, <2>1, NearDifference
    <2>4. run.positions[p].impact =
            SumFunction([shock \in run.positions[p].evidence |-> Impact(shock, InstrumentOf(p), e.analysis.book.at)])
      BY DEF ScenarioSound
    <2> QED
      BY <1>3, <2>2, <2>3, <2>4
  <1>10. \A d \in Dimension :
           /\ Money(SumFunction([c \in DOMAIN kept.weights[d] |-> kept.weights[d][c].before])) = kept.baseline
           /\ Money(SumFunction([c \in DOMAIN kept.weights[d] |-> kept.weights[d][c].after])) = kept.projected
    BY <1>2 DEF ScenarioSound
  <1> DEFINE sample == StressedReturns(e.scenario.shocks, e.analysis.book, e.analysis.returns)
  <1>11. /\ RiskSound(kept.risk.before, e.analysis.returns, e.analysis.confidence)
         /\ RiskSound(kept.risk.after, sample, e.analysis.confidence)
         /\ kept.return = Share(sample[Len(sample)])
    <2>1. sample = Append(e.analysis.returns, Ratio(run.pnl, run.baseline))
      BY DEF Amounts
    <2> HIDE DEF sample
    <2>2. sample[Len(sample)] = Ratio(run.pnl, run.baseline)
      BY <1>1, <2>1
    <2>3. /\ RiskSound(run.risk.before, e.analysis.returns, e.analysis.confidence)
          /\ RiskSound(run.risk.after, sample, e.analysis.confidence)
      BY <2>1 DEF ScenarioSound
    <2> QED
      BY <1>2, <2>2, <2>3
  <1>12. StoredScenarioSound(e, kept)
    <2>1. /\ DOMAIN kept.positions = S /\ kept.baseline > 0 /\ kept.projected > 0
          /\ [p \in DOMAIN kept.positions |-> kept.positions[p].pnl] = profits
          /\ [p \in DOMAIN kept.positions |-> Cent] = [p \in S |-> Cent]
      BY <1>2
    <2> HIDE DEF S, profits
    <2> QED
      BY <1>7, <1>8, <1>9, <1>10, <1>11, <2>1 DEF StoredScenarioSound
  <1> QED
    BY <1>12 DEF kept

-----------------------------------------------------------------------------
(* What is stored.                                                         *)

\* A scenario run is either at the commit that flushes its positions' results
\* or has them.
ScenariosHeld ==
    /\ \A r \in rows : r.table = "scenario" => Recordable(r.key.analysis.book)
    /\ \A s \in Session : \A r \in work[s].rows :
         r.table = "scenario" => call[s].step = "COMMIT" /\ Stored(call[s].row) = r

\* A step of one session that writes no scenario run without committing it.
LEMMA HeldAfter ==
    ASSUME TypeOK, ScenariosHeld, NEW s \in Session, NEW w, NEW c,
           work' = [work EXCEPT ![s] = w], call' = [call EXCEPT ![s] = c],
           \A r \in rows' : r.table = "scenario" => Recordable(r.key.analysis.book),
           \A r \in w.rows : r.table = "scenario" => c.step = "COMMIT" /\ Stored(c.row) = r
    PROVE  ScenariosHeld'
  <1>1. /\ work'[s] = w /\ call'[s] = c
        /\ \A u \in Session \ {s} : work'[u] = work[u] /\ call'[u] = call[u]
    BY Shape
  <1> QED
    BY <1>1 DEF ScenariosHeld

\* Scenario runs are never left uncommitted, in every step.
LEMMA HeldInductive == IInv /\ ScenariosHeld /\ [Next]_vars => ScenariosHeld'
  <1> SUFFICES ASSUME IInv, ScenariosHeld, [Next]_vars PROVE ScenariosHeld'
    OBVIOUS
  <1>1. TypeOK /\ \A r \in rows : r.table = "scenario" => Recordable(r.key.analysis.book)
    BY DEF IInv, ScenariosHeld
  <1>2. CASE UNCHANGED <<rows, work, call>>
    BY <1>2 DEF ScenariosHeld
  <1>3. ASSUME NEW s \in Session, NEW w, NEW c, w.rows = work[s].rows, call[s].step # "COMMIT", rows' = rows,
               work' = [work EXCEPT ![s] = w], call' = [call EXCEPT ![s] = c]
        PROVE  ScenariosHeld'
    <2>1. \A r \in w.rows : r.table # "scenario"
      BY <1>3 DEF ScenariosHeld
    <2> QED
      BY <1>1, <1>3, <2>1, HeldAfter
  <1>4. ASSUME NEW s \in Session, BeginCall(s) PROVE ScenariosHeld'
    <2>1. PICK row : Begin(s, row)
      BY <1>4 DEF BeginCall, Observe, Reconcile, Analyze, Execute
    <2>2. work' = [work EXCEPT ![s] = work[s]] /\ rows' = rows /\ call[s].step # "COMMIT"
      BY <1>1, <2>1, SameWork DEF Begin, Idle
    <2> QED
      BY <1>3, <2>1, <2>2 DEF Begin
  <1>5. ASSUME NEW s \in Session, Find(s) PROVE ScenariosHeld'
    <2>1. /\ rows' = rows /\ call[s].step # "COMMIT" /\ call' = [call EXCEPT ![s] = NoCall]
          /\ \/ work' = work
             \/ \E r : work' = [work EXCEPT ![s].answers = @ \cup {Reused(s, r)}]
      BY <1>5 DEF Find, Return
    <2>2. PICK w : w.rows = work[s].rows /\ work' = [work EXCEPT ![s] = w]
      <3>1. CASE work' = work
        BY <1>1, <3>1, SameWork
      <3>2. CASE \E r : work' = [work EXCEPT ![s].answers = @ \cup {Reused(s, r)}]
        <4>1. PICK r : work' = [work EXCEPT ![s].answers = @ \cup {Reused(s, r)}]
          BY <3>2
        <4>2. work[s] = [rows |-> work[s].rows, answers |-> work[s].answers]
          BY <1>1, Shape
        <4> DEFINE w == [rows |-> work[s].rows, answers |-> work[s].answers \cup {Reused(s, r)}]
        <4>3. [work[s] EXCEPT !.answers = @ \cup {Reused(s, r)}] = w
          BY <4>2
        <4>4. w.rows = work[s].rows
          OBVIOUS
        <4> HIDE DEF w
        <4>5. work' = [work EXCEPT ![s] = w]
          BY <1>1, <4>1, <4>3, Shape
        <4> QED
          BY <4>4, <4>5
      <3> QED
        BY <2>1, <3>1, <3>2
    <2> QED
      BY <1>3, <2>1, <2>2
  <1>6. ASSUME NEW s \in Session, Miss(s) PROVE ScenariosHeld'
    <2>1. /\ rows' = rows /\ call[s].step # "COMMIT" /\ work' = [work EXCEPT ![s] = work[s]]
          /\ call' = [call EXCEPT ![s] = [call[s] EXCEPT !.step = "INSERT"]]
      BY <1>1, <1>6, SameWork DEF Miss
    <2> QED
      BY <1>3, <2>1
  <1>7. ASSUME NEW s \in Session, Insert(s) PROVE ScenariosHeld'
    <2> DEFINE row == call[s].row
               new == Stored(row)
               w == [rows |-> work[s].rows \cup {new}, answers |-> work[s].answers \cup {row}]
               c == IF row.table \in Committing THEN [step |-> "COMMIT", row |-> row] ELSE NoCall
    <2>1. rows' = rows /\ call[s].step = "INSERT"
      BY <1>7 DEF Insert
    <2>2. work' = [work EXCEPT ![s] = w] /\ call' = [call EXCEPT ![s] = c]
      <3>1. work' = [work EXCEPT ![s] = w]
        BY <1>1, <1>7, Written
      <3>2. call' = [call EXCEPT ![s] = c]
        BY <1>7 DEF Insert
      <3> QED
        BY <3>1, <3>2
    <2>3. \A r \in w.rows : r.table = "scenario" => c.step = "COMMIT" /\ Stored(c.row) = r
      <3>1. \A r \in work[s].rows : r.table # "scenario"
        BY <2>1 DEF ScenariosHeld
      <3>2. call[s].step # "IDLE" /\ IsRow(row)
        BY <1>1, <2>1, OwnShape DEF InCall
      <3>3. new.table = row.table
        BY <3>2, StoredIs
      <3>4. new.table = "scenario" => c.step = "COMMIT" /\ c.row = row
        BY <3>3 DEF Committing
      <3> QED
        BY <3>1, <3>4
    <2> HIDE DEF w, c
    <2> QED
      BY <1>1, <2>1, <2>2, <2>3, HeldAfter
  <1>8. ASSUME NEW s \in Session, Undo(s) PROVE ScenariosHeld'
    <2>1. /\ rows' = rows /\ work' = [work EXCEPT ![s] = NoWork] /\ call' = [call EXCEPT ![s] = NoCall]
          /\ NoWork.rows = {}
      BY <1>8 DEF Undo, Return, NoWork
    <2> QED
      BY <1>1, <2>1, HeldAfter
  <1>9. ASSUME NEW s \in Session, Settle(s), NEW c, call' = [call EXCEPT ![s] = c],
               \A r \in work[s].rows : r.table = "scenario" => Recordable(r.key.analysis.book)
        PROVE  ScenariosHeld'
    <2>1. rows' = rows \cup work[s].rows /\ work' = [work EXCEPT ![s] = NoWork] /\ NoWork.rows = {}
      BY <1>9 DEF Settle, Visible, NoWork
    <2>2. \A r \in rows' : r.table = "scenario" => Recordable(r.key.analysis.book)
      BY <1>1, <1>9, <2>1
    <2> QED
      BY <1>1, <1>9, <2>1, <2>2, HeldAfter
  <1>10. ASSUME NEW s \in Session, CommitOwn(s) PROVE ScenariosHeld'
    <2>1. \A r \in work[s].rows : r.table = "scenario" => Recordable(r.key.analysis.book)
      <3> SUFFICES ASSUME NEW r \in work[s].rows, r.table = "scenario" PROVE Recordable(r.key.analysis.book)
        OBVIOUS
      <3>1. call[s].step = "COMMIT" /\ Stored(call[s].row) = r
        BY DEF ScenariosHeld
      <3>2. IsRow(call[s].row)
        BY <1>1, <3>1, OwnShape DEF InCall
      <3>3. call[s].row.table = "scenario" /\ call[s].row.key = r.key
        BY <3>1, <3>2, StoredIs
      <3> QED
        BY <1>10, <3>3 DEF CommitOwn, Resulting
    <2> QED
      BY <1>9, <1>10, <2>1 DEF CommitOwn, Return
  <1>11. ASSUME NEW s \in Session, Commit(s) PROVE ScenariosHeld'
    <2>1. \A r \in work[s].rows : r.table # "scenario"
      BY <1>11 DEF Commit, Idle, ScenariosHeld
    <2>2. call' = [call EXCEPT ![s] = call[s]]
      BY <1>1, <1>11, Shape DEF Commit
    <2> QED
      BY <1>9, <1>11, <2>1, <2>2 DEF Commit
  <1>12. ASSUME NEW s \in Session, \E row \in held[s] : Release(s, row) PROVE ScenariosHeld'
    BY <1>2, <1>12 DEF Release
  <1>13. ASSUME NEW rule \in Rule, AddRule(rule) PROVE ScenariosHeld'
    BY <1>2, <1>13 DEF AddRule
  <1> QED
    BY <1>2, <1>4, <1>5, <1>6, <1>7, <1>8, <1>10, <1>11, <1>12, <1>13
       DEF Next, vars, InsertFails, CommitFails, Rollback

\* A status is not against the figures stored beside it.
LEMMA ItemIsSound ==
    ASSUME NEW p \in Snapshot, NEW t \in Tolerance, NEW o, IsObservation(o),
           NEW i, i = StoredItem(Compare(p, t, o))
    PROVE  /\ i.observation = o.id /\ i.expected = Expected(p, o) /\ i.reported = Value(o.value)
           /\ i.difference = Value(o.value - Expected(p, o))
           /\ i.status \in {"MATCHED", "BREACH"} /\ i.status = Compare(p, t, o).status
           /\ Near(i.reported - i.expected, i.difference, 2 * Grain)
           /\ i.status = "MATCHED" => Within(i.difference, Value(t))
           /\ i.status = "BREACH" => Value(t) <= i.difference \/ i.difference <= -Value(t)
  <1> DEFINE expected == Expected(p, o)
             difference == o.value - expected
             kept == Value(difference)
  <1>1. expected \in Int /\ o.value \in Int /\ difference \in Int /\ t \in Int /\ -t \in Int
    BY CompareIs, ToleranceAssumption
  <1>2. /\ i.observation = o.id /\ i.expected = expected /\ i.reported = Value(o.value)
        /\ i.difference = kept /\ Compare(p, t, o).status = i.status
        /\ i.status = IF Within(difference, t) THEN "MATCHED" ELSE "BREACH"
    BY CompareIs
  <1> HIDE DEF expected, kept
  <1>3. Near(i.reported - i.expected, i.difference, 2 * Grain)
    <2>1. /\ Value(o.value) \in Int /\ Near(Value(o.value), o.value, Grain)
          /\ kept \in Int /\ Near(kept, difference, Grain) /\ Grain \in Nat
      BY <1>1, ValueIs, KeptAssumption DEF kept
    <2> QED
      BY <1>1, <1>2, <2>1 DEF Near
  <1>4. Value(t) \in Int /\ kept \in Int /\ Value(-t) = -Value(t)
    BY <1>1, ValueIs DEF kept
  <1> HIDE DEF difference
  <1>5. ASSUME Within(difference, t) PROVE Within(kept, Value(t))
    <2>1. Value(-t) <= kept /\ kept <= Value(t)
      BY <1>1, <1>5, ValueKeepsOrder DEF Within, kept
    <2> QED
      BY <1>4, <2>1 DEF Within
  <1>6. ASSUME ~ Within(difference, t) PROVE Value(t) <= kept \/ kept <= -Value(t)
    <2>1. t <= difference \/ difference <= -t
      BY <1>1, <1>6 DEF Within
    <2>2. Value(t) <= kept \/ kept <= Value(-t)
      BY <1>1, <2>1, ValueKeepsOrder DEF kept
    <2> QED
      BY <1>4, <2>2
  <1> QED
    BY <1>2, <1>3, <1>5, <1>6 DEF expected, difference, kept

\* A reconciliation run has the items of the evidence in its key.
LEMMA RunIsSound ==
    ASSUME NEW r, NEW seen, Kept(r, seen), r.table = "reconciliation"
    PROVE  RunSound(r.key, r.content)
  <1>1. PICK p, t, observed :
          /\ p \in Snapshot /\ t \in Tolerance /\ Seen(observed, seen)
          /\ r = KeptRun(p, t, observed)
    BY KeptRunIs
  <1> DEFINE run == r.content
             given == {Compare(p, t, o) : o \in observed}
  <1>2. /\ r.key.tolerance = Value(t) /\ r.key.evidence = observed
        /\ run.items = {StoredItem(Compare(p, t, o)) : o \in observed} /\ run.status = RunStatus(given)
    BY <1>1 DEF KeptRun, Row
  <1> HIDE DEF run, given
  <1>3. /\ \A o \in observed : IsObservation(o)
        /\ \A o, q \in observed : o.id = q.id => o = q
    BY <1>1 DEF Seen
  <1>4. ASSUME NEW o \in observed
        PROVE  LET i == StoredItem(Compare(p, t, o)) IN
               /\ i.observation = o.id
               /\ i.status \in {"MATCHED", "BREACH"} /\ i.status = Compare(p, t, o).status
               /\ Near(i.reported - i.expected, i.difference, 2 * Grain)
               /\ i.status = "MATCHED" => Within(i.difference, r.key.tolerance)
               /\ i.status = "BREACH" => r.key.tolerance <= i.difference \/ i.difference <= -r.key.tolerance
    BY <1>1, <1>2, <1>3, ItemIsSound
  <1>5. {i.observation : i \in run.items} = {o.id : o \in observed}
    BY <1>2, <1>4
  <1>6. \A i, j \in run.items : i.observation = j.observation => i = j
    BY <1>2, <1>3, <1>4
  <1>7. ASSUME NEW i \in run.items
        PROVE  /\ Near(i.reported - i.expected, i.difference, 2 * Grain)
               /\ i.status = "MATCHED" => Within(i.difference, r.key.tolerance)
               /\ i.status = "BREACH" => r.key.tolerance <= i.difference \/ i.difference <= -r.key.tolerance
    <2>1. PICK o \in observed : i = StoredItem(Compare(p, t, o))
      BY <1>2
    <2> QED
      BY <1>4, <2>1
  <1>8. given = {} <=> observed = {}
    BY DEF given
  <1>9. (\A i \in given : i.status = "MATCHED") <=> ~ \E i \in run.items : i.status = "BREACH"
    <2>1. (\A i \in given : i.status = "MATCHED") <=> \A o \in observed : Compare(p, t, o).status = "MATCHED"
      BY DEF given
    <2>2. (\E i \in run.items : i.status = "BREACH") <=>
            \E o \in observed : StoredItem(Compare(p, t, o)).status = "BREACH"
      BY <1>2
    <2>3. \A o \in observed : Compare(p, t, o).status = "MATCHED" <=> StoredItem(Compare(p, t, o)).status # "BREACH"
      BY <1>4
    <2> QED
      BY <2>1, <2>2, <2>3
  <1>10. given = {} => ~ \E i \in run.items : i.status = "BREACH"
    BY <1>9
  <1>11. /\ run.status = "UNAVAILABLE" <=> observed = {}
         /\ run.status = "BREACH" <=> \E i \in run.items : i.status = "BREACH"
    BY <1>2, <1>8, <1>9, <1>10 DEF RunStatus
  <1> QED
    BY <1>2, <1>5, <1>6, <1>7, <1>11 DEF RunSound, run

\* Two runs of the same evidence agree up to a grain, however its text was
\* hashed.
LEMMA RunsAgree ==
    ASSUME NEW seen, \A a, b \in seen : SameKey(a, b) => a = b,
           NEW a, NEW b, Kept(a, seen), Kept(b, seen), SameEvidence(a, b)
    PROVE  Alike(a.content, b.content)
  <1>1. PICK p, t, these :
          /\ p \in Snapshot /\ t \in Tolerance /\ Seen(these, seen)
          /\ a = KeptRun(p, t, these)
    BY KeptRunIs DEF SameEvidence
  <1>2. PICK q, u, those :
          /\ q \in Snapshot /\ u \in Tolerance /\ Seen(those, seen)
          /\ b = KeptRun(q, u, those)
    BY KeptRunIs DEF SameEvidence
  <1>3. /\ a.key.snapshot = p /\ b.key.snapshot = q
        /\ a.content.items = {StoredItem(Compare(p, t, o)) : o \in these}
        /\ b.content.items = {StoredItem(Compare(q, u, o)) : o \in those}
    BY <1>1, <1>2 DEF KeptRun, Row
  <1>4. p = q
    BY <1>3 DEF SameEvidence
  <1>5. ASSUME NEW o \in these, NEW d \in those, o.id = d.id
        PROVE  /\ Expected(p, o) = Expected(p, d) /\ Value(o.value) = Value(d.value)
               /\ IsObservation(o) /\ IsObservation(d)
    <2>1. /\ IsObservation(o) /\ Stored(ObservationRow(o)) \in seen
          /\ IsObservation(d) /\ Stored(ObservationRow(d)) \in seen
      BY <1>1, <1>2 DEF Seen
    <2>2. /\ Stored(ObservationRow(o)) = ObservationRow(StoredObservation(o))
          /\ Stored(ObservationRow(d)) = ObservationRow(StoredObservation(d))
          /\ StoredObservation(o) =
               [id |-> o.id, account |-> o.account, line |-> o.line, value |-> Value(o.value),
                text |-> "STORED", at |-> o.at]
          /\ StoredObservation(d) =
               [id |-> d.id, account |-> d.account, line |-> d.line, value |-> Value(d.value),
                text |-> "STORED", at |-> d.at]
      BY <2>1, ObservationStored
    <2>3. SameKey(ObservationRow(StoredObservation(o)), ObservationRow(StoredObservation(d)))
      BY <1>5, <2>2 DEF SameKey, ObservationRow, Row
    <2>4. ObservationRow(StoredObservation(o)) = ObservationRow(StoredObservation(d))
      BY <2>1, <2>2, <2>3
    <2>5. StoredObservation(o) = StoredObservation(d)
      BY <2>4 DEF ObservationRow, Row
    <2>6. o.account = d.account /\ o.line = d.line /\ Value(o.value) = Value(d.value)
      BY <2>2, <2>5
    <2> QED
      BY <2>1, <2>6 DEF Expected
  <1>6. ASSUME NEW i \in a.content.items, NEW j \in b.content.items, i.observation = j.observation
        PROVE  i.expected = j.expected /\ i.reported = j.reported /\ Near(i.difference, j.difference, 2 * Grain)
    <2>1. PICK o \in these : i = StoredItem(Compare(p, t, o))
      BY <1>3
    <2>2. PICK d \in those : j = StoredItem(Compare(p, u, d))
      BY <1>3, <1>4
    <2>3. IsObservation(o) /\ IsObservation(d)
      BY <1>1, <1>2 DEF Seen
    <2>4. /\ i.observation = o.id /\ i.expected = Expected(p, o) /\ i.reported = Value(o.value)
          /\ i.difference = Value(o.value - Expected(p, o))
      BY <1>1, <2>1, <2>3, ItemIsSound
    <2>5. /\ j.observation = d.id /\ j.expected = Expected(p, d) /\ j.reported = Value(d.value)
          /\ j.difference = Value(d.value - Expected(p, d))
      BY <1>1, <1>2, <2>2, <2>3, ItemIsSound
    <2>6. Expected(p, o) = Expected(p, d) /\ Value(o.value) = Value(d.value)
      BY <1>5, <1>6, <2>4, <2>5
    <2>7. Expected(p, o) \in Int /\ o.value \in Int /\ d.value \in Int
      BY <1>1, <2>3, CompareIs
    <2>8. Near(Value(o.value - Expected(p, o)), Value(d.value - Expected(p, o)), 2 * Grain)
      BY <2>6, <2>7, SameValue
    <2> QED
      BY <2>4, <2>5, <2>6, <2>8
  <1> QED
    BY <1>6 DEF Alike

\* No rule passes without its metric, and one is breached by how much it is.
LEMMA ItemsAreSound ==
    ASSUME NEW known \in SUBSET Rule, NEW metrics, \A m \in DOMAIN metrics : metrics[m] \in Quotient
    PROVE  ItemsSound(Items(known, metrics), metrics)
  <1> SUFFICES ASSUME NEW rule \in known
               PROVE  LET item == Item(rule, metrics) IN
                      /\ item.status = "UNAVAILABLE" <=> rule.metric \notin DOMAIN metrics
                      /\ item.status = "BREACH" <=> item.amount # None /\ Less(Zero, item.amount)
    BY DEF Items, ItemsSound
  <1> DEFINE breach == Breach(rule, metrics[rule.metric])
             amount == Positive(breach)
  <1>1. CASE rule.metric \notin DOMAIN metrics
    BY <1>1 DEF Item
  <1>2. CASE rule.metric \in DOMAIN metrics
    <2>1. breach \in Quotient
      <3>1. rule.threshold \in Quotient /\ metrics[rule.metric] \in Quotient
        BY <1>2, RuleAssumption
      <3> QED
        BY <3>1, QuotientsAre DEF Breach
    <2> HIDE DEF breach
    <2>2. amount \in Quotient /\ amount # None
      BY <2>1, QuotientsAre, MissingAssumption
    <2>3. Zero.n = 0 /\ Zero.d = 1
      BY DEF Zero, Ratio
    <2>4. Less(Zero, amount) <=> amount # Zero
      <3>1. CASE breach.n > 0
        <4>1. amount = breach
          BY <3>1 DEF Positive
        <4>2. breach.n \in Int /\ breach.d \in Int
          BY <2>1 DEF Quotient
        <4>3. Less(Zero, breach)
          BY <2>3, <3>1, <4>2 DEF Less
        <4>4. breach # Zero
          BY <2>3, <3>1
        <4> QED
          BY <4>1, <4>3, <4>4
      <3>2. CASE ~ breach.n > 0
        <4>1. amount = Zero
          BY <3>2 DEF Positive
        <4>2. ~ Less(Zero, Zero)
          BY <2>3 DEF Less
        <4> QED
          BY <4>1, <4>2
      <3> QED
        BY <3>1, <3>2
    <2>5. Item(rule, metrics) = [status |-> IF amount = Zero THEN "PASS" ELSE "BREACH",
                                 observed |-> metrics[rule.metric], amount |-> amount]
      BY <1>2 DEF Item, breach
    <2> HIDE DEF amount
    <2> QED
      BY <1>2, <2>2, <2>4, <2>5
  <1> QED
    BY <1>1, <1>2

\* The sign of a difference, exact and of what is kept of its sides.
LEMMA DifferenceIs ==
    ASSUME NEW q \in Quotient, NEW r \in Quotient
    PROVE  /\ Plus(q, Minus(r)) \in Quotient
           /\ Less(Zero, Plus(q, Minus(r))) <=> Plus(q, Minus(r)).n > 0
           /\ Plus(q, Minus(r)).n > 0 => ~ Less(Plus(Share(q), Minus(Share(r))), Zero)
           /\ ~ Plus(q, Minus(r)).n > 0 => ~ Less(Zero, Plus(Share(q), Minus(Share(r))))
  <1> DEFINE exact == Plus(q, Minus(r))
             kept == Plus(Share(q), Minus(Share(r)))
  <1>1. /\ q.n \in Int /\ q.d \in Nat \ {0} /\ r.n \in Int /\ r.d \in Nat \ {0}
        /\ q.n * r.d \in Int /\ r.n * q.d \in Int
    BY DEF Quotient
  <1>2. exact \in Quotient
    BY QuotientsAre
  <1>3. Zero.n = 0 /\ Zero.d = 1
    BY DEF Zero, Ratio
  <1>4. exact.n > 0 <=> r.n * q.d < q.n * r.d
    <2>1. CASE q.d = r.d
      <3>1. exact.n = q.n - r.n
        BY <1>1, <2>1 DEF Plus, Minus, Ratio
      <3>2. r.n < q.n <=> r.n * q.d < q.n * q.d
        <4>1. q.n <= r.n <=> q.n * q.d <= r.n * q.d
          BY <1>1, TimesKeepsOrder
        <4> QED
          BY <1>1, <2>1, <4>1
      <3> QED
        BY <1>1, <2>1, <3>1, <3>2
    <2>2. CASE q.d # r.d
      <3>1. exact.n = q.n * r.d + (-r.n) * q.d
        BY <1>1, <2>2 DEF Plus, Minus, Ratio
      <3>2. (-r.n) * q.d = -(r.n * q.d)
        BY <1>1
      <3> QED
        BY <1>1, <3>1, <3>2
    <2> QED
      BY <2>1, <2>2
  <1>5. /\ Share(q).n \in Int /\ Share(r).n \in Int /\ Share(q).d = Places /\ Share(r).d = Places
        /\ Places \in Nat \ {0}
    BY ShareIs, KeptAssumption DEF Quotient
  <1>6. kept.n = Share(q).n - Share(r).n /\ kept.n \in Int /\ kept.d = Places
    BY <1>5 DEF Plus, Minus, Ratio
  <1> HIDE DEF exact, kept
  <1>7. (Less(kept, Zero) <=> kept.n < 0) /\ (Less(Zero, kept) <=> kept.n > 0)
    BY <1>3, <1>5, <1>6 DEF Less
  <1>8. Less(Zero, exact) <=> exact.n > 0
    BY <1>2, <1>3 DEF Less, Quotient
  <1>9. exact.n > 0 => kept.n >= 0
    <2>1. exact.n > 0 => Share(r).n <= Share(q).n
      BY <1>1, <1>4, ShareKeepsOrder
    <2> QED
      BY <1>5, <1>6, <2>1
  <1>10. ~ exact.n > 0 => kept.n <= 0
    <2>1. ~ exact.n > 0 => Share(q).n <= Share(r).n
      BY <1>1, <1>4, ShareKeepsOrder
    <2> QED
      BY <1>5, <1>6, <2>1
  <1> QED
    BY <1>2, <1>6, <1>7, <1>8, <1>9, <1>10 DEF exact, kept

\* A status is not against the figures stored beside it.
LEMMA OutcomeIsSound ==
    ASSUME NEW rule \in Rule, NEW metrics, rule.metric \in DOMAIN metrics, metrics[rule.metric] \in Quotient,
           NEW item, item = StoredOutcome(Item(rule, metrics)),
           NEW kept, kept = Breach([rule EXCEPT !.threshold = Share(rule.threshold)], item.observed)
    PROVE  /\ item.status \in {"PASS", "BREACH"}
           /\ item.status = "BREACH" <=> Less(Zero, Breach(rule, metrics[rule.metric]))
           /\ item.status = "BREACH" => ~ Less(kept, Zero) /\ ~ Less(item.amount, Zero)
           /\ item.status = "PASS" => ~ Less(Zero, kept) /\ item.amount.n = 0
  <1> DEFINE observed == metrics[rule.metric]
             threshold == rule.threshold
             breach == Breach(rule, observed)
             amount == Positive(breach)
  <1>1. observed \in Quotient /\ threshold \in Quotient /\ observed # None
    BY RuleAssumption, MissingAssumption
  <1>2. PICK q \in Quotient, r \in Quotient :
          /\ breach = Plus(q, Minus(r))
          /\ Breach([rule EXCEPT !.threshold = Share(threshold)], Share(observed)) =
               Plus(Share(q), Minus(Share(r)))
    <2> DEFINE other == [rule EXCEPT !.threshold = Share(threshold)]
    <2>1. rule = [id |-> rule.id, metric |-> rule.metric, operator |-> rule.operator, threshold |-> rule.threshold]
      BY RuleAssumption
    <2>2. other.operator = rule.operator /\ other.threshold = Share(threshold)
      BY <2>1
    <2> HIDE DEF other
    <2>3. CASE rule.operator = "MAX"
      <3>1. breach = Plus(observed, Minus(threshold)) /\ Breach(other, Share(observed)) =
                       Plus(Share(observed), Minus(Share(threshold)))
        BY <2>2, <2>3 DEF Breach
      <3> QED
        BY <1>1, <3>1 DEF other
    <2>4. CASE rule.operator # "MAX"
      <3>1. breach = Plus(threshold, Minus(observed)) /\ Breach(other, Share(observed)) =
                       Plus(Share(threshold), Minus(Share(observed)))
        BY <2>2, <2>4 DEF Breach
      <3> QED
        BY <1>1, <3>1 DEF other
    <2> QED
      BY <2>3, <2>4
  <1>3. Item(rule, metrics) = [status |-> IF amount = Zero THEN "PASS" ELSE "BREACH",
                               observed |-> observed, amount |-> amount]
    BY DEF Item
  <1> HIDE DEF observed, threshold, breach, amount
  <1>4. item = [status |-> IF amount = Zero THEN "PASS" ELSE "BREACH",
                observed |-> Share(observed), amount |-> Share(amount)]
    <2> DEFINE status == IF amount = Zero THEN "PASS" ELSE "BREACH"
               outcome == [status |-> status, observed |-> observed, amount |-> amount]
               kept2 == [outcome EXCEPT !.observed = Share(outcome.observed), !.amount = Share(outcome.amount)]
    <2>1. item = kept2
      BY <1>1, <1>3 DEF StoredOutcome
    <2> HIDE DEF status
    <2>2. kept2 = [f \in {"status", "observed", "amount"} |-> kept2[f]]
      OBVIOUS
    <2>3. kept2.status = status /\ kept2.observed = Share(observed) /\ kept2.amount = Share(amount)
      OBVIOUS
    <2> HIDE DEF kept2
    <2>4. kept2 = [status |-> status, observed |-> Share(observed), amount |-> Share(amount)]
      BY <2>2, <2>3
    <2> QED
      BY <2>1, <2>4 DEF status
  <1>5. /\ kept = Plus(Share(q), Minus(Share(r)))
        /\ item.amount = Share(amount) /\ item.status \in {"PASS", "BREACH"}
        /\ item.status = "PASS" <=> amount = Zero
    BY <1>2, <1>4 DEF threshold
  <1>6. /\ Less(Zero, breach) <=> breach.n > 0
        /\ breach.n > 0 => ~ Less(kept, Zero)
        /\ ~ breach.n > 0 => ~ Less(Zero, kept)
        /\ breach \in Quotient
    BY <1>2, <1>5, DifferenceIs
  <1>7. Zero.n = 0 /\ Zero.d = 1 /\ Zero \in Quotient
    BY QuotientsAre DEF Zero, Ratio
  <1>8. amount \in Quotient /\ amount.n >= 0 /\ (amount = Zero <=> ~ breach.n > 0)
    <2>1. CASE breach.n > 0
      BY <1>6, <1>7, <2>1 DEF Positive, amount, Quotient
    <2>2. CASE ~ breach.n > 0
      BY <1>7, <2>2 DEF Positive, amount
    <2> QED
      BY <2>1, <2>2
  <1>9. Share(amount).n >= 0 /\ Share(amount) \in Quotient /\ (amount = Zero => Share(amount).n = 0)
    BY <1>7, <1>8, ShareIs
  <1>10. ~ Less(Share(amount), Zero)
    BY <1>7, <1>9 DEF Less, Quotient
  <1> QED
    BY <1>5, <1>6, <1>8, <1>9, <1>10 DEF breach, observed

\* A stored evaluation.
LEMMA EvaluationIsSound ==
    ASSUME NEW r, NEW seen, Kept(r, seen), r.table = "evaluation"
    PROVE  EvaluationSound(r.content, r.key.metrics)
  <1>1. PICK g : r = Stored(g) /\ Sound(g, seen)
    BY DEF Kept
  <1>2. g.table = "evaluation" /\ r.key = g.key /\ r.content = StoredOutcomes(g.content)
    BY <1>1, StoredIs DEF Sound
  <1>3. PICK a \in DOMAIN Metered : g.key.metrics = Metered[a]
    BY <1>1, <1>2 DEF Sound, Calculated
  <1>4. PICK known \in SUBSET Rule : g.content = Items(known, g.key.metrics)
    BY <1>1, <1>2 DEF Sound, Calculated
  <1>5. /\ a \in Analysis /\ Measurable(a.book) /\ Assessable(a.returns, a.benchmark, a.confidence)
        /\ Metered[a] = Metrics(a.book, a.returns, a.confidence)
    BY DEF Metered
  <1>6. IsBook(a.book) /\ a.returns \in Seq(Quotient) /\ a.confidence \in Quotient
    BY <1>5, AnalysisAssumption DEF IsAnalysis
  <1>7. \A m \in DOMAIN Metered[a] : Metered[a][m] \in Quotient
    BY <1>5, <1>6, BookIsValued, MetricsAre
  <1> DEFINE metrics == r.key.metrics
             items == r.content
  <1>8. metrics = Metered[a] /\ items = [rule \in known |-> StoredOutcome(Item(rule, metrics))]
    BY <1>2, <1>3, <1>4 DEF StoredOutcomes, Items
  <1> HIDE DEF metrics, items
  <1>9. ASSUME NEW rule \in known
        PROVE  LET item == items[rule]
                   kept == Breach([rule EXCEPT !.threshold = Share(rule.threshold)], item.observed)
               IN /\ item.status = "UNAVAILABLE" <=> rule.metric \notin DOMAIN metrics
                  /\ item.status = "BREACH" <=>
                       rule.metric \in DOMAIN metrics /\ Less(Zero, Breach(rule, metrics[rule.metric]))
                  /\ item.status = "BREACH" => ~ Less(kept, Zero) /\ ~ Less(item.amount, Zero)
                  /\ item.status = "PASS" => ~ Less(Zero, kept) /\ item.amount.n = 0
    <2>1. items[rule] = StoredOutcome(Item(rule, metrics))
      BY <1>8
    <2>2. CASE rule.metric \notin DOMAIN metrics
      <3>1. items[rule].status = "UNAVAILABLE"
        BY <2>1, <2>2 DEF Item, StoredOutcome
      <3> QED
        BY <2>2, <3>1
    <2>3. CASE rule.metric \in DOMAIN metrics
      <3>1. metrics[rule.metric] \in Quotient
        BY <1>7, <1>8, <2>3
      <3> QED
        BY <2>1, <2>3, <3>1, OutcomeIsSound
    <2> QED
      BY <2>2, <2>3
  <1>10. DOMAIN items = known
    BY <1>8
  <1> QED
    BY <1>9, <1>10 DEF EvaluationSound, metrics, items

\* A stored scenario run.
LEMMA ScenarioIsSound ==
    ASSUME NEW r, NEW seen, Kept(r, seen), r.table = "scenario", Recordable(r.key.analysis.book)
    PROVE  /\ StoredScenarioSound(r.key, r.content.comparison)
           /\ ItemsSound(r.content.before, Compared[r.key].metrics.before)
           /\ ItemsSound(r.content.after, Compared[r.key].metrics.after)
  <1>1. PICK g : r = Stored(g) /\ Sound(g, seen) /\ Storable(g)
    BY DEF Kept
  <1>2. /\ g.table = "scenario" /\ r.key = g.key
        /\ r.content = [g.content EXCEPT !.comparison = StoredComparison(g.content.comparison)]
    BY <1>1, StoredIs DEF Sound
  <1>3. PICK e \in DOMAIN Compared : e = r.key
    BY <1>1, <1>2 DEF Sound, Calculated
  <1>4. PICK known \in SUBSET Rule :
          g.content = [comparison |-> Compared[e],
                       before |-> Items(known, Compared[e].metrics.before),
                       after |-> Items(known, Compared[e].metrics.after)]
    BY <1>1, <1>2, <1>3 DEF Sound, Calculated
  <1>5. /\ r.content.comparison = StoredComparison(Compared[e])
        /\ r.content.before = Items(known, Compared[e].metrics.before)
        /\ r.content.after = Items(known, Compared[e].metrics.after)
    BY <1>2, <1>4
  <1> DEFINE shocks == e.scenario.shocks
             a == e.analysis
             stressed == StressedReturns(shocks, a.book, a.returns)
             after == Projected(shocks, a.book)
  <1>6. /\ e \in Execution
        /\ Comparable(shocks, a.book, a.returns, a.benchmark, a.confidence)
        /\ Compared[e] = Comparison(shocks, a.book, a.returns, a.confidence)
    BY DEF Compared
  <1>7. IsAnalysis(a) /\ AreShocks(shocks)
    BY <1>6, ExecutionAssumption
  <1>8. StoredScenarioSound(e, r.content.comparison)
    <2>1. ScenarioSound(e, Compared[e]) /\ Amounts(e, Compared[e])
      BY <1>6, <1>7, ComparisonSound
    <2>2. Money(Compared[e].baseline) > 0 /\ Money(Compared[e].projected) > 0
      BY <1>1, <1>2, <1>4 DEF Storable
    <2>3. Recordable(a.book)
      BY <1>3
    <2> QED
      BY <1>5, <2>1, <2>2, <2>3, StoredComparisonSound
  <1>9. /\ Compared[e].metrics.before = Metrics(a.book, a.returns, a.confidence)
        /\ Compared[e].metrics.after = Metrics(after, stressed, a.confidence)
    BY <1>6 DEF Comparison
  <1>10. /\ IsBook(a.book) /\ a.returns \in Seq(Quotient) /\ a.confidence \in Quotient
         /\ Measurable(a.book) /\ Measurable(after)
         /\ Assessable(a.returns, a.benchmark, a.confidence)
         /\ Assessable(stressed, a.benchmark + 1, a.confidence)
    BY <1>6, <1>7 DEF IsAnalysis, Comparable
  <1>11. Valued(a.book) /\ Valued(after) /\ stressed \in Seq(Quotient)
    BY <1>7, <1>10, BookIsValued, ProjectedIs, StressedAre
  <1> HIDE DEF after, stressed
  <1>12. /\ \A m \in DOMAIN Compared[e].metrics.before : Compared[e].metrics.before[m] \in Quotient
         /\ \A m \in DOMAIN Compared[e].metrics.after : Compared[e].metrics.after[m] \in Quotient
    BY <1>9, <1>10, <1>11, MetricsAre
  <1>13. /\ ItemsSound(Items(known, Compared[e].metrics.before), Compared[e].metrics.before)
         /\ ItemsSound(Items(known, Compared[e].metrics.after), Compared[e].metrics.after)
    BY <1>12, ItemsAreSound
  <1> QED
    BY <1>3, <1>5, <1>8, <1>13

\* All rows together.
LEMMA SoundIsStored ==
    ASSUME IInv, ScenariosHeld
    PROVE  StoredSound
  <1>1. /\ \A r \in rows : Kept(r, rows) /\ IsRow(r)
        /\ \A a, b \in rows : SameKey(a, b) => a = b
        /\ \A r \in rows : r.table = "scenario" => Recordable(r.key.analysis.book)
    BY DEF IInv, RowsSound, TypeOK, KeysApart, ScenariosHeld
  <1>2. \A a, b \in rows : SameEvidence(a, b) => Alike(a.content, b.content)
    BY <1>1, RunsAgree
  <1>3. \A r \in rows : r.table = "reconciliation" => RunSound(r.key, r.content)
    BY <1>1, RunIsSound
  <1>4. \A r \in rows : r.table = "evaluation" => EvaluationSound(r.content, r.key.metrics)
    BY <1>1, EvaluationIsSound
  <1>5. \A r \in rows : r.table = "scenario" =>
          /\ StoredScenarioSound(r.key, r.content.comparison)
          /\ ItemsSound(r.content.before, Compared[r.key].metrics.before)
          /\ ItemsSound(r.content.after, Compared[r.key].metrics.after)
    BY <1>1, ScenarioIsSound
  <1>6. \A r \in rows : r.table \in {"observation", "reconciliation", "evaluation", "scenario"}
    BY <1>1 DEF IsRow, Table
  <1> QED
    BY <1>2, <1>3, <1>4, <1>5, <1>6 DEF StoredSound

-----------------------------------------------------------------------------
(* Theorems.                                                               *)

\* The inductive invariant holds in every state, for every set of inputs and
\* rules and any number of sessions.
THEOREM Invariance == Spec => []IInv
  BY Initially, Inductive, PTL DEF Spec

\* Every variable keeps its shape, and a session sees the rows whose objects
\* it holds.
THEOREM TypeCorrect == Spec => []TypeOK
  <1>1. IInv => TypeOK
    BY DEF IInv
  <1> QED
    BY <1>1, Invariance, PTL

\* An answer is of a row its session sees, and the columns keep of it what
\* they keep of that row, but for rules added in between, whatever the engines
\* calculate and however coarse the columns are (reconciliation.py 74-95,
\* 196-226, risk/service.py 54-93, scenarios/service.py 104-170).
THEOREM AnswersTrue == Spec => []AnswersStand
  <1>1. IInv => AnswersStand
    BY DEF IInv
  <1> QED
    BY <1>1, Invariance, PTL

\* What is stored is what its key says it was made from, as far as the columns
\* keep it, for all portfolios, samples, shocks, rules and whatever the columns
\* keep: no status is against the figures beside it, runs of one evidence
\* differ by a grain at most, no rule passes without its metric, the profits
\* and the weights of a scenario add up to the rounding, and its losses are a
\* quantile and a tail no smaller (reconciliation.py 140-243, risk/engine.py
\* 34-44, scenarios/engine.py, scenarios/comparison.py).
THEOREM StoredIsSound == Spec => []StoredSound
  <1>1. Init => ScenariosHeld
    BY DEF Init, ScenariosHeld, NoWork
  <1>2. IInv /\ ScenariosHeld => StoredSound
    BY SoundIsStored
  <1> QED
    BY <1>1, <1>2, HeldInductive, Invariance, PTL DEF Spec

\* The services keep one store of evidence: a row for each key, for ever, and
\* for every reconciliation the observations it rests on.  Assessments
\* implements EvidenceStore.
THEOREM StoreImplemented == Spec => ImplementsStore
  <1>1. Init => Store!Init
    BY DEF Init, Store!Init
  <1>2. ASSUME IInv, IInv', [Next]_vars PROVE [Store!Record]_rows
    <2>1. rows \subseteq rows'
      BY <1>2 DEF Next, vars, BeginCall, Observe, Reconcile, Analyze, Execute, Begin, Find, Miss, Insert,
                  CommitOwn, Commit, Settle, InsertFails, CommitFails, Rollback, Undo, Release, AddRule,
                  Visible
    <2>2. Store!Decided(rows')
      BY <1>2 DEF IInv, KeysApart, SameKey, Store!Decided
    <2>3. Store!Rests(rows')
      <3>1. \A r \in rows' : Kept(r, rows')
        BY <1>2 DEF IInv, RowsSound
      <3> QED
        BY <3>1, EvidenceThere DEF Store!Rests
    <2> QED
      BY <2>1, <2>2, <2>3 DEF Store!Record
  <1>3. IInv /\ IInv' /\ [Next]_vars => [Store!Record]_rows
    BY <1>2
  <1> QED
    BY <1>1, <1>3, Invariance, PTL DEF Spec, ImplementsStore, Store!Spec
=============================================================================
