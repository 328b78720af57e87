-------------------------------- MODULE Sums --------------------------------
(***************************************************************************)
(* Facts about finite sums of the community modules, and division.         *)
(***************************************************************************)
EXTENDS FiniteSetsExt, FiniteSetTheorems, TLAPS

\* A set of finite sets has a least element.
LEMMA LeastSet ==
    ASSUME NEW B, B # {}, \A T \in B : IsFiniteSet(T)
    PROVE  \E T \in B : \A U \in B : U \subseteq T => U = T
  <1> DEFINE S == UNION B
  <1>1. B \subseteq FiniteSubsetsOf(S)
    BY DEF FiniteSubsetsOf
  <1>2. IsWellFoundedOn(StrictSubsetOrdering(S), FiniteSubsetsOf(S))
    BY FS_StrictSubsetOrderingWellFounded
  <1>3. \E T \in B : \A U \in B : ~ (<<U, T>> \in StrictSubsetOrdering(S))
    BY <1>1, <1>2, WFMin
  <1> QED
    BY <1>1, <1>3 DEF StrictSubsetOrdering, FiniteSubsetsOf

-----------------------------------------------------------------------------
(* Folds exist.                                                            *)

Pick(s) == CHOOSE x \in s : TRUE

IsFold(g, step, base, S) ==
    g = [s \in SUBSET S |-> IF s = {} THEN base ELSE step[<<Pick(s), g[s \ {Pick(s)}]>>]]

\* What Pick takes is in the set.
LEMMA PickIn ==
    ASSUME NEW s, s # {}
    PROVE  Pick(s) \in s
  BY DEF Pick

\* Two recursions of one fold agree on the finite sets that both have.
LEMMA FoldsAgree ==
    ASSUME NEW step, NEW base, NEW S, NEW T, NEW g, NEW h,
           IsFold(g, step, base, S), IsFold(h, step, base, T),
           NEW U, U \subseteq S, U \subseteq T, IsFiniteSet(U)
    PROVE  g[U] = h[U]
  <1> DEFINE B == {V \in SUBSET U : g[V] # h[V]}
  <1> SUFFICES ASSUME B # {} PROVE FALSE
    OBVIOUS
  <1>1. \A V \in B : IsFiniteSet(V)
    BY FS_Subset
  <1>2. PICK V \in B : \A W \in B : W \subseteq V => W = V
    <2> HIDE DEF B
    <2> QED
      BY <1>1, LeastSet
  <1>3. \A W \in SUBSET U : W \in SUBSET S /\ W \in SUBSET T
    OBVIOUS
  <1>4. /\ g[V] = IF V = {} THEN base ELSE step[<<Pick(V), g[V \ {Pick(V)}]>>]
        /\ h[V] = IF V = {} THEN base ELSE step[<<Pick(V), h[V \ {Pick(V)}]>>]
    BY <1>3 DEF IsFold
  <1>5. V # {}
    BY <1>4
  <1>6. g[V \ {Pick(V)}] = h[V \ {Pick(V)}]
    BY <1>2, <1>5, PickIn
  <1> QED
    BY <1>4, <1>5, <1>6

\* Every finite set has the recursion of a fold, so the CHOOSE of Folds has a
\* witness.
LEMMA FoldExists ==
    ASSUME NEW step, NEW base, NEW S, IsFiniteSet(S)
    PROVE  \E g : IsFold(g, step, base, S)
  <1> DEFINE B == {T \in SUBSET S : ~ \E g : IsFold(g, step, base, T)}
  <1> SUFFICES ASSUME B # {} PROVE FALSE
    OBVIOUS
  <1>1. \A T \in B : IsFiniteSet(T)
    BY FS_Subset
  <1>2. PICK T \in B : \A U \in B : U \subseteq T => U = T
    <2> HIDE DEF B
    <2> QED
      BY <1>1, LeastSet
  <1> DEFINE F(u) == CHOOSE g : IsFold(g, step, base, u)
             h == [s \in SUBSET T |-> IF s = {} THEN base
                                      ELSE step[<<Pick(s), F(s \ {Pick(s)})[s \ {Pick(s)}]>>]]
  <1>3. \A u \in SUBSET T : u # T => IsFold(F(u), step, base, u)
    BY <1>2
  <1> HIDE DEF F
  <1>4. \A u \in SUBSET T : u # T => h[u] = F(u)[u]
    <2> SUFFICES ASSUME NEW u \in SUBSET T, u # T PROVE h[u] = F(u)[u]
      OBVIOUS
    <2>1. IsFold(F(u), step, base, u)
      BY <1>3
    <2>2. F(u)[u] = IF u = {} THEN base ELSE step[<<Pick(u), F(u)[u \ {Pick(u)}]>>]
      BY <2>1 DEF IsFold
    <2>3. CASE u = {}
      BY <2>2, <2>3
    <2>4. CASE u # {}
      <3> DEFINE w == u \ {Pick(u)}
      <3>1. w \in SUBSET T /\ w # T /\ w \subseteq u
        OBVIOUS
      <3>2. IsFold(F(w), step, base, w)
        BY <1>3, <3>1
      <3>3. IsFiniteSet(w)
        BY <1>1, <3>1, FS_Subset
      <3>4. F(u)[w] = F(w)[w]
        <4> HIDE DEF w
        <4> QED
          BY <2>1, <3>1, <3>2, <3>3, FoldsAgree
      <3> QED
        BY <2>2, <2>4, <3>4
    <2> QED
      BY <2>3, <2>4
  <1>5. h = [s \in SUBSET T |-> IF s = {} THEN base ELSE step[<<Pick(s), h[s \ {Pick(s)}]>>]]
    <2>1. \A s \in SUBSET T : s # {} => h[s \ {Pick(s)}] = F(s \ {Pick(s)})[s \ {Pick(s)}]
      BY <1>4, PickIn
    <2> QED
      BY <2>1
  <1> HIDE DEF h
  <1>6. IsFold(h, step, base, T)
    BY <1>5 DEF IsFold
  <1> QED
    BY <1>6

-----------------------------------------------------------------------------
(* Sums.                                                                   *)

IsSum(g, f, S) ==
    g = [s \in SUBSET S |-> IF s = {} THEN 0 ELSE f[Pick(s)] + g[s \ {Pick(s)}]]

\* f has integer values on S, a finite set.
Summable(f, S) == IsFiniteSet(S) /\ \A x \in S : f[x] \in Int

\* Every finite set of integer terms has the recursion of its sum.
LEMMA SumExists ==
    ASSUME NEW f, NEW S, Summable(f, S)
    PROVE  \E g \in [SUBSET S -> Int] : IsSum(g, f, S)
  <1> DEFINE step == [p \in S \X Int |-> f[p[1]] + p[2]]
  <1>1. PICK g : IsFold(g, step, 0, S)
    <2> HIDE DEF step
    <2> QED
      BY FoldExists DEF Summable
  <1>2. DOMAIN g = SUBSET S
    BY <1>1 DEF IsFold
  <1>3. \A s \in SUBSET S : g[s] = IF s = {} THEN 0 ELSE step[<<Pick(s), g[s \ {Pick(s)}]>>]
    <2> HIDE DEF step
    <2> QED
      BY <1>1 DEF IsFold
  <1> DEFINE B == {s \in SUBSET S : g[s] \notin Int}
  <1>4. B = {}
    <2> SUFFICES ASSUME B # {} PROVE FALSE
      OBVIOUS
    <2>1. \A V \in B : IsFiniteSet(V)
      BY FS_Subset DEF Summable
    <2>2. PICK V \in B : \A W \in B : W \subseteq V => W = V
      <3> HIDE DEF B
      <3> QED
        BY <2>1, LeastSet
    <2>3. V # {}
      <3>1. g[{}] = 0
        BY <1>3
      <3> QED
        BY <3>1
    <2>4. Pick(V) \in V /\ Pick(V) \in S
      BY <2>3, PickIn
    <2>5. g[V \ {Pick(V)}] \in Int
      BY <2>2, <2>4
    <2>6. step[<<Pick(V), g[V \ {Pick(V)}]>>] = f[Pick(V)] + g[V \ {Pick(V)}]
      BY <2>4, <2>5
    <2>7. g[V] = f[Pick(V)] + g[V \ {Pick(V)}]
      BY <1>3, <2>3, <2>6
    <2> QED
      BY <2>4, <2>5, <2>7 DEF Summable
  <1>5. \A s \in SUBSET S : g[s] \in Int
    BY <1>4
  <1>6. \A s \in SUBSET S : s # {} =>
           step[<<Pick(s), g[s \ {Pick(s)}]>>] = f[Pick(s)] + g[s \ {Pick(s)}]
    <2> SUFFICES ASSUME NEW s \in SUBSET S, s # {}
                 PROVE  step[<<Pick(s), g[s \ {Pick(s)}]>>] = f[Pick(s)] + g[s \ {Pick(s)}]
      OBVIOUS
    <2>1. Pick(s) \in S
      BY PickIn
    <2>2. g[s \ {Pick(s)}] \in Int
      BY <1>5
    <2> QED
      BY <2>1, <2>2
  <1> HIDE DEF step
  <1>7. IsSum(g, f, S)
    <2>1. g = [s \in SUBSET S |-> IF s = {} THEN 0 ELSE step[<<Pick(s), g[s \ {Pick(s)}]>>]]
      BY <1>1 DEF IsFold
    <2> QED
      BY <1>6, <2>1 DEF IsSum
  <1>8. g \in [SUBSET S -> Int]
    BY <1>2, <1>5, <1>7 DEF IsSum
  <1> QED
    BY <1>7, <1>8

\* Two recursions for the same sum agree on the sets that both have.
LEMMA SumsAgree ==
    ASSUME NEW f, NEW S, NEW T, NEW g, NEW h, IsSum(g, f, S), IsSum(h, f, T),
           NEW U, U \subseteq S, U \subseteq T, IsFiniteSet(U)
    PROVE  g[U] = h[U]
  <1> DEFINE B == {V \in SUBSET U : g[V] # h[V]}
  <1> SUFFICES ASSUME B # {} PROVE FALSE
    OBVIOUS
  <1>1. \A V \in B : IsFiniteSet(V)
    BY FS_Subset
  <1>2. PICK V \in B : \A W \in B : W \subseteq V => W = V
    <2> HIDE DEF B
    <2> QED
      BY <1>1, LeastSet
  <1>3. \A W \in SUBSET U : W \in SUBSET S /\ W \in SUBSET T
    OBVIOUS
  <1>4. /\ g[V] = IF V = {} THEN 0 ELSE f[Pick(V)] + g[V \ {Pick(V)}]
        /\ h[V] = IF V = {} THEN 0 ELSE f[Pick(V)] + h[V \ {Pick(V)}]
    BY <1>3 DEF IsSum
  <1>5. V # {}
    BY <1>4
  <1>6. g[V \ {Pick(V)}] = h[V \ {Pick(V)}]
    BY <1>2, <1>5, PickIn
  <1> QED
    BY <1>4, <1>5, <1>6

\* The sum over S is the value of any of its recursions.
LEMMA SumOf ==
    ASSUME NEW f, NEW S, Summable(f, S), NEW T, S \subseteq T, NEW g, IsSum(g, f, T)
    PROVE  SumFunctionOnSet(f, S) = g[S]
  <1> DEFINE h == CHOOSE i : IsSum(i, f, S)
  <1>1. IsSum(h, f, S)
    BY SumExists
  <1>2. SumFunctionOnSet(f, S) = h[S]
    BY DEF SumFunctionOnSet, FoldFunctionOnSet, MapThenFoldSet, IsSum, Pick
  <1> HIDE DEF h
  <1>3. h[S] = g[S]
    BY <1>1, SumsAgree DEF Summable
  <1> QED
    BY <1>2, <1>3

\* Nothing sums to zero.
LEMMA SumEmpty == \A f : SumFunctionOnSet(f, {}) = 0
  <1> SUFFICES ASSUME NEW f PROVE SumFunctionOnSet(f, {}) = 0
    OBVIOUS
  <1>1. Summable(f, {})
    BY FS_EmptySet DEF Summable
  <1>2. PICK g : IsSum(g, f, {})
    BY <1>1, SumExists
  <1>3. g[{}] = 0
    BY <1>2 DEF IsSum
  <1> QED
    BY <1>1, <1>2, <1>3, SumOf

\* A sum of integers is an integer.
LEMMA SumType ==
    ASSUME NEW f, NEW S, Summable(f, S)
    PROVE  SumFunctionOnSet(f, S) \in Int
  <1>1. PICK g \in [SUBSET S -> Int] : IsSum(g, f, S)
    BY SumExists
  <1> QED
    BY <1>1, SumOf

\* The recursion takes the element that Pick chooses.
LEMMA SumPicks ==
    ASSUME NEW f, NEW S, Summable(f, S), S # {}
    PROVE  SumFunctionOnSet(f, S) = f[Pick(S)] + SumFunctionOnSet(f, S \ {Pick(S)})
  <1>1. PICK g : IsSum(g, f, S)
    BY SumExists
  <1>2. g[S] = f[Pick(S)] + g[S \ {Pick(S)}]
    BY <1>1 DEF IsSum
  <1>3. Summable(f, S \ {Pick(S)})
    BY FS_RemoveElement DEF Summable
  <1>4. SumFunctionOnSet(f, S \ {Pick(S)}) = g[S \ {Pick(S)}]
    BY <1>1, <1>3, SumOf
  <1>5. SumFunctionOnSet(f, S) = g[S]
    BY <1>1, SumOf
  <1> QED
    BY <1>2, <1>4, <1>5

\* Any other element may be taken first.
LEMMA SumTakes ==
    ASSUME NEW f, NEW S, Summable(f, S), NEW x \in S
    PROVE  SumFunctionOnSet(f, S) = f[x] + SumFunctionOnSet(f, S \ {x})
  <1> DEFINE Bad(T) == \E y \in T : SumFunctionOnSet(f, T) # f[y] + SumFunctionOnSet(f, T \ {y})
             B == {T \in SUBSET S : Bad(T)}
  <1> SUFFICES ASSUME B # {} PROVE FALSE
    <2>1. ~ Bad(S)
      OBVIOUS
    <2> QED
      BY <2>1
  <1>1. \A T \in B : IsFiniteSet(T)
    BY FS_Subset DEF Summable
  <1>2. PICK T \in B : \A U \in B : U \subseteq T => U = T
    <2> HIDE DEF B
    <2> QED
      BY <1>1, LeastSet
  <1>3. PICK y \in T : SumFunctionOnSet(f, T) # f[y] + SumFunctionOnSet(f, T \ {y})
    OBVIOUS
  <1> DEFINE p == Pick(T)
             V == T \ {p, y}
  <1>4. p \in T
    BY PickIn
  <1>5. \A U \in SUBSET T : Summable(f, U)
    BY <1>1, FS_Subset DEF Summable
  <1>6. SumFunctionOnSet(f, T) = f[p] + SumFunctionOnSet(f, T \ {p})
    BY <1>5, SumPicks
  <1>7. p # y
    BY <1>3, <1>6
  <1>8. SumFunctionOnSet(f, T \ {p}) = f[y] + SumFunctionOnSet(f, V)
    <2>1. ~ Bad(T \ {p})
      <3>1. T \ {p} \in SUBSET S /\ T \ {p} \subseteq T /\ T \ {p} # T
        BY <1>4
      <3> HIDE DEF Bad, p
      <3> QED
        BY <1>2, <3>1
    <2>2. y \in T \ {p} /\ (T \ {p}) \ {y} = V
      BY <1>7
    <2> HIDE DEF V, p
    <2> QED
      BY <2>1, <2>2
  <1>9. SumFunctionOnSet(f, T \ {y}) = f[p] + SumFunctionOnSet(f, V)
    <2>1. ~ Bad(T \ {y})
      BY <1>2, <1>3
    <2>2. p \in T \ {y} /\ (T \ {y}) \ {p} = V
      BY <1>4, <1>7
    <2> HIDE DEF V, p
    <2> QED
      BY <2>1, <2>2
  <1>10. f[p] \in Int /\ f[y] \in Int /\ SumFunctionOnSet(f, V) \in Int
    <2>1. Summable(f, V)
      BY <1>5
    <2> QED
      BY <1>4, <2>1, SumType DEF Summable
  <1> HIDE DEF V, p
  <1> QED
    BY <1>3, <1>6, <1>8, <1>9, <1>10

\* One more element.
LEMMA SumAdds ==
    ASSUME NEW f, NEW S, NEW x, x \notin S, Summable(f, S \cup {x})
    PROVE  /\ SumFunctionOnSet(f, S \cup {x}) = SumFunctionOnSet(f, S) + f[x]
           /\ SumFunctionOnSet(f, S) \in Int /\ f[x] \in Int
  <1>1. (S \cup {x}) \ {x} = S
    OBVIOUS
  <1>2. SumFunctionOnSet(f, S \cup {x}) = f[x] + SumFunctionOnSet(f, S)
    BY <1>1, SumTakes
  <1>3. Summable(f, S)
    BY FS_Subset DEF Summable
  <1> QED
    BY <1>2, <1>3, SumType DEF Summable

-----------------------------------------------------------------------------
(* Induction on the set summed over.                                       *)

\* Functions that agree have one sum.
LEMMA SumSame ==
    ASSUME NEW f, NEW g, NEW S, Summable(f, S), \A x \in S : f[x] = g[x]
    PROVE  SumFunctionOnSet(f, S) = SumFunctionOnSet(g, S)
  <1> DEFINE B == {T \in SUBSET S : SumFunctionOnSet(f, T) # SumFunctionOnSet(g, T)}
  <1> SUFFICES ASSUME B # {} PROVE FALSE
    OBVIOUS
  <1>1. \A T \in B : IsFiniteSet(T)
    BY FS_Subset DEF Summable
  <1>2. PICK T \in B : \A U \in B : U \subseteq T => U = T
    <2> HIDE DEF B
    <2> QED
      BY <1>1, LeastSet
  <1>3. Summable(f, T) /\ Summable(g, T)
    BY <1>1 DEF Summable
  <1>4. T # {}
    BY SumEmpty
  <1>5. PICK x : x \in T
    BY <1>4
  <1>6. SumFunctionOnSet(f, T \ {x}) = SumFunctionOnSet(g, T \ {x})
    BY <1>2, <1>5
  <1> QED
    BY <1>3, <1>5, <1>6, SumTakes

\* The sum of sums.
LEMMA SumPlus ==
    ASSUME NEW f, NEW g, NEW h, NEW S, Summable(f, S), Summable(g, S), \A x \in S : h[x] = f[x] + g[x]
    PROVE  SumFunctionOnSet(h, S) = SumFunctionOnSet(f, S) + SumFunctionOnSet(g, S)
  <1> DEFINE Good(T) == SumFunctionOnSet(h, T) = SumFunctionOnSet(f, T) + SumFunctionOnSet(g, T)
             B == {T \in SUBSET S : ~ Good(T)}
  <1> SUFFICES ASSUME B # {} PROVE FALSE
    OBVIOUS
  <1>1. \A T \in B : IsFiniteSet(T)
    BY FS_Subset DEF Summable
  <1>2. PICK T \in B : \A U \in B : U \subseteq T => U = T
    <2> HIDE DEF B
    <2> QED
      BY <1>1, LeastSet
  <1>3. Summable(f, T) /\ Summable(g, T) /\ Summable(h, T)
    BY <1>1 DEF Summable
  <1>4. T # {}
    BY SumEmpty
  <1>5. PICK x : x \in T
    BY <1>4
  <1> DEFINE U == T \ {x}
  <1>6. Good(U)
    BY <1>2, <1>5
  <1>7. /\ SumFunctionOnSet(f, T) = f[x] + SumFunctionOnSet(f, U)
        /\ SumFunctionOnSet(g, T) = g[x] + SumFunctionOnSet(g, U)
        /\ SumFunctionOnSet(h, T) = h[x] + SumFunctionOnSet(h, U)
    BY <1>3, <1>5, SumTakes
  <1>8. Summable(f, U) /\ Summable(g, U)
    BY <1>3, FS_RemoveElement DEF Summable
  <1>9. SumFunctionOnSet(f, U) \in Int /\ SumFunctionOnSet(g, U) \in Int
    BY <1>8, SumType
  <1>10. f[x] \in Int /\ g[x] \in Int /\ h[x] = f[x] + g[x]
    BY <1>3, <1>5 DEF Summable
  <1> HIDE DEF U
  <1> QED
    BY <1>6, <1>7, <1>9, <1>10

\* Sums keep the order of their terms.
LEMMA SumOrder ==
    ASSUME NEW f, NEW g, NEW S, Summable(f, S), Summable(g, S), \A x \in S : f[x] <= g[x]
    PROVE  SumFunctionOnSet(f, S) <= SumFunctionOnSet(g, S)
  <1> DEFINE Good(T) == SumFunctionOnSet(f, T) <= SumFunctionOnSet(g, T)
             B == {T \in SUBSET S : ~ Good(T)}
  <1> SUFFICES ASSUME B # {} PROVE FALSE
    OBVIOUS
  <1>1. \A T \in B : IsFiniteSet(T)
    BY FS_Subset DEF Summable
  <1>2. PICK T \in B : \A U \in B : U \subseteq T => U = T
    <2> HIDE DEF B
    <2> QED
      BY <1>1, LeastSet
  <1>3. Summable(f, T) /\ Summable(g, T)
    BY <1>1 DEF Summable
  <1>4. T # {}
    BY SumEmpty
  <1>5. PICK x : x \in T
    BY <1>4
  <1> DEFINE U == T \ {x}
  <1>6. Good(U)
    BY <1>2, <1>5
  <1>7. /\ SumFunctionOnSet(f, T) = f[x] + SumFunctionOnSet(f, U)
        /\ SumFunctionOnSet(g, T) = g[x] + SumFunctionOnSet(g, U)
    BY <1>3, <1>5, SumTakes
  <1>8. Summable(f, U) /\ Summable(g, U)
    BY <1>3, FS_RemoveElement DEF Summable
  <1>9. SumFunctionOnSet(f, U) \in Int /\ SumFunctionOnSet(g, U) \in Int
    BY <1>8, SumType
  <1>10. f[x] \in Int /\ g[x] \in Int /\ f[x] <= g[x]
    BY <1>3, <1>5 DEF Summable
  <1> HIDE DEF U
  <1> QED
    BY <1>6, <1>7, <1>9, <1>10

\* Disjoint sets.
LEMMA SumUnion ==
    ASSUME NEW f, NEW R, NEW S, R \cap S = {}, Summable(f, R \cup S)
    PROVE  /\ SumFunctionOnSet(f, R \cup S) = SumFunctionOnSet(f, R) + SumFunctionOnSet(f, S)
           /\ SumFunctionOnSet(f, R) \in Int /\ SumFunctionOnSet(f, S) \in Int
  <1> DEFINE Good(T) == SumFunctionOnSet(f, R \cup T) = SumFunctionOnSet(f, R) + SumFunctionOnSet(f, T)
             B == {T \in SUBSET S : ~ Good(T)}
  <1>1. Summable(f, R) /\ Summable(f, S)
    <2>1. R \in SUBSET (R \cup S) /\ S \in SUBSET (R \cup S)
      OBVIOUS
    <2>2. IsFiniteSet(R) /\ IsFiniteSet(S)
      BY <2>1, FS_Subset DEF Summable
    <2> QED
      BY <2>2 DEF Summable
  <1>2. SumFunctionOnSet(f, R) \in Int /\ SumFunctionOnSet(f, S) \in Int
    BY <1>1, SumType
  <1> SUFFICES ASSUME B # {} PROVE FALSE
    BY <1>2
  <1>3. \A T \in B : IsFiniteSet(T)
    BY <1>1, FS_Subset DEF Summable
  <1>4. PICK T \in B : \A U \in B : U \subseteq T => U = T
    <2> HIDE DEF B
    <2> QED
      BY <1>3, LeastSet
  <1>5. T # {}
    <2>1. R \cup {} = R
      OBVIOUS
    <2> QED
      BY <1>2, <2>1, SumEmpty
  <1>6. PICK x : x \in T
    BY <1>5
  <1> DEFINE U == T \ {x}
  <1>7. Good(U)
    BY <1>4, <1>6
  <1>8. Summable(f, R \cup T) /\ Summable(f, T) /\ Summable(f, U)
    <2>1. R \cup T \in SUBSET (R \cup S) /\ U \in SUBSET S /\ T \in SUBSET S
      BY <1>4
    <2>2. IsFiniteSet(R \cup T) /\ IsFiniteSet(U) /\ IsFiniteSet(T)
      BY <1>1, <2>1, FS_Subset DEF Summable
    <2> QED
      BY <2>1, <2>2 DEF Summable
  <1>9. SumFunctionOnSet(f, R \cup T) = f[x] + SumFunctionOnSet(f, R \cup U)
    <2>1. x \in R \cup T /\ (R \cup T) \ {x} = R \cup U
      BY <1>6
    <2> HIDE DEF U
    <2> QED
      BY <1>8, <2>1, SumTakes
  <1>10. SumFunctionOnSet(f, T) = f[x] + SumFunctionOnSet(f, U)
    BY <1>6, <1>8, SumTakes
  <1>11. f[x] \in Int /\ SumFunctionOnSet(f, U) \in Int
    BY <1>6, <1>8, SumType DEF Summable
  <1> HIDE DEF U
  <1> QED
    BY <1>2, <1>7, <1>9, <1>10, <1>11

-----------------------------------------------------------------------------
(* Sums of all the values of a function.                                   *)

\* f is a function with integer values on a finite domain.
Terms(f) == f = [x \in DOMAIN f |-> f[x]] /\ Summable(f, DOMAIN f)

\* A function of nothing sums to zero.
LEMMA NoTerms == \A f : DOMAIN f = {} => SumFunction(f) = 0
  BY SumEmpty DEF SumFunction

\* A sum of a function's integers is an integer.
LEMMA TermsType ==
    ASSUME NEW f, Terms(f)
    PROVE  SumFunction(f) \in Int
  BY SumType DEF SumFunction, Terms

\* A part of the terms, or all of them.
LEMMA PartOfTerms ==
    ASSUME NEW f, Terms(f), NEW S, S \subseteq DOMAIN f
    PROVE  SumFunction([x \in S |-> f[x]]) = SumFunctionOnSet(f, S)
  <1> DEFINE g == [x \in S |-> f[x]]
  <1>1. Summable(f, S)
    BY FS_Subset DEF Terms, Summable
  <1>2. SumFunctionOnSet(f, S) = SumFunctionOnSet(g, S)
    BY <1>1, SumSame
  <1> QED
    BY <1>2 DEF SumFunction

\* g has one term more than f.
LEMMA TermAdded ==
    ASSUME NEW f, NEW g, NEW x, Terms(g), x \notin DOMAIN f, DOMAIN g = DOMAIN f \cup {x},
           \A y \in DOMAIN f : g[y] = f[y]
    PROVE  /\ SumFunction(g) = SumFunction(f) + g[x]
           /\ SumFunction(f) \in Int /\ g[x] \in Int
  <1> DEFINE S == DOMAIN f
  <1>1. Summable(g, S \cup {x})
    BY DEF Terms
  <1>2. Summable(g, S)
    BY <1>1, FS_Subset DEF Summable
  <1>3. SumFunctionOnSet(g, S \cup {x}) = SumFunctionOnSet(g, S) + g[x]
    BY <1>1, SumAdds
  <1>4. SumFunctionOnSet(g, S) = SumFunctionOnSet(f, S)
    BY <1>2, SumSame
  <1>5. SumFunctionOnSet(g, S) \in Int
    BY <1>2, SumType
  <1> QED
    BY <1>1, <1>3, <1>4, <1>5 DEF SumFunction, Summable

\* The sums of the parts of a partition make up the sum of the whole.
LEMMA SumParts ==
    ASSUME NEW f, Terms(f), NEW C, IsFiniteSet(C), NEW label, \A x \in DOMAIN f : label[x] \in C,
           NEW part, DOMAIN part = C,
           \A c \in C : part[c] = SumFunctionOnSet(f, {x \in DOMAIN f : label[x] = c})
    PROVE  /\ SumFunctionOnSet(part, C) = SumFunction(f)
           /\ \A c \in C : part[c] \in Int
  <1> DEFINE S == DOMAIN f
             Under(D) == {x \in S : label[x] \in D}
             Good(D) == SumFunctionOnSet(part, D) = SumFunctionOnSet(f, Under(D))
             B == {D \in SUBSET C : ~ Good(D)}
  <1>1. \A T \in SUBSET S : Summable(f, T)
    BY FS_Subset DEF Terms, Summable
  <1>2. \A c \in C : part[c] \in Int
    <2> SUFFICES ASSUME NEW c \in C PROVE part[c] \in Int
      OBVIOUS
    <2> DEFINE T == {x \in S : label[x] = c}
    <2>1. part[c] = SumFunctionOnSet(f, T)
      OBVIOUS
    <2>2. T \in SUBSET S
      OBVIOUS
    <2> HIDE DEF T
    <2> QED
      BY <1>1, <2>1, <2>2, SumType
  <1>3. B = {}
    <2> SUFFICES ASSUME B # {} PROVE FALSE
      OBVIOUS
    <2>1. \A D \in B : IsFiniteSet(D)
      BY FS_Subset
    <2>2. PICK D \in B : \A E \in B : E \subseteq D => E = D
      <3> HIDE DEF B
      <3> QED
        BY <2>1, LeastSet
    <2>3. D # {}
      <3>1. Under({}) = {}
        OBVIOUS
      <3> HIDE DEF Under
      <3> QED
        BY <3>1, SumEmpty
    <2>4. PICK c : c \in D
      BY <2>3
    <2> DEFINE E == D \ {c}
               U == {x \in S : label[x] = c}
    <2>5. Good(E)
      BY <2>2, <2>4
    <2>6. c \in C
      BY <2>2, <2>4
    <2>7. SumFunctionOnSet(part, D) = part[c] + SumFunctionOnSet(part, E)
      <3>1. Summable(part, D)
        BY <1>2, <2>1 DEF Summable
      <3> QED
        BY <2>4, <3>1, SumTakes
    <2>8. SumFunctionOnSet(f, Under(D)) = SumFunctionOnSet(f, Under(E)) + SumFunctionOnSet(f, U)
      <3>1. Under(D) = Under(E) \cup U /\ Under(E) \cap U = {} /\ Under(D) \in SUBSET S
        BY <2>4
      <3>2. Summable(f, Under(E) \cup U)
        BY <1>1, <3>1
      <3> HIDE DEF Under, U, E
      <3>3. SumFunctionOnSet(f, Under(E) \cup U) = SumFunctionOnSet(f, Under(E)) + SumFunctionOnSet(f, U)
        BY <3>1, <3>2, SumUnion
      <3> QED
        BY <3>1, <3>3
    <2>9. part[c] = SumFunctionOnSet(f, U)
      BY <2>6
    <2>10. part[c] \in Int /\ SumFunctionOnSet(f, Under(E)) \in Int
      <3>1. Under(E) \in SUBSET S
        OBVIOUS
      <3> HIDE DEF Under
      <3> QED
        BY <1>1, <1>2, <2>6, <3>1, SumType
    <2> HIDE DEF Under, U, E
    <2> QED
      BY <2>2, <2>5, <2>7, <2>8, <2>9, <2>10
  <1>4. Under(C) = S
    OBVIOUS
  <1>5. Good(C)
    BY <1>3
  <1> HIDE DEF Under
  <1> QED
    BY <1>2, <1>4, <1>5 DEF SumFunction

-----------------------------------------------------------------------------
(* Terms that are zero.                                                    *)

\* Zeros sum to zero.
LEMMA SumOfZeros ==
    ASSUME NEW f, NEW S, IsFiniteSet(S), \A x \in S : f[x] = 0
    PROVE  SumFunctionOnSet(f, S) = 0
  <1>1. Summable(f, S)
    BY DEF Summable
  <1>2. SumFunctionOnSet(f, S) = SumFunctionOnSet(f, S) + SumFunctionOnSet(f, S)
    BY <1>1, SumPlus
  <1>3. PICK n \in Int : n = SumFunctionOnSet(f, S)
    BY <1>1, SumType
  <1>4. n = n + n
    BY <1>2, <1>3
  <1>5. n = 0
    BY <1>4
  <1> QED
    BY <1>3, <1>5

\* Only the terms in T count.
LEMMA SumSupport ==
    ASSUME NEW f, NEW S, Summable(f, S), NEW T, T \subseteq S, \A x \in S \ T : f[x] = 0
    PROVE  SumFunctionOnSet(f, S) = SumFunctionOnSet(f, T)
  <1>1. PICK R : R = S \ T
    OBVIOUS
  <1>2. SumFunctionOnSet(f, S) = SumFunctionOnSet(f, T) + SumFunctionOnSet(f, R)
    <2>1. S = T \cup R /\ T \cap R = {}
      BY <1>1
    <2> QED
      BY <2>1, SumUnion
  <1>3. IsFiniteSet(R) /\ IsFiniteSet(T)
    BY <1>1, FS_Subset DEF Summable
  <1>4. SumFunctionOnSet(f, R) = 0
    BY <1>1, <1>3, SumOfZeros
  <1>5. SumFunctionOnSet(f, T) \in Int
    BY <1>3, SumType DEF Summable
  <1> QED
    BY <1>2, <1>4, <1>5

-----------------------------------------------------------------------------
(* Division.                                                               *)

\* Integer division rounds down.
LEMMA Division ==
    ASSUME NEW a \in Int, NEW b \in Nat \ {0}
    PROVE  a \div b \in Int /\ b * (a \div b) <= a /\ a < b * (a \div b) + b
  OBVIOUS
=============================================================================
