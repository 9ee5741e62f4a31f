-------------------------------- MODULE Sums --------------------------------
(***************************************************************************)
(* Facts about SumFunctionOnSet of the community modules, which adds the   *)
(* values of a function over a finite set: what it is of no elements, of   *)
(* one more, of changed values, and that the order of adding is nobody's   *)
(* business.  The contracts keep totals beside what they are totals of, so *)
(* that the proofs about all of them need these.                           *)
(*                                                                         *)
(* Each is proved by a least counterexample: were there a subset of which  *)
(* it is false, there would be one with no smaller such subset.            *)
(***************************************************************************)
EXTENDS SequencesExt, Integers, FiniteSetTheorems, SequenceTheorems, WellFoundedInduction, TLAPS

-----------------------------------------------------------------------------
(***************************************************************************)
(* Arithmetic: what products and the contracts' divisions return.          *)
(***************************************************************************)

LEMMA ProductIsNat == \A a, b \in Nat : a * b \in Nat
OBVIOUS

LEMMA QuotientIsNat == \A a \in Nat, d \in Nat \ {0} : a \div d \in Nat
OBVIOUS

LEMMA ProductMonotone ==
  ASSUME NEW a \in Nat, NEW b \in Nat, NEW c \in Nat, a <= b
  PROVE  a * c <= b * c
OBVIOUS

LEMMA QuotientBound ==
  ASSUME NEW d \in Nat \ {0}, NEW c \in Nat, NEW x \in Nat, x <= d * c
  PROVE  x \div d <= c /\ (x = d * c => x \div d = c)
OBVIOUS

\* A quotient is rounded down.
LEMMA QuotientRounds ==
  ASSUME NEW x \in Nat, NEW d \in Nat \ {0}
  PROVE  x \div d \in Nat /\ d * (x \div d) <= x
OBVIOUS

LEMMA Cancel ==
  ASSUME NEW d \in Nat \ {0}, NEW x \in Nat, NEW y \in Nat, d * x <= d * y
  PROVE  x <= y
<1> SUFFICES ASSUME y < x PROVE FALSE
  OBVIOUS
<1>1. d * (y + 1) <= d * x
  <2>1. y + 1 <= x /\ y + 1 \in Nat
    OBVIOUS
  <2>2. (y + 1) * d <= x * d
    BY <2>1, ProductMonotone
  <2> QED
    BY <2>2
<1>2. d * (y + 1) = d * y + d
  OBVIOUS
<1>3. d * y \in Nat /\ d * x \in Nat
  BY ProductIsNat
<1> QED
  BY <1>1, <1>2, <1>3

-----------------------------------------------------------------------------
(***************************************************************************)
(* Sums.                                                                   *)
(***************************************************************************)

\* The element that is added first, and the sums of all subsets of S, which
\* depend on each other.
Pick(s) == CHOOSE x \in s : TRUE
IsTally(g, f, S) ==
  g = [s \in SUBSET S |-> IF s = {} THEN 0 ELSE f[Pick(s)] + g[s \ {Pick(s)}]]

\* What SumFunctionOnSet is: the value at S of a tally of S.
LEMMA SumIsTally ==
  \A f, S : SumFunctionOnSet(f, S) = (CHOOSE g : IsTally(g, f, S))[S]
BY DEF SumFunctionOnSet, FoldFunctionOnSet, MapThenFoldSet, IsTally, Pick

\* A nonempty set of subsets of a finite set has a minimal element.
LEMMA LeastSubset ==
  ASSUME NEW S, IsFiniteSet(S), NEW B, B \subseteq SUBSET S, B # {}
  PROVE  \E s \in B : \A t \in B : t \subseteq s => t = s
<1>1. IsWellFoundedOn(StrictSubsetOrdering(S), SUBSET S)
  BY FS_StrictSubsetOrderingWellFounded, FS_FiniteSubsetsOfFinite, Zenon
<1>2. PICK s \in B : \A t \in B : ~ (<<t, s>> \in StrictSubsetOrdering(S))
  BY <1>1, WFMin, Zenon
<1>. QED BY <1>2 DEF StrictSubsetOrdering


\* Tallies of two sets agree where both have something to say.
LEMMA TalliesAgree ==
  ASSUME NEW f, NEW S, IsFiniteSet(S), NEW T \in SUBSET S, NEW g, NEW h,
         IsTally(g, f, S), IsTally(h, f, T)
  PROVE  g[T] = h[T]
<1>. DEFINE B == {s \in SUBSET T : g[s] # h[s]}
<1>1. IsFiniteSet(T)
  BY FS_Subset
<1>2. ASSUME B # {} PROVE FALSE
  <2>0. B \subseteq SUBSET T
    OBVIOUS
  <2>1. PICK s \in B : \A t \in B : t \subseteq s => t = s
    <3>. HIDE DEF B
    <3>. QED BY <1>1, <1>2, <2>0, LeastSubset
  <2>2. CASE s = {}
    BY <2>1, <2>2 DEF IsTally
  <2>3. CASE s # {}
    <3>1. Pick(s) \in s
      BY <2>3 DEF Pick
    <3>2. s \ {Pick(s)} \notin B
      BY <2>1, <3>1
    <3>3. g[s] = f[Pick(s)] + g[s \ {Pick(s)}] /\ h[s] = f[Pick(s)] + h[s \ {Pick(s)}]
      <4>1. s \in SUBSET S /\ s \in SUBSET T
        OBVIOUS
      <4>2. g[s] = f[Pick(s)] + g[s \ {Pick(s)}]
        BY <2>3, <4>1 DEF IsTally
      <4>3. h[s] = f[Pick(s)] + h[s \ {Pick(s)}]
        BY <2>3, <4>1 DEF IsTally
      <4>. QED BY <4>2, <4>3
    <3>. QED BY <3>2, <3>3
  <2>. QED BY <2>2, <2>3
<1>. QED BY <1>2

\* A finite set has a tally, so that the definition of SumFunctionOnSet chooses one.
LEMMA TallyExists ==
  ASSUME NEW f, NEW S, IsFiniteSet(S)
  PROVE  IsTally(CHOOSE g : IsTally(g, f, S), f, S)
<1>. DEFINE B == {T \in SUBSET S : ~ \E g : IsTally(g, f, T)}
<1>1. ASSUME B # {} PROVE FALSE
  <2>0. B \subseteq SUBSET S
    OBVIOUS
  <2>1. PICK T \in B : \A t \in B : t \subseteq T => t = T
    <3>. HIDE DEF B
    <3>. QED BY <1>1, <2>0, LeastSubset
  <2>. DEFINE H(U) == CHOOSE h : IsTally(h, f, U)
             V(s) == IF s = {} THEN 0 ELSE f[Pick(s)] + H(s \ {Pick(s)})[s \ {Pick(s)}]
             G == [s \in SUBSET T |-> V(s)]
  <2>2. ASSUME NEW U \in SUBSET T, U # T PROVE IsTally(H(U), f, U)
    <3>1. \E h : IsTally(h, f, U)
      BY <2>1, <2>2
    <3>. QED BY <3>1, Zenon
  <2>3. ASSUME NEW s \in SUBSET T, s # {} PROVE G[s] = f[Pick(s)] + G[s \ {Pick(s)}]
    <3>. DEFINE U == s \ {Pick(s)}
    <3>1. Pick(s) \in s
      BY <2>3 DEF Pick
    <3>2. U \in SUBSET T /\ U # T
      BY <3>1
    <3>3. G[s] = f[Pick(s)] + H(U)[U]
      BY <2>3
    <3>4. G[U] = H(U)[U]
      <4>1. CASE U = {}
        <5>1. IsTally(H(U), f, U)
          BY <2>2, <3>2
        <5>2. U \in SUBSET U
          OBVIOUS
        <5>3. H(U)[U] = 0
          <6>. HIDE DEF H, U
          <6>. QED BY <5>1, <5>2, <4>1 DEF IsTally
        <5>. QED BY <3>2, <4>1, <5>3
      <4>2. CASE U # {}
        <5>. DEFINE p == Pick(U)
        <5>1. p \in U
          BY <4>2 DEF Pick
        <5>2. IsTally(H(U), f, U) /\ IsTally(H(U \ {p}), f, U \ {p})
          <6>1. U \ {p} \in SUBSET T /\ U \ {p} # T
            BY <5>1, <3>2
          <6>. QED BY <2>2, <3>2, <6>1
        <5>3. IsFiniteSet(U)
          BY <3>2, FS_Subset
        <5>4. H(U)[U \ {p}] = H(U \ {p})[U \ {p}]
          <6>. HIDE DEF H
          <6>1. U \ {p} \in SUBSET U
            OBVIOUS
          <6>. QED BY <5>2, <5>3, <6>1, TalliesAgree
        <5>5. H(U)[U] = f[p] + H(U)[U \ {p}]
          <6>. HIDE DEF H
          <6>. QED BY <5>2, <4>2 DEF IsTally
        <5>6. G[U] = f[p] + H(U \ {p})[U \ {p}]
          BY <3>2, <4>2
        <5>. QED BY <5>4, <5>5, <5>6
      <4>. QED BY <4>1, <4>2
    <3>. QED BY <3>3, <3>4
  <2>4. G[{}] = 0
    OBVIOUS
  <2>5. IsTally(G, f, T)
    <3>1. G = [s \in SUBSET T |-> G[s]]
      OBVIOUS
    <3>2. \A s \in SUBSET T : G[s] = IF s = {} THEN 0 ELSE f[Pick(s)] + G[s \ {Pick(s)}]
      <4>. HIDE DEF G
      <4>. QED BY <2>3, <2>4
    <3>. HIDE DEF G
    <3>. QED BY <3>1, <3>2 DEF IsTally
  <2>. QED BY <2>1, <2>5
<1>2. \E g : IsTally(g, f, S)
  BY <1>1
<1>. QED BY <1>2, Zenon

\* Nothing adds up to zero.
LEMMA SumOfNone == \A f : SumFunctionOnSet(f, {}) = 0
<1>. SUFFICES ASSUME NEW f PROVE SumFunctionOnSet(f, {}) = 0
  OBVIOUS
<1>. DEFINE h == CHOOSE g : IsTally(g, f, {})
<1>1. IsTally(h, f, {})
  BY TallyExists, FS_EmptySet
<1>2. h[{}] = 0
  <2>1. {} \in SUBSET {}
    OBVIOUS
  <2>. HIDE DEF h
  <2>. QED BY <1>1, <2>1 DEF IsTally
<1>. QED BY <1>2, SumIsTally

\* A sum is the value that is added first and the sum of the rest.
LEMMA SumOfPick ==
  ASSUME NEW f, NEW S, IsFiniteSet(S), S # {}
  PROVE  /\ Pick(S) \in S
         /\ SumFunctionOnSet(f, S) = f[Pick(S)] + SumFunctionOnSet(f, S \ {Pick(S)})
<1>. DEFINE h(T) == CHOOSE g : IsTally(g, f, T)
            U == S \ {Pick(S)}
<1>1. Pick(S) \in S
  BY DEF Pick
<1>2. IsFiniteSet(U) /\ U \in SUBSET S
  BY FS_Subset
<1>3. IsTally(h(S), f, S) /\ IsTally(h(U), f, U)
  BY TallyExists, <1>2
<1>. HIDE DEF h, U
<1>4. h(S)[S] = f[Pick(S)] + h(S)[U]
  <2>1. S \in SUBSET S
    OBVIOUS
  <2>. QED BY <1>3, <2>1 DEF IsTally, U
<1>5. h(S)[U] = h(U)[U]
  BY <1>2, <1>3, TalliesAgree
<1>6. SumFunctionOnSet(f, S) = h(S)[S] /\ SumFunctionOnSet(f, U) = h(U)[U]
  BY SumIsTally DEF h
<1>. QED BY <1>1, <1>4, <1>5, <1>6 DEF U

\* A sum of integers is one.
LEMMA SumIsInt ==
  ASSUME NEW f, NEW S, IsFiniteSet(S), \A x \in S : f[x] \in Int
  PROVE  SumFunctionOnSet(f, S) \in Int
<1>. DEFINE B == {T \in SUBSET S : SumFunctionOnSet(f, T) \notin Int}
<1>1. ASSUME B # {} PROVE FALSE
  <2>0. B \subseteq SUBSET S
    OBVIOUS
  <2>1. PICK T \in B : \A t \in B : t \subseteq T => t = T
    <3>. HIDE DEF B
    <3>. QED BY <1>1, <2>0, LeastSubset
  <2>2. T # {}
    BY SumOfNone
  <2>3. IsFiniteSet(T)
    BY FS_Subset
  <2>4. Pick(T) \in T /\ SumFunctionOnSet(f, T) = f[Pick(T)] + SumFunctionOnSet(f, T \ {Pick(T)})
    BY <2>2, <2>3, SumOfPick
  <2>5. SumFunctionOnSet(f, T \ {Pick(T)}) \in Int
    BY <2>1, <2>4
  <2>6. f[Pick(T)] \in Int
    BY <2>4
  <2>. QED BY <2>4, <2>5, <2>6
<1>. QED BY <1>1

\* A sum of natural numbers is one.
LEMMA SumIsNat ==
  ASSUME NEW f, NEW S, IsFiniteSet(S), \A x \in S : f[x] \in Nat
  PROVE  SumFunctionOnSet(f, S) \in Nat
<1>. DEFINE B == {T \in SUBSET S : SumFunctionOnSet(f, T) \notin Nat}
<1>1. ASSUME B # {} PROVE FALSE
  <2>0. B \subseteq SUBSET S
    OBVIOUS
  <2>1. PICK T \in B : \A t \in B : t \subseteq T => t = T
    <3>. HIDE DEF B
    <3>. QED BY <1>1, <2>0, LeastSubset
  <2>2. T # {}
    BY SumOfNone
  <2>3. IsFiniteSet(T)
    BY FS_Subset
  <2>4. Pick(T) \in T /\ SumFunctionOnSet(f, T) = f[Pick(T)] + SumFunctionOnSet(f, T \ {Pick(T)})
    BY <2>2, <2>3, SumOfPick
  <2>5. SumFunctionOnSet(f, T \ {Pick(T)}) \in Nat
    BY <2>1, <2>4
  <2>6. f[Pick(T)] \in Nat
    BY <2>4
  <2>. QED BY <2>4, <2>5, <2>6
<1>. QED BY <1>1

\* Any element can be the one that is added first.
LEMMA SumWithout ==
  ASSUME NEW f, NEW S, IsFiniteSet(S), \A x \in S : f[x] \in Int, NEW x \in S
  PROVE  SumFunctionOnSet(f, S) = f[x] + SumFunctionOnSet(f, S \ {x})
<1>. DEFINE Sum(T) == SumFunctionOnSet(f, T)
            B == {T \in SUBSET S : \E y \in T : Sum(T) # f[y] + Sum(T \ {y})}
<1>0. \A T \in SUBSET S : Sum(T) \in Int
  <2>. SUFFICES ASSUME NEW T \in SUBSET S PROVE Sum(T) \in Int
    OBVIOUS
  <2>1. IsFiniteSet(T)
    BY FS_Subset
  <2>. QED BY <2>1, SumIsInt
<1>1. ASSUME B # {} PROVE FALSE
  <2>0. B \subseteq SUBSET S
    OBVIOUS
  <2>1. PICK T \in B : \A t \in B : t \subseteq T => t = T
    <3>. HIDE DEF B
    <3>. QED BY <1>1, <2>0, LeastSubset
  <2>2. PICK y \in T : Sum(T) # f[y] + Sum(T \ {y})
    OBVIOUS
  <2>. DEFINE p == Pick(T)
  <2>3. IsFiniteSet(T) /\ T \in SUBSET S
    BY FS_Subset
  <2>4. p \in T /\ Sum(T) = f[p] + Sum(T \ {p})
    BY <2>3, SumOfPick
  <2>. HIDE DEF p, Sum
  <2>5. p # y
    BY <2>2, <2>4
  <2>6. Sum(T \ {p}) = f[y] + Sum((T \ {p}) \ {y})
    <3>1. T \ {p} \notin B
      BY <2>1, <2>4
    <3>. QED BY <3>1, <2>4, <2>5
  <2>7. Sum(T \ {y}) = f[p] + Sum((T \ {y}) \ {p})
    <3>1. T \ {y} \notin B
      BY <2>1, <2>4
    <3>. QED BY <3>1, <2>4, <2>5
  <2>8. (T \ {p}) \ {y} = (T \ {y}) \ {p}
    OBVIOUS
  <2>10. Sum((T \ {p}) \ {y}) = Sum((T \ {y}) \ {p})
    BY <2>8
  <2>9. f[p] \in Int /\ f[y] \in Int /\ Sum((T \ {y}) \ {p}) \in Int
    BY <1>0, <2>3, <2>4
  <2>. HIDE DEF B
  <2>. QED BY <2>2, <2>4, <2>6, <2>7, <2>10, <2>9
<1>. QED BY <1>1

\* One more element adds its value.
LEMMA SumWith ==
  ASSUME NEW f, NEW S, IsFiniteSet(S), NEW x, x \notin S, \A y \in S \cup {x} : f[y] \in Int
  PROVE  SumFunctionOnSet(f, S \cup {x}) = f[x] + SumFunctionOnSet(f, S)
<1>1. IsFiniteSet(S \cup {x})
  BY FS_AddElement
<1>2. (S \cup {x}) \ {x} = S
  OBVIOUS
<1>3. x \in S \cup {x}
  OBVIOUS
<1>4. SumFunctionOnSet(f, S \cup {x}) = f[x] + SumFunctionOnSet(f, (S \cup {x}) \ {x})
  BY <1>1, <1>3, SumWithout
<1>. QED BY <1>2, <1>4

\* A sum depends on the values of its elements only.
LEMMA SumSame ==
  ASSUME NEW f, NEW g, NEW S, IsFiniteSet(S), \A x \in S : f[x] = g[x]
  PROVE  SumFunctionOnSet(f, S) = SumFunctionOnSet(g, S)
<1>. DEFINE B == {T \in SUBSET S : SumFunctionOnSet(f, T) # SumFunctionOnSet(g, T)}
<1>1. ASSUME B # {} PROVE FALSE
  <2>0. B \subseteq SUBSET S
    OBVIOUS
  <2>1. PICK T \in B : \A t \in B : t \subseteq T => t = T
    <3>. HIDE DEF B
    <3>. QED BY <1>1, <2>0, LeastSubset
  <2>2. T # {}
    BY SumOfNone
  <2>3. IsFiniteSet(T)
    BY FS_Subset
  <2>4. /\ Pick(T) \in T 
        /\ SumFunctionOnSet(f, T) = f[Pick(T)] + SumFunctionOnSet(f, T \ {Pick(T)})
        /\ SumFunctionOnSet(g, T) = g[Pick(T)] + SumFunctionOnSet(g, T \ {Pick(T)})
    BY <2>2, <2>3, SumOfPick
  <2>5. SumFunctionOnSet(f, T \ {Pick(T)}) = SumFunctionOnSet(g, T \ {Pick(T)})
    BY <2>1, <2>4
  <2>6. f[Pick(T)] = g[Pick(T)]
    BY <2>4
  <2>. QED BY <2>4, <2>5, <2>6
<1>. QED BY <1>1

\* One value changes: the sum changes by the same difference.
LEMMA SumChange ==
  ASSUME NEW f, NEW g, NEW S, IsFiniteSet(S), NEW x \in S,
         \A y \in S : f[y] \in Int /\ g[y] \in Int,
         \A y \in S \ {x} : f[y] = g[y]
  PROVE  SumFunctionOnSet(g, S) = SumFunctionOnSet(f, S) + g[x] - f[x]
<1>1. IsFiniteSet(S \ {x})
  BY FS_Subset
<1>2. SumFunctionOnSet(f, S \ {x}) = SumFunctionOnSet(g, S \ {x})
  BY <1>1, SumSame
<1>3. SumFunctionOnSet(f, S \ {x}) \in Int
  BY <1>1, SumIsInt
<1>4. SumFunctionOnSet(f, S) = f[x] + SumFunctionOnSet(f, S \ {x})
  BY SumWithout
<1>5. SumFunctionOnSet(g, S) = g[x] + SumFunctionOnSet(g, S \ {x})
  BY SumWithout
<1>. QED BY <1>2, <1>3, <1>4, <1>5

\* Zeros add up to zero.
LEMMA SumOfZeros ==
  ASSUME NEW f, NEW S, IsFiniteSet(S), \A x \in S : f[x] = 0
  PROVE  SumFunctionOnSet(f, S) = 0
<1>. DEFINE B == {T \in SUBSET S : SumFunctionOnSet(f, T) # 0}
<1>1. ASSUME B # {} PROVE FALSE
  <2>0. B \subseteq SUBSET S
    OBVIOUS
  <2>1. PICK T \in B : \A t \in B : t \subseteq T => t = T
    <3>. HIDE DEF B
    <3>. QED BY <1>1, <2>0, LeastSubset
  <2>2. T # {}
    BY SumOfNone
  <2>3. IsFiniteSet(T)
    BY FS_Subset
  <2>4. Pick(T) \in T /\ SumFunctionOnSet(f, T) = f[Pick(T)] + SumFunctionOnSet(f, T \ {Pick(T)})
    BY <2>2, <2>3, SumOfPick
  <2>5. SumFunctionOnSet(f, T \ {Pick(T)}) = 0
    BY <2>1, <2>4
  <2>6. f[Pick(T)] = 0
    BY <2>4
  <2>. QED BY <2>4, <2>5, <2>6
<1>. QED BY <1>1

\* A sum of natural numbers is at least each of them.
LEMMA SumCovers ==
  ASSUME NEW f, NEW S, IsFiniteSet(S), \A x \in S : f[x] \in Nat, NEW x \in S
  PROVE  f[x] <= SumFunctionOnSet(f, S)
<1>1. IsFiniteSet(S \ {x})
  BY FS_Subset
<1>2. SumFunctionOnSet(f, S \ {x}) \in Nat
  BY <1>1, SumIsNat
<1>3. SumFunctionOnSet(f, S) = f[x] + SumFunctionOnSet(f, S \ {x})
  BY SumWithout
<1>. QED BY <1>2, <1>3

\* Smaller values have the smaller sum.
LEMMA SumAtMost ==
  ASSUME NEW f, NEW g, NEW S, IsFiniteSet(S),
         \A x \in S : f[x] \in Int /\ g[x] \in Int /\ f[x] <= g[x]
  PROVE  SumFunctionOnSet(f, S) <= SumFunctionOnSet(g, S)
<1>. DEFINE B == {T \in SUBSET S : ~(SumFunctionOnSet(f, T) <= SumFunctionOnSet(g, T))}
<1>1. ASSUME B # {} PROVE FALSE
  <2>0. B \subseteq SUBSET S
    OBVIOUS
  <2>1. PICK T \in B : \A t \in B : t \subseteq T => t = T
    <3>. HIDE DEF B
    <3>. QED BY <1>1, <2>0, LeastSubset
  <2>2. T # {}
    BY SumOfNone
  <2>3. IsFiniteSet(T)
    BY FS_Subset
  <2>4. /\ Pick(T) \in T
        /\ SumFunctionOnSet(f, T) = f[Pick(T)] + SumFunctionOnSet(f, T \ {Pick(T)})
        /\ SumFunctionOnSet(g, T) = g[Pick(T)] + SumFunctionOnSet(g, T \ {Pick(T)})
    BY <2>2, <2>3, SumOfPick
  <2>5. SumFunctionOnSet(f, T \ {Pick(T)}) <= SumFunctionOnSet(g, T \ {Pick(T)})
    BY <2>1, <2>4
  <2>6. IsFiniteSet(T \ {Pick(T)})
    BY <2>3, FS_Subset
  <2>7. \A x \in T \ {Pick(T)} : f[x] \in Int
    OBVIOUS
  <2>8. \A x \in T \ {Pick(T)} : g[x] \in Int
    OBVIOUS
  <2>9. SumFunctionOnSet(f, T \ {Pick(T)}) \in Int
    BY <2>6, <2>7, SumIsInt
  <2>10. SumFunctionOnSet(g, T \ {Pick(T)}) \in Int
    BY <2>6, <2>8, SumIsInt
  <2>11. f[Pick(T)] \in Int /\ g[Pick(T)] \in Int /\ f[Pick(T)] <= g[Pick(T)]
    BY <2>4
  <2>12. SumFunctionOnSet(f, T) <= SumFunctionOnSet(g, T)
    BY <2>4, <2>5, <2>9, <2>10, <2>11
  <2>. QED BY <2>12
<1>. QED BY <1>1

\* Sums add up.
LEMMA SumOfSums ==
  ASSUME NEW f, NEW g, NEW h, NEW S, IsFiniteSet(S),
         \A x \in S : f[x] \in Int /\ g[x] \in Int /\ h[x] = f[x] + g[x]
  PROVE  SumFunctionOnSet(h, S) = SumFunctionOnSet(f, S) + SumFunctionOnSet(g, S)
<1> DEFINE F(T) == SumFunctionOnSet(f, T)
           G(T) == SumFunctionOnSet(g, T)
           H(T) == SumFunctionOnSet(h, T)
           B == {T \in SUBSET S : H(T) # F(T) + G(T)}
<1>1. ASSUME B # {} PROVE FALSE
  <2>0. B \subseteq SUBSET S
    OBVIOUS
  <2>1. PICK T \in B : \A t \in B : t \subseteq T => t = T
    <3>. HIDE DEF B
    <3>. QED BY <1>1, <2>0, LeastSubset
  <2>2. T # {}
    <3>1. F({}) = 0 /\ G({}) = 0 /\ H({}) = 0
      BY SumOfNone
    <3>2. T \in B
      OBVIOUS
    <3>3. {} \notin B
      BY <3>1
    <3> HIDE DEF B
    <3> QED BY <3>2, <3>3
  <2>3. IsFiniteSet(T)
    BY FS_Subset
  <2> DEFINE p == Pick(T)
             U == T \ {p}
  <2>4. p \in T /\ F(T) = f[p] + F(U) /\ G(T) = g[p] + G(U) /\ H(T) = h[p] + H(U)
    BY <2>2, <2>3, SumOfPick
  <2>5. H(U) = F(U) + G(U)
    BY <2>1, <2>4
  <2>6. IsFiniteSet(U) /\ U \subseteq S
    BY <2>3, FS_Subset
  <2>7. F(U) \in Int
    <3>1. \A x \in U : f[x] \in Int
      OBVIOUS
    <3> HIDE DEF U
    <3> QED BY <2>6, <3>1, SumIsInt
  <2>8. G(U) \in Int
    <3>1. \A x \in U : g[x] \in Int
      OBVIOUS
    <3> HIDE DEF U
    <3> QED BY <2>6, <3>1, SumIsInt
  <2>9. f[p] \in Int /\ g[p] \in Int /\ h[p] = f[p] + g[p]
    BY <2>4
  <2>10. H(T) # F(T) + G(T)
    OBVIOUS
  <2> HIDE DEF F, G, H, p, U, B
  <2>. QED BY <2>4, <2>5, <2>7, <2>8, <2>9, <2>10
<1>. QED BY <1>1

\* A common factor.
LEMMA SumOfMultiples ==
  ASSUME NEW f, NEW h, NEW c \in Nat, NEW S, IsFiniteSet(S),
         \A x \in S : f[x] \in Nat /\ h[x] = c * f[x]
  PROVE  SumFunctionOnSet(h, S) = c * SumFunctionOnSet(f, S)
<1> DEFINE F(T) == SumFunctionOnSet(f, T)
           H(T) == SumFunctionOnSet(h, T)
           B == {T \in SUBSET S : H(T) # c * F(T)}
<1>1. ASSUME B # {} PROVE FALSE
  <2>0. B \subseteq SUBSET S
    OBVIOUS
  <2>1. PICK T \in B : \A t \in B : t \subseteq T => t = T
    <3>. HIDE DEF B
    <3>. QED BY <1>1, <2>0, LeastSubset
  <2>2. T # {}
    <3>1. F({}) = 0 /\ H({}) = 0
      BY SumOfNone
    <3>2. c * 0 = 0
      OBVIOUS
    <3> HIDE DEF F, H
    <3> QED BY <3>1, <3>2
  <2>3. IsFiniteSet(T)
    BY FS_Subset
  <2> DEFINE p == Pick(T)
             U == T \ {p}
  <2>4. p \in T /\ F(T) = f[p] + F(U) /\ H(T) = h[p] + H(U)
    BY <2>2, <2>3, SumOfPick
  <2>5. H(U) = c * F(U)
    BY <2>1, <2>4
  <2>6. IsFiniteSet(U) /\ U \subseteq S
    BY <2>3, FS_Subset
  <2>7. F(U) \in Nat
    <3>1. \A x \in U : f[x] \in Nat
      OBVIOUS
    <3> HIDE DEF U
    <3> QED BY <2>6, <3>1, SumIsNat
  <2>9. f[p] \in Nat /\ h[p] = c * f[p]
    BY <2>4
  <2>10. H(T) # c * F(T)
    OBVIOUS
  <2> HIDE DEF F, H, p, U, B
  <2>11. c * (f[p] + F(U)) = c * f[p] + c * F(U)
    BY <2>7, <2>9
  <2>. QED BY <2>4, <2>5, <2>9, <2>10, <2>11
<1>. QED BY <1>1

\* Elements that count nothing may be left out.
LEMMA SumOfPart ==
  ASSUME NEW f, NEW S, NEW T, IsFiniteSet(S), T \subseteq S, \A x \in S : f[x] \in Int,
         \A x \in S \ T : f[x] = 0
  PROVE  SumFunctionOnSet(f, S) = SumFunctionOnSet(f, T)
<1> DEFINE R == S \ T
           Sum(U) == SumFunctionOnSet(f, U)
           B == {U \in SUBSET R : Sum(T \cup U) # Sum(T)}
<1>1. IsFiniteSet(R) /\ IsFiniteSet(T)
  BY FS_Subset
<1>2. ASSUME B # {} PROVE FALSE
  <2>1. B \subseteq SUBSET R
    OBVIOUS
  <2>2. PICK U \in B : \A V \in B : V \subseteq U => V = U
    <3> HIDE DEF B, R
    <3> QED
      BY <1>1, <1>2, <2>1, LeastSubset
  <2>3. CASE U = {}
    <3>1. T \cup U = T
      BY <2>3
    <3> QED
      BY <2>2, <3>1
  <2>4. CASE U # {}
    <3>1. PICK x \in U : TRUE
      BY <2>4
    <3> DEFINE V == U \ {x}
    <3>2. V \subseteq R /\ V \subseteq U /\ V # U
      BY <3>1
    <3>3. V \notin B
      <4> HIDE DEF B, V
      <4> QED
        BY <2>2, <3>2
    <3>4. Sum(T \cup V) = Sum(T)
      BY <3>2, <3>3
    <3> DEFINE W == T \cup V
    <3>5. T \cup U = W \cup {x} /\ x \notin W /\ W \subseteq S /\ f[x] = 0
      BY <3>1
    <3>6. IsFiniteSet(W)
      BY <3>5, FS_Subset
    <3>7. \A y \in W \cup {x} : f[y] \in Int
      BY <3>5, <3>1
    <3> HIDE DEF W
    <3>8. SumFunctionOnSet(f, W \cup {x}) = f[x] + SumFunctionOnSet(f, W)
      BY <3>5, <3>6, <3>7, SumWith
    <3>9. SumFunctionOnSet(f, W) \in Int
      BY <3>6, <3>7, SumIsInt
    <3>10. Sum(T \cup U) = Sum(T)
      <4>1. Sum(T \cup U) = SumFunctionOnSet(f, W \cup {x})
        BY <3>5
      <4>2. Sum(T) = SumFunctionOnSet(f, W)
        BY <3>4 DEF W
      <4> HIDE DEF Sum
      <4> QED
        BY <3>5, <3>8, <3>9, <4>1, <4>2
    <3> QED
      BY <2>2, <3>10
  <2> QED
    BY <2>3, <2>4
<1>3. T \cup R = S /\ R \in SUBSET R
  OBVIOUS
<1>4. Sum(T \cup R) = Sum(T)
  <2>1. R \notin B
    <3> HIDE DEF B
    <3> QED
      BY <1>2
  <2> QED
    BY <1>3, <2>1
<1> QED
  BY <1>3, <1>4

\* Shares of an amount, each rounded down, come to no more than the amount.
LEMMA SharesAreCovered ==
  ASSUME NEW points, NEW share, NEW S, NEW amount, NEW total, IsFiniteSet(S), amount \in Nat,
         \A x \in S : points[x] \in Nat, total = SumFunctionOnSet(points, S), total # 0,
         \A x \in S : share[x] = (amount * points[x]) \div total
  PROVE  (\A x \in S : share[x] \in Nat) /\ SumFunctionOnSet(share, S) <= amount
<1> DEFINE parts == [x \in S |-> amount * points[x]]
           paid == [x \in S |-> total * share[x]]
           sum == SumFunctionOnSet(share, S)
<1>1. total \in Nat \ {0}
  BY SumIsNat
<1>2. ASSUME NEW x \in S
      PROVE  /\ share[x] \in Nat /\ parts[x] \in Nat /\ paid[x] \in Nat
             /\ parts[x] = amount * points[x] /\ paid[x] = total * share[x]
             /\ paid[x] <= parts[x]
  <2> DEFINE a == amount * points[x]
  <2>1. a \in Nat
    BY ProductIsNat
  <2>2. share[x] = a \div total
    OBVIOUS
  <2> HIDE DEF a
  <2>3. a \div total \in Nat /\ total * (a \div total) <= a
    BY <1>1, <2>1, QuotientRounds
  <2>4. total * share[x] \in Nat
    BY <1>1, <2>2, <2>3, ProductIsNat
  <2> QED
    BY <2>1, <2>2, <2>3, <2>4 DEF a
<1> HIDE DEF parts, paid
<1>3. SumFunctionOnSet(parts, S) = amount * total
  BY <1>2, SumOfMultiples
<1>4. SumFunctionOnSet(paid, S) = total * sum
  BY <1>1, <1>2, SumOfMultiples
<1>5. SumFunctionOnSet(paid, S) <= SumFunctionOnSet(parts, S)
  <2>1. \A x \in S : paid[x] \in Int /\ parts[x] \in Int /\ paid[x] <= parts[x]
    BY <1>2
  <2> QED
    BY <2>1, SumAtMost
<1>6. sum \in Nat
  BY <1>2, SumIsNat
<1> HIDE DEF sum
<1>7. total * sum <= total * amount
  BY <1>1, <1>3, <1>4, <1>5
<1>8. sum <= amount
  BY <1>1, <1>6, <1>7, Cancel
<1> QED
  BY <1>2, <1>8 DEF sum

\* One index more: a list that grew by an element adds that element.
LEMMA SumOfOneMore ==
  ASSUME NEW f, NEW g, NEW n \in Nat,
         \A i \in 1..n : f[i] \in Int /\ g[i] = f[i], g[n + 1] \in Int
  PROVE  SumFunctionOnSet(g, 1..(n + 1)) = SumFunctionOnSet(f, 1..n) + g[n + 1]
<1>1. IsFiniteSet(1..n)
  BY FS_Interval
<1>2. 1..(n + 1) = (1..n) \cup {n + 1} /\ n + 1 \notin 1..n
  OBVIOUS
<1>3. SumFunctionOnSet(f, 1..n) = SumFunctionOnSet(g, 1..n)
  BY <1>1, SumSame
<1>4. \A i \in (1..n) \cup {n + 1} : g[i] \in Int
  OBVIOUS
<1>5. SumFunctionOnSet(g, (1..n) \cup {n + 1}) = g[n + 1] + SumFunctionOnSet(g, 1..n)
  BY <1>1, <1>2, <1>4, SumWith
<1>6. SumFunctionOnSet(f, 1..n) \in Int
  BY <1>1, SumIsInt
<1>7. SumFunctionOnSet(g, 1..(n + 1)) = g[n + 1] + SumFunctionOnSet(f, 1..n)
  BY <1>2, <1>3, <1>5, Zenon
<1> DEFINE more == SumFunctionOnSet(g, 1..(n + 1))
           sum == SumFunctionOnSet(f, 1..n)
<1>8. more = g[n + 1] + sum /\ sum \in Int /\ g[n + 1] \in Int
  BY <1>6, <1>7
<1> HIDE DEF more, sum
<1>9. more = sum + g[n + 1]
  BY <1>8
<1>10. QED
  BY <1>9 DEF more, sum

\* Two values change: the sum changes by both.
LEMMA SumChangeTwo ==
  ASSUME NEW f, NEW g, NEW S, IsFiniteSet(S), NEW x \in S, NEW y \in S, x # y,
         \A z \in S : f[z] \in Int /\ g[z] \in Int,
         \A z \in S \ {x, y} : f[z] = g[z]
  PROVE  SumFunctionOnSet(g, S) = SumFunctionOnSet(f, S) + (g[x] - f[x]) + (g[y] - f[y])
<1> DEFINE h == [z \in S |-> IF z = x THEN g[x] ELSE f[z]]
<1>1. /\ \A z \in S : f[z] \in Int /\ h[z] \in Int
      /\ \A z \in S \ {x} : f[z] = h[z]
      /\ h[x] = g[x]
  OBVIOUS
<1>2. /\ \A z \in S : h[z] \in Int /\ g[z] \in Int
      /\ \A z \in S \ {y} : h[z] = g[z]
      /\ h[y] = f[y]
  OBVIOUS
<1> HIDE DEF h
<1>3. SumFunctionOnSet(h, S) = SumFunctionOnSet(f, S) + h[x] - f[x]
  BY <1>1, SumChange
<1>4. SumFunctionOnSet(g, S) = SumFunctionOnSet(h, S) + g[y] - h[y]
  BY <1>2, SumChange
<1>5. SumFunctionOnSet(f, S) \in Int
  BY SumIsInt
<1>6. /\ f[x] \in Int /\ f[y] \in Int /\ g[x] \in Int /\ g[y] \in Int
  OBVIOUS
<1>7. QED
  BY <1>1, <1>2, <1>3, <1>4, <1>5, <1>6

\* A finite set of integers has a least element.
LEMMA LeastOfFinite ==
  ASSUME NEW S, IsFiniteSet(S), S \subseteq Int, S # {}
  PROVE  \E x \in S : \A y \in S : x <= y
<1> DEFINE Below(x) == {y \in S : y <= x}
           B == {Below(x) : x \in S}
<1>1. B \subseteq SUBSET S
  OBVIOUS
<1>2. B # {}
  OBVIOUS
<1>3. PICK T \in B : \A U \in B : U \subseteq T => U = T
  <2> HIDE DEF B, Below
  <2>1. QED
    BY ONLY IsFiniteSet(S), <1>1, <1>2, LeastSubset
<1>4. PICK x \in S : T = Below(x)
  OBVIOUS
<1>5. ASSUME NEW y \in S, ~(x <= y) PROVE FALSE
  <2>1. y < x /\ x \in Int /\ y \in Int
    <3> HIDE DEF B, Below
    <3>1. x \in Int /\ y \in Int
      OBVIOUS
    <3>2. QED
      BY <1>5, <3>1
  <2>2. x \in Below(x) /\ x \notin Below(y)
    BY <2>1
  <2>3. ASSUME NEW z \in Below(y) PROVE z \in Below(x)
    <3>1. z \in S /\ z \in Int /\ z <= y
      OBVIOUS
    <3>2. z <= x
      BY <2>1, <3>1
    <3>3. QED
      BY <3>1, <3>2
  <2>4. Below(y) \in B
    OBVIOUS
  <2>5. Below(y) = Below(x)
    <3>1. Below(y) \subseteq T
      BY <1>4, <2>3
    <3>2. QED
      BY <1>3, <1>4, <2>4, <3>1
  <2>6. QED
    BY <2>2, <2>5
<1>6. QED
  BY <1>5

-----------------------------------------------------------------------------
(***************************************************************************)
(* Recursive functions.                                                    *)
(***************************************************************************)

\* The steps up to the last, one after the other; step[n][x] is what the n-th
\* makes of x.
IsIteration(g, base, last, step) ==
  g = [n \in 0..last |-> IF n = 0 THEN base ELSE step[n][g[n - 1]]]

\* Steps that stay within D can follow each other as often as one likes.
LEMMA Iteration ==
  ASSUME NEW D, NEW base \in D, NEW last \in Nat, NEW step,
         \A n \in 1..last, x \in D : step[n][x] \in D
  PROVE  \E g : IsIteration(g, base, last, step) /\ \A n \in 0..last : g[n] \in D
<1> DEFINE Runs(g, n) == /\ g = [m \in 0..n |-> IF m = 0 THEN base ELSE step[m][g[m - 1]]]
                         /\ \A m \in 0..n : g[m] \in D
           B == {n \in 0..last : ~ \E g : Runs(g, n)}
<1>1. ASSUME B # {} PROVE FALSE
  <2>1. PICK n \in B : \A m \in B : n <= m
    <3>1. IsFiniteSet(0..last)
      BY FS_Interval
    <3>2. IsFiniteSet(B)
      BY <3>1, FS_Subset
    <3>3. B \subseteq Int
      OBVIOUS
    <3> HIDE DEF B
    <3> QED
      BY <1>1, <3>2, <3>3, LeastOfFinite
  <2>2. CASE n = 0
    <3> DEFINE g == [m \in 0..0 |-> base]
    <3>1. \A m \in 0..0 : m = 0
      OBVIOUS
    <3>2. Runs(g, 0)
      BY <3>1
    <3> QED
      BY <2>2, <3>2
  <2>3. CASE n # 0
    <3>1. n - 1 \in 0..last /\ n - 1 \notin B /\ n \in Nat
      <4>1. n \in 0..last
        OBVIOUS
      <4> HIDE DEF B
      <4> QED
        BY <2>1, <2>3, <4>1
    <3>2. PICK h : Runs(h, n - 1)
      BY <3>1
    <3> DEFINE new == step[n][h[n - 1]]
               g == [m \in 0..n |-> IF m = n THEN new ELSE h[m]]
    <3>3. new \in D
      <4>1. n - 1 \in 0..(n - 1) /\ n \in 1..last
        BY <3>1, <2>3
      <4> QED
        BY <3>2, <4>1
    <3> HIDE DEF new
    <3>4. ASSUME NEW m \in 0..n
          PROVE  /\ g[m] = IF m = 0 THEN base ELSE step[m][g[m - 1]]
                 /\ g[m] \in D
      <4>1. CASE m = n
        <5>1. m - 1 \in 0..n /\ m - 1 # n
          BY <3>1, <4>1, <2>3
        <5>2. g[m] = new /\ g[m - 1] = h[n - 1]
          BY <4>1, <5>1
        <5> HIDE DEF g
        <5> QED
          BY <4>1, <5>2, <2>3, <3>3 DEF new
      <4>2. CASE m # n
        <5>1. m \in 0..(n - 1) /\ (m # 0 => m - 1 \in 0..n /\ m - 1 # n)
          BY <3>1, <4>2
        <5>2. g[m] = h[m] /\ (m # 0 => g[m - 1] = h[m - 1])
          BY <4>2, <5>1
        <5> HIDE DEF g
        <5>3. h[m] = (IF m = 0 THEN base ELSE step[m][h[m - 1]]) /\ h[m] \in D
          BY <3>2, <5>1
        <5> QED
          BY <5>2, <5>3
      <4> QED
        BY <4>1, <4>2
    <3>5. g = [m \in 0..n |-> g[m]]
      OBVIOUS
    <3> HIDE DEF g
    <3>6. Runs(g, n)
      BY <3>4, <3>5
    <3> QED
      BY <3>6
  <2> QED
    BY <2>2, <2>3
<1>2. last \notin B /\ last \in 0..last
  BY <1>1
<1> QED
  BY <1>2 DEF IsIteration

\* FlattenSeq's recursion.
Flat(f, ss) == f = [i \in 1..Len(ss) |-> IF i = 1 THEN ss[i] ELSE f[i - 1] \o ss[i]]

LEMMA FlattenIsFlat ==
  \A ss : FlattenSeq(ss) = IF Len(ss) = 0 THEN ss ELSE (CHOOSE f : Flat(f, ss))[Len(ss)]
BY DEF FlattenSeq, Flat

LEMMA FlatExists ==
  ASSUME NEW D, NEW S, S \subseteq Seq(D), <<>> \in S, \A s, t \in S : s \o t \in S,
         NEW ss, ss \in Seq(S)
  PROVE  \E f : Flat(f, ss) /\ \A i \in 1..Len(ss) : f[i] \in S
<1> DEFINE n == Len(ss)
           step == [i \in 1..n |-> [s \in S |-> s \o ss[i]]]
<1>1. n \in Nat /\ \A i \in 1..n : ss[i] \in S
  OBVIOUS
<1>2. \A i \in 1..n, s \in S : step[i][s] = s \o ss[i] /\ step[i][s] \in S
  BY <1>1
<1>3. <<>> \in S
  OBVIOUS
<1> HIDE DEF n, step
<1>4. PICK g : /\ g = [i \in 0..n |-> IF i = 0 THEN <<>> ELSE step[i][g[i - 1]]]
               /\ \A i \in 0..n : g[i] \in S
  <2>1. n \in Nat /\ <<>> \in S /\ \A i \in 1..n, s \in S : step[i][s] \in S
    BY <1>1, <1>2, <1>3
  <2>2. \E g : IsIteration(g, <<>>, n, step) /\ \A i \in 0..n : g[i] \in S
    BY ONLY <2>1, Iteration
  <2> QED
    BY <2>2 DEF IsIteration
<1> DEFINE f == [i \in 1..n |-> g[i]]
<1>5. ASSUME NEW i \in 1..n
      PROVE  g[i] = (IF i = 1 THEN ss[i] ELSE g[i - 1] \o ss[i]) /\ g[i] \in S
  <2>1. i \in 0..n /\ i - 1 \in 0..n /\ i # 0
    BY <1>1
  <2>2. g[i] = step[i][g[i - 1]] /\ g[i - 1] \in S /\ g[i] \in S
    BY <1>4, <2>1
  <2>3. g[i] = g[i - 1] \o ss[i]
    BY <1>2, <2>2
  <2>4. CASE i = 1
    <3>1. i - 1 = 0 /\ g[i - 1] = <<>>
      BY <1>1, <1>4, <2>4
    <3>2. <<>> \o ss[i] = ss[i]
      <4>1. ss[i] \in Seq(D)
        BY <1>1
      <4> QED
        BY <4>1
    <3>3. g[i] = <<>> \o ss[i]
      BY <2>3, <3>1
    <3>4. g[i] = ss[i]
      BY <3>2, <3>3
    <3> QED
      BY <2>2, <2>4, <3>4
  <2> QED
    BY <2>2, <2>3, <2>4
<1>6. \A i \in 1..n : /\ f[i] = g[i]
                      /\ i # 1 => f[i - 1] = g[i - 1]
  BY <1>1
<1>7. f = [i \in 1..n |-> f[i]]
  OBVIOUS
<1> HIDE DEF f
<1>8. \A i \in 1..n : f[i] = IF i = 1 THEN ss[i] ELSE f[i - 1] \o ss[i]
  BY <1>5, <1>6
<1>9. Flat(f, ss)
  BY <1>7, <1>8 DEF Flat, n
<1> QED
  BY <1>5, <1>6, <1>9 DEF n

\* What every sequence has and no concatenation loses, the flattened one has.
LEMMA FlattenStays ==
  ASSUME NEW D, NEW S, S \subseteq Seq(D), <<>> \in S, \A s, t \in S : s \o t \in S,
         NEW ss, ss \in Seq(S)
  PROVE  FlattenSeq(ss) \in S
<1> DEFINE n == Len(ss)
           f == CHOOSE g : Flat(g, ss)
           B == {k \in 1..n : f[k] \notin S}
<1>1. n \in Nat /\ DOMAIN ss = 1..n /\ \A i \in 1..n : ss[i] \in S
  OBVIOUS
<1>2. CASE n = 0
  <2>1. ss = <<>>
    BY <1>1, <1>2
  <2> QED
    BY <1>2, <2>1, FlattenIsFlat
<1>3. CASE n # 0
  <2>1. Flat(f, ss)
    <3>1. \E g : Flat(g, ss)
      BY FlatExists
    <3> QED
      BY <3>1, Zenon
  <2>2. FlattenSeq(ss) = f[n]
    BY <1>3, FlattenIsFlat
  <2> HIDE DEF f
  <2>3. \A i \in 1..n : f[i] = IF i = 1 THEN ss[i] ELSE f[i - 1] \o ss[i]
    BY <2>1 DEF Flat
  <2>4. ASSUME B # {} PROVE FALSE
    <3>1. PICK k \in B : \A m \in B : k <= m
      <4>1. IsFiniteSet(1..n)
        BY <1>1, FS_Interval
      <4>2. IsFiniteSet(B)
        BY <4>1, FS_Subset
      <4>3. B \subseteq Int
        OBVIOUS
      <4> HIDE DEF B
      <4> QED
        BY <2>4, <4>2, <4>3, LeastOfFinite
    <3>2. k \in 1..n /\ k # 1
      BY <1>1, <2>3
    <3>3. k - 1 \in 1..n /\ k - 1 \notin B
      BY <1>1, <3>1, <3>2
    <3>4. f[k - 1] \in S /\ ss[k] \in S
      BY <1>1, <3>2, <3>3
    <3>5. f[k] = f[k - 1] \o ss[k]
      BY <2>3, <3>2
    <3>6. f[k] \in S
      BY ONLY <3>4, <3>5, \A s, t \in S : s \o t \in S
    <3> QED
      BY <3>1, <3>6
  <2>5. n \in 1..n /\ n \notin B
    BY <1>1, <1>3, <2>4
  <2> QED
    BY <2>2, <2>5
<1> QED
  BY <1>2, <1>3

\* Concatenation is associative.
LEMMA ConcatInARow ==
  ASSUME NEW D, NEW u \in Seq(D), NEW v \in Seq(D), NEW w \in Seq(D)
  PROVE  u \o (v \o w) = (u \o v) \o w
<1> DEFINE s == u \o (v \o w)
           t == (u \o v) \o w
<1>1. /\ Len(u) \in Nat /\ Len(v) \in Nat /\ Len(w) \in Nat
      /\ v \o w \in Seq(D) /\ Len(v \o w) = Len(v) + Len(w)
      /\ u \o v \in Seq(D) /\ Len(u \o v) = Len(u) + Len(v)
  OBVIOUS
<1>2. /\ s \in Seq(D) /\ Len(s) = Len(u) + (Len(v) + Len(w))
      /\ t \in Seq(D) /\ Len(t) = (Len(u) + Len(v)) + Len(w)
  BY <1>1
<1>3. ASSUME NEW i \in 1..Len(s) PROVE s[i] = t[i]
  <2>1. CASE i <= Len(u)
    BY <1>1, <1>2, <2>1
  <2>2. CASE i > Len(u) /\ i <= Len(u) + Len(v)
    BY <1>1, <1>2, <2>2
  <2>3. CASE i > Len(u) + Len(v)
    <3> DEFINE j == i - Len(u)
    <3>1. j \in 1..(Len(v) + Len(w)) /\ j > Len(v)
      BY <1>1, <1>2, <2>3
    <3>2. s[i] = (v \o w)[j]
      BY <1>1, <1>2, <3>1
    <3>3. (v \o w)[j] = w[j - Len(v)]
      BY <1>1, <3>1
    <3>4. t[i] = w[i - (Len(u) + Len(v))]
      BY <1>1, <1>2, <2>3
    <3> QED
      BY <1>1, <1>2, <3>2, <3>3, <3>4
  <2> QED
    BY <1>1, <1>2, <2>1, <2>2, <2>3
<1> HIDE DEF s, t
<1>4. s = t
  BY <1>1, <1>2, <1>3, SeqEqual
<1> QED
  BY <1>4 DEF s, t

\* What holds of a sequence, and then of it with each further part appended,
\* holds of it with the flattened ones.
LEMMA FlattenAppends ==
  ASSUME NEW D, NEW ss \in Seq(Seq(D)), NEW s \in Seq(D), NEW S, s \in S[0],
         \A i \in 1..Len(ss) : \A t \in Seq(D) : t \in S[i - 1] => t \o ss[i] \in S[i]
  PROVE  s \o FlattenSeq(ss) \in S[Len(ss)]
<1> DEFINE n == Len(ss)
           f == CHOOSE g : Flat(g, ss)
           B == {k \in 1..n : ~(f[k] \in Seq(D) /\ s \o f[k] \in S[k])}
<1>0. \A u, v, w \in Seq(D) : u \o (v \o w) = (u \o v) \o w
  <2> SUFFICES ASSUME NEW u \in Seq(D), NEW v \in Seq(D), NEW w \in Seq(D)
               PROVE  u \o (v \o w) = (u \o v) \o w
    OBVIOUS
  <2> QED
    BY ONLY u \in Seq(D), v \in Seq(D), w \in Seq(D), ConcatInARow
<1>1. n \in Nat /\ DOMAIN ss = 1..n /\ \A i \in 1..n : ss[i] \in Seq(D)
  OBVIOUS
<1>2. CASE n = 0
  <2>1. ss = <<>>
    BY <1>1, <1>2
  <2>2. FlattenSeq(ss) = <<>>
    BY <1>2, <2>1, FlattenIsFlat
  <2>3. s \o <<>> = s
    OBVIOUS
  <2> QED
    BY <1>2, <2>2, <2>3
<1>3. CASE n # 0
  <2>1. Flat(f, ss)
    <3>1. \E g : Flat(g, ss)
      <4>1. Seq(D) \subseteq Seq(D) /\ <<>> \in Seq(D) /\ \A t, u \in Seq(D) : t \o u \in Seq(D)
        OBVIOUS
      <4> QED
        BY <4>1, FlatExists
    <3> QED
      BY <3>1, Zenon
  <2>2. FlattenSeq(ss) = f[n]
    BY <1>3, FlattenIsFlat
  <2> HIDE DEF f
  <2>3. \A i \in 1..n : f[i] = IF i = 1 THEN ss[i] ELSE f[i - 1] \o ss[i]
    BY <2>1 DEF Flat
  <2>4. ASSUME B # {} PROVE FALSE
    <3>1. PICK k \in B : \A m \in B : k <= m
      <4>1. IsFiniteSet(1..n)
        BY <1>1, FS_Interval
      <4>2. IsFiniteSet(B)
        BY <4>1, FS_Subset
      <4>3. B \subseteq Int
        OBVIOUS
      <4> HIDE DEF B
      <4> QED
        BY <2>4, <4>2, <4>3, LeastOfFinite
    <3>2. k \in 1..n /\ ss[k] \in Seq(D)
      BY <1>1
    <3>3. CASE k = 1
      <4>1. f[1] = ss[1] /\ k - 1 = 0
        BY <1>1, <2>3, <3>2, <3>3
      <4>2. s \o ss[1] \in S[1]
        BY <3>2, <3>3, <4>1
      <4> QED
        BY <3>1, <3>2, <3>3, <4>1, <4>2
    <3>4. CASE k # 1
      <4>1. k - 1 \in 1..n /\ k - 1 \notin B
        BY <1>1, <3>1, <3>2, <3>4
      <4> DEFINE t == s \o f[k - 1]
      <4>2. f[k - 1] \in Seq(D) /\ t \in S[k - 1] /\ t \in Seq(D)
        BY <4>1
      <4>3. f[k] = f[k - 1] \o ss[k]
        BY <2>3, <3>2, <3>4
      <4>4. s \o f[k] = t \o ss[k]
        <5>1. s \in Seq(D) /\ f[k - 1] \in Seq(D) /\ ss[k] \in Seq(D)
          BY <3>2, <4>2
        <5>2. \A v, w \in Seq(D) : s \o (v \o w) = (s \o v) \o w
          BY <1>0
        <5> QED
          BY ONLY <4>3, <5>1, <5>2 DEF t
      <4>5. f[k] \in Seq(D)
        BY <3>2, <4>2, <4>3
      <4> HIDE DEF t
      <4>6. t \o ss[k] \in S[k]
        BY <3>2, <4>2
      <4> QED
        BY <3>1, <4>4, <4>5, <4>6
    <3> QED
      BY <3>3, <3>4
  <2>5. n \in 1..n /\ n \notin B
    BY <1>1, <1>3, <2>4
  <2> QED
    BY <2>2, <2>5
<1> QED
  BY <1>2, <1>3
=============================================================================
