----------------------------- MODULE USTNProofs -----------------------------
(***************************************************************************)
(* Proofs about the USTN bank with its token and its auctions: its types,  *)
(* and that what it may lend, the interest it counts, the UNIT it holds    *)
(* and the supply of the token agree with its books.                       *)
(***************************************************************************)
EXTENDS USTNSale, Sums, SequenceTheorems, TLAPS

-----------------------------------------------------------------------------
(***************************************************************************)
(* Sums over sequences: v says what an element counts.                     *)
(***************************************************************************)

\* F maps D to R, whatever else it does.
Maps(F, D, R) == \A x \in D : F[x] \in R

SumSeq(v, s) == SumFunctionOnSet([i \in DOMAIN s |-> v[s[i]]], DOMAIN s)

LEMMA Elements ==
  ASSUME NEW D, NEW v, NEW s, Maps(v, D, Int), s \in Seq(D)
  PROVE  /\ Len(s) \in Nat /\ DOMAIN s = 1..Len(s) /\ IsFiniteSet(DOMAIN s)
         /\ \A i \in DOMAIN s : s[i] \in D /\ [j \in DOMAIN s |-> v[s[j]]][i] \in Int
         /\ SumSeq(v, s) \in Int
<1>1. Len(s) \in Nat /\ DOMAIN s = 1..Len(s)
  OBVIOUS
<1>2. IsFiniteSet(DOMAIN s)
  BY <1>1, FS_Interval
<1>3. \A i \in DOMAIN s : s[i] \in D
  OBVIOUS
<1>4. \A i \in DOMAIN s : [j \in DOMAIN s |-> v[s[j]]][i] \in Int
  BY <1>3 DEF Maps
<1>5. SumSeq(v, s) \in Int
  BY <1>2, <1>4, SumIsInt DEF SumSeq
<1> QED
  BY <1>1, <1>2, <1>3, <1>4, <1>5

LEMMA SeqSumIsNat ==
  ASSUME NEW D, NEW v, NEW s, Maps(v, D, Nat), s \in Seq(D)
  PROVE  SumSeq(v, s) \in Nat
<1>1. IsFiniteSet(DOMAIN s)
  <2>1. Len(s) \in Nat /\ DOMAIN s = 1..Len(s)
    OBVIOUS
  <2> QED
    BY <2>1, FS_Interval
<1>2. \A i \in DOMAIN s : s[i] \in D
  OBVIOUS
<1>3. \A i \in DOMAIN s : [j \in DOMAIN s |-> v[s[j]]][i] \in Nat
  BY <1>2 DEF Maps
<1> QED
  BY <1>1, <1>3, SumIsNat DEF SumSeq

\* No elements, or one.
LEMMA ShortSums ==
  ASSUME NEW D, NEW v, NEW x, Maps(v, D, Int), x \in D
  PROVE  SumSeq(v, <<>>) = 0 /\ SumSeq(v, <<x>>) = v[x]
<1>1. SumSeq(v, <<>>) = 0
  <2>1. DOMAIN <<>> = {}
    OBVIOUS
  <2> QED
    BY <2>1, SumOfNone DEF SumSeq
<1>2. SumSeq(v, <<x>>) = v[x]
  <2> DEFINE f == [i \in DOMAIN <<x>> |-> v[<<x>>[i]]]
  <2>1. DOMAIN <<x>> = {1} /\ f[1] = v[x] /\ f[1] \in Int
    BY DEF Maps
  <2>2. SumSeq(v, <<x>>) = SumFunctionOnSet(f, {1})
    BY <2>1 DEF SumSeq
  <2> HIDE DEF f
  <2>3. SumFunctionOnSet(f, {1}) = f[1] + SumFunctionOnSet(f, {1} \ {1})
    <3>1. IsFiniteSet({1})
      BY FS_Singleton
    <3>2. 1 \in {1} /\ \A i \in {1} : f[i] \in Int
      BY <2>1
    <3> QED
      BY <3>1, <3>2, SumWithout
  <2>4. {1} \ {1} = {}
    OBVIOUS
  <2>5. SumFunctionOnSet(f, {1} \ {1}) = 0
    BY <2>4, SumOfNone
  <2> QED
    BY <2>1, <2>2, <2>3, <2>5
<1> QED
  BY <1>1, <1>2

LEMMA SumOfAppended ==
  ASSUME NEW D, NEW v, NEW s, NEW x, Maps(v, D, Int), s \in Seq(D), x \in D
  PROVE  SumSeq(v, Append(s, x)) = SumSeq(v, s) + v[x]
<1> DEFINE t == Append(s, x)
           n == Len(s)
           f == [i \in DOMAIN s |-> v[s[i]]]
           g == [i \in DOMAIN t |-> v[t[i]]]
<1>1. /\ n \in Nat /\ DOMAIN s = 1..n /\ DOMAIN t = 1..(n + 1)
      /\ t[n + 1] = x /\ \A i \in 1..n : t[i] = s[i] /\ s[i] \in D
  OBVIOUS
<1>2. n + 1 \in 1..(n + 1) /\ \A i \in 1..n : i \in 1..(n + 1)
  BY <1>1
<1> HIDE DEF t, n
<1>3. /\ \A i \in 1..n : f[i] \in Int /\ g[i] = f[i]
      /\ g[n + 1] = v[x] /\ g[n + 1] \in Int
  BY <1>1, <1>2 DEF Maps
<1>4. SumSeq(v, s) = SumFunctionOnSet(f, 1..n) /\ SumSeq(v, t) = SumFunctionOnSet(g, 1..(n + 1))
  BY <1>1 DEF SumSeq
<1> HIDE DEF f, g
<1>5. SumFunctionOnSet(g, 1..(n + 1)) = SumFunctionOnSet(f, 1..n) + g[n + 1]
  <2>1. g[n + 1] \in Int
    BY <1>3
  <2>2. \A i \in 1..n : f[i] \in Int /\ g[i] = f[i]
    BY <1>3
  <2> QED
    BY <1>1, <2>1, <2>2, SumOfOneMore
<1> QED
  BY <1>3, <1>4, <1>5 DEF t

\* t is s with y in place of its element x at k.
Replaced(s, t, k, x, y) ==
  /\ k \in DOMAIN s /\ DOMAIN t = DOMAIN s
  /\ s[k] = x /\ t[k] = y
  /\ \A i \in DOMAIN s \ {k} : t[i] = s[i]

LEMMA SumOfReplaced ==
  ASSUME NEW D, NEW v, NEW s, NEW t, NEW k, NEW x, NEW y, Maps(v, D, Int), s \in Seq(D),
         t \in Seq(D), Replaced(s, t, k, x, y)
  PROVE  SumSeq(v, t) = SumSeq(v, s) + v[y] - v[x]
<1> DEFINE S == DOMAIN s
           f == [i \in DOMAIN s |-> v[s[i]]]
           g == [i \in DOMAIN t |-> v[t[i]]]
<1>0. /\ k \in DOMAIN s /\ DOMAIN t = DOMAIN s
      /\ s[k] = x /\ t[k] = y
      /\ \A i \in DOMAIN s \ {k} : t[i] = s[i]
  BY DEF Replaced
<1>1. IsFiniteSet(S) /\ k \in S
  BY <1>0, Elements
<1>2. \A i \in S : f[i] \in Int
  BY Elements
<1>3. \A i \in S : g[i] \in Int
  BY <1>0, Elements
<1>4. /\ \A i \in S \ {k} : f[i] = g[i]
      /\ f[k] = v[x] /\ g[k] = v[y]
  BY <1>0
<1>5. SumSeq(v, s) = SumFunctionOnSet(f, S) /\ SumSeq(v, t) = SumFunctionOnSet(g, S)
  BY <1>0 DEF SumSeq
<1> HIDE DEF f, g, S
<1>6. SumFunctionOnSet(g, S) = SumFunctionOnSet(f, S) + g[k] - f[k]
  BY <1>1, <1>2, <1>3, <1>4, SumChange
<1> QED
  BY <1>4, <1>5, <1>6

LEMMA SumOfConcat ==
  ASSUME NEW D, NEW v, NEW s, NEW t, Maps(v, D, Int), s \in Seq(D), t \in Seq(D)
  PROVE  s \o t \in Seq(D) /\ SumSeq(v, s \o t) = SumSeq(v, s) + SumSeq(v, t)
<1> DEFINE u == s \o t
           n == Len(s)
           f == [i \in DOMAIN s |-> v[s[i]]]
           g == [i \in DOMAIN t |-> v[t[i]]]
           h == [i \in DOMAIN u |-> v[u[i]]]
           B == {k \in 0..Len(t) : SumFunctionOnSet(h, 1..(n + k))
                                     # SumFunctionOnSet(f, 1..n) + SumFunctionOnSet(g, 1..k)}
<1>1. u \in Seq(D)
  BY ConcatProperties
<1>2. /\ n \in Nat /\ Len(t) \in Nat
      /\ DOMAIN s = 1..n /\ DOMAIN t = 1..Len(t) /\ DOMAIN u = 1..(n + Len(t))
      /\ \A i \in 1..n : u[i] = s[i]
      /\ \A k \in 1..Len(t) : u[n + k] = t[k] /\ n + k \in DOMAIN u
  OBVIOUS
<1>3. \A i \in 1..n : f[i] \in Int
  BY <1>2, Elements
<1>4. \A i \in 1..Len(t) : g[i] \in Int
  BY <1>2, Elements
<1>5. \A i \in 1..(n + Len(t)) : h[i] \in Int
  BY <1>1, <1>2, Elements
<1>6. /\ \A i \in 1..n : h[i] = f[i]
      /\ \A k \in 1..Len(t) : h[n + k] = g[k]
  <2>1. \A i \in 1..n : i \in DOMAIN u
    BY <1>2
  <2> HIDE DEF u, n
  <2> QED
    BY <1>2, <2>1
<1>7. /\ SumSeq(v, s) = SumFunctionOnSet(f, 1..n) /\ SumSeq(v, t) = SumFunctionOnSet(g, 1..Len(t))
      /\ SumSeq(v, u) = SumFunctionOnSet(h, 1..(n + Len(t)))
  BY <1>2 DEF SumSeq
<1> HIDE DEF u, n, f, g, h
<1>8. ASSUME B # {} PROVE FALSE
  <2>1. PICK k \in B : \A m \in B : k <= m
    <3>1. IsFiniteSet(0..Len(t))
      BY <1>2, FS_Interval
    <3>2. IsFiniteSet(B)
      BY <3>1, FS_Subset
    <3>3. B \subseteq Int
      OBVIOUS
    <3> HIDE DEF B
    <3> QED
      BY <1>8, <3>2, <3>3, LeastOfFinite
  <2>2. k \in 0..Len(t) /\ k \in Nat
    BY <1>2
  <2>3. SumFunctionOnSet(f, 1..n) \in Int
    <3>1. IsFiniteSet(1..n)
      BY <1>2, FS_Interval
    <3> QED
      BY <1>3, <3>1, SumIsInt
  <2>4. CASE k = 0
    <3>1. 1..k = {} /\ n + k = n
      BY <1>2, <2>4
    <3>2. SumFunctionOnSet(g, 1..k) = 0
      BY <3>1, SumOfNone
    <3>3. SumFunctionOnSet(h, 1..n) = SumFunctionOnSet(f, 1..n)
      <4>1. IsFiniteSet(1..n)
        BY <1>2, FS_Interval
      <4> QED
        BY <1>6, <4>1, SumSame
    <3> QED
      BY <2>1, <2>3, <3>1, <3>2, <3>3
  <2>5. CASE k # 0
    <3> DEFINE j == k - 1
    <3>1. j \in Nat /\ j \in 0..Len(t) /\ k = j + 1 /\ n + j \in Nat /\ n + k = (n + j) + 1
      BY <1>2, <2>2, <2>5
    <3>2. j \notin B
      <4> HIDE DEF B
      <4> QED
        BY <2>1, <3>1
    <3>3. SumFunctionOnSet(h, 1..(n + j)) = SumFunctionOnSet(f, 1..n) + SumFunctionOnSet(g, 1..j)
      BY <3>1, <3>2
    <3> HIDE DEF j, B
    <3>4. k \in 1..Len(t) /\ h[n + k] = g[k] /\ g[k] \in Int /\ h[n + k] \in Int
      <4>1. k \in 1..Len(t)
        BY <1>2, <2>2, <2>5
      <4> QED
        BY <4>1, <1>4, <1>6
    <3>5. SumFunctionOnSet(g, 1..k) = SumFunctionOnSet(g, 1..j) + g[k]
      <4>1. \A i \in 1..j : g[i] \in Int /\ g[i] = g[i]
        BY <1>2, <1>4, <2>2, <3>1
      <4>2. g[j + 1] \in Int
        BY <3>1, <3>4
      <4>3. SumFunctionOnSet(g, 1..(j + 1)) = SumFunctionOnSet(g, 1..j) + g[j + 1]
        BY <3>1, <4>1, <4>2, SumOfOneMore
      <4> QED
        BY <3>1, <4>3
    <3>6. SumFunctionOnSet(h, 1..(n + k)) = SumFunctionOnSet(h, 1..(n + j)) + h[n + k]
      <4>1. \A i \in 1..(n + j) : h[i] \in Int /\ h[i] = h[i]
        BY <1>2, <1>5, <2>2, <3>1
      <4>2. h[(n + j) + 1] \in Int
        BY <3>1, <3>4
      <4>3. SumFunctionOnSet(h, 1..((n + j) + 1)) = SumFunctionOnSet(h, 1..(n + j)) + h[(n + j) + 1]
        BY <3>1, <4>1, <4>2, SumOfOneMore
      <4> QED
        BY <3>1, <4>3
    <3>7. SumFunctionOnSet(g, 1..j) \in Int
      <4>1. IsFiniteSet(1..j)
        BY <3>1, FS_Interval
      <4>2. \A i \in 1..j : g[i] \in Int
        BY <1>2, <1>4, <2>2, <3>1
      <4> QED
        BY <4>1, <4>2, SumIsInt
    <3>8. SumFunctionOnSet(h, 1..(n + k)) = SumFunctionOnSet(f, 1..n) + SumFunctionOnSet(g, 1..k)
      BY <2>3, <3>3, <3>4, <3>5, <3>6, <3>7
    <3> QED
      BY <2>1, <3>8 DEF B
  <2> QED
    BY <2>4, <2>5
<1>9. Len(t) \in 0..Len(t) /\ Len(t) \notin B
  BY <1>2, <1>8
<1>10. SumFunctionOnSet(h, 1..(n + Len(t)))
         = SumFunctionOnSet(f, 1..n) + SumFunctionOnSet(g, 1..Len(t))
  BY <1>9
<1> QED
  BY <1>1, <1>7, <1>10 DEF u

\* The sum over a flattened sequence is the sum of the sums.
LEMMA SumOfFlattened ==
  ASSUME NEW D, NEW v, NEW ss, Maps(v, D, Int), ss \in Seq(Seq(D))
  PROVE  /\ FlattenSeq(ss) \in Seq(D)
         /\ SumSeq(v, FlattenSeq(ss))
              = SumFunctionOnSet([m \in DOMAIN ss |-> SumSeq(v, ss[m])], DOMAIN ss)
<1>0. \A s, t \in Seq(D) : s \o t \in Seq(D) /\ SumSeq(v, s \o t) = SumSeq(v, s) + SumSeq(v, t)
  BY SumOfConcat
<1> DEFINE n == Len(ss)
           s == [m \in DOMAIN ss |-> SumSeq(v, ss[m])]
           f == CHOOSE g : Flat(g, ss)
           B == {k \in 1..n : ~ /\ f[k] \in Seq(D)
                                /\ SumSeq(v, f[k]) = SumFunctionOnSet(s, 1..k)}
<1>1. n \in Nat /\ DOMAIN ss = 1..n /\ \A i \in 1..n : ss[i] \in Seq(D)
  OBVIOUS
<1>2. \A m \in 1..n : s[m] = SumSeq(v, ss[m]) /\ s[m] \in Int
  BY <1>1, Elements
<1>3. CASE n = 0
  <2>1. ss = <<>> /\ DOMAIN ss = {}
    BY <1>1, <1>3
  <2>2. FlattenSeq(ss) = <<>>
    BY <1>3, <2>1, FlattenIsFlat
  <2>3. SumSeq(v, <<>>) = 0
    <3>1. DOMAIN <<>> = {}
      OBVIOUS
    <3> QED
      BY <3>1, SumOfNone DEF SumSeq
  <2>4. SumFunctionOnSet(s, DOMAIN ss) = 0
    <3> HIDE DEF s
    <3> QED
      BY <2>1, SumOfNone
  <2> QED
    BY <2>2, <2>3, <2>4
<1>4. CASE n # 0
  <2>1. Flat(f, ss)
    <3>1. \E g : Flat(g, ss)
      <4>1. <<>> \in Seq(D) /\ \A t, u \in Seq(D) : t \o u \in Seq(D)
        BY ConcatProperties
      <4> QED
        BY <4>1, FlatExists
    <3> QED
      BY <3>1, Zenon
  <2>2. FlattenSeq(ss) = f[n]
    BY <1>4, FlattenIsFlat
  <2> HIDE DEF f, s
  <2>3. \A i \in 1..n : f[i] = IF i = 1 THEN ss[i] ELSE f[i - 1] \o ss[i]
    BY <2>1 DEF Flat
  <2>4. ASSUME B # {} PROVE FALSE
    <3>1. PICK k \in B : \A m \in B : k <= m
      <4>1. IsFiniteSet(1..n)
        BY <1>1, FS_Interval
      <4>2. IsFiniteSet(B)
        BY <4>1, FS_Subset
      <4>3. B \subseteq Int
        OBVIOUS
      <4> HIDE DEF B
      <4> QED
        BY <2>4, <4>2, <4>3, LeastOfFinite
    <3>2. k \in 1..n /\ k \in Nat
      BY <1>1
    <3>3. CASE k = 1
      <4>1. f[k] = ss[k] /\ ss[k] \in Seq(D) /\ s[1] \in Int /\ s[1] = SumSeq(v, ss[k])
        BY <1>1, <1>2, <2>3, <3>2, <3>3
      <4>2. SumFunctionOnSet(s, 1..1) = s[1]
        <5>1. 1..1 = {1} /\ {1} \ {1} = {}
          OBVIOUS
        <5>2. IsFiniteSet({1}) /\ 1 \in {1} /\ \A i \in {1} : s[i] \in Int
          BY <4>1, FS_Singleton
        <5>3. SumFunctionOnSet(s, {1}) = s[1] + SumFunctionOnSet(s, {1} \ {1})
          BY <5>2, SumWithout
        <5>4. SumFunctionOnSet(s, {1} \ {1}) = 0
          BY <5>1, SumOfNone
        <5> QED
          BY <4>1, <5>1, <5>3, <5>4
      <4>3. SumSeq(v, f[k]) = SumFunctionOnSet(s, 1..k)
        BY <3>3, <4>1, <4>2
      <4> QED
        BY <3>1, <4>1, <4>3
    <3>4. CASE k # 1
      <4> DEFINE j == k - 1
      <4>1. j \in Nat /\ j \in 1..n /\ k = j + 1 /\ \A i \in 1..j : i \in 1..n
        BY <1>1, <3>2, <3>4
      <4>2. j \notin B
        <5> HIDE DEF B
        <5> QED
          BY <3>1, <4>1
      <4>3. f[j] \in Seq(D) /\ SumSeq(v, f[j]) = SumFunctionOnSet(s, 1..j)
        BY <4>1, <4>2
      <4>4. f[k] = f[j] \o ss[k] /\ ss[k] \in Seq(D)
        BY <1>1, <2>3, <3>2, <3>4
      <4> HIDE DEF j
      <4>5. f[k] \in Seq(D) /\ SumSeq(v, f[k]) = SumSeq(v, f[j]) + SumSeq(v, ss[k])
        <5>1. f[j] \in Seq(D) /\ ss[k] \in Seq(D)
          BY <4>3, <4>4
        <5>2. /\ f[j] \o ss[k] \in Seq(D)
              /\ SumSeq(v, f[j] \o ss[k]) = SumSeq(v, f[j]) + SumSeq(v, ss[k])
          BY <1>0, <5>1
        <5> QED
          BY <4>4, <5>2
      <4>6. SumFunctionOnSet(s, 1..(j + 1)) = SumFunctionOnSet(s, 1..j) + s[j + 1]
        <5>1. \A i \in 1..j : s[i] \in Int /\ s[i] = s[i]
          BY <1>2, <4>1
        <5>2. s[j + 1] \in Int
          BY <1>2, <3>2, <4>1
        <5> QED
          BY <4>1, <5>1, <5>2, SumOfOneMore
      <4>7. s[k] = SumSeq(v, ss[k])
        BY <1>2, <3>2
      <4>8. SumSeq(v, f[k]) = SumFunctionOnSet(s, 1..k)
        BY <4>1, <4>3, <4>5, <4>6, <4>7
      <4> QED
        BY <3>1, <4>5, <4>8
    <3> QED
      BY <3>3, <3>4
  <2>5. n \in 1..n /\ n \notin B
    <3>1. n \in 1..n
      BY <1>1, <1>4
    <3> HIDE DEF B
    <3> QED
      BY <2>4, <3>1
  <2>6. f[n] \in Seq(D) /\ SumSeq(v, f[n]) = SumFunctionOnSet(s, 1..n)
    BY <2>5
  <2> QED
    BY <1>1, <2>2, <2>6 DEF s
<1> QED
  BY <1>3, <1>4

\* What F makes of the elements, one by one, and what that counts.
Mapped(F, s) == [i \in DOMAIN s |-> F[s[i]]]
Weight(D, w, F) == [x \in D |-> w[F[x]]]

LEMMA MappedIsSeq ==
  ASSUME NEW D, NEW R, NEW F, NEW s, Maps(F, D, R), s \in Seq(D)
  PROVE  Mapped(F, s) \in Seq(R) /\ DOMAIN Mapped(F, s) = DOMAIN s
<1>1. Len(s) \in Nat /\ DOMAIN s = 1..Len(s) /\ \A i \in DOMAIN s : s[i] \in D
  OBVIOUS
<1>2. Mapped(F, s) \in [1..Len(s) -> R] /\ DOMAIN Mapped(F, s) = DOMAIN s
  BY <1>1 DEF Mapped, Maps
<1>3. Mapped(F, s) \in Seq(R)
  BY <1>1, <1>2, SeqDef
<1> QED
  BY <1>2, <1>3

LEMMA SumOfMapped ==
  ASSUME NEW D, NEW R, NEW F, NEW s, NEW w, Maps(F, D, R), s \in Seq(D)
  PROVE  SumSeq(w, Mapped(F, s)) = SumSeq(Weight(D, w, F), s)
<1> DEFINE t == Mapped(F, s)
           wF == Weight(D, w, F)
<1>1. \A i \in DOMAIN s : s[i] \in D
  OBVIOUS
<1>2. DOMAIN t = DOMAIN s /\ [i \in DOMAIN s |-> wF[s[i]]] = [i \in DOMAIN t |-> w[t[i]]]
  BY <1>1 DEF Mapped, Weight
<1> QED
  BY <1>2 DEF SumSeq

\* Two weights that make up a third.
LEMMA SumOfWeights ==
  ASSUME NEW D, NEW s, NEW v, NEW w, NEW both, s \in Seq(D), Maps(v, D, Int),
         Maps(w, D, Int), Maps(both, D, Int), \A x \in D : both[x] = v[x] + w[x]
  PROVE  SumSeq(both, s) = SumSeq(v, s) + SumSeq(w, s)
<1> DEFINE f == [i \in DOMAIN s |-> v[s[i]]]
           g == [i \in DOMAIN s |-> w[s[i]]]
           h == [i \in DOMAIN s |-> both[s[i]]]
<1>1. IsFiniteSet(DOMAIN s)
  BY Elements
<1>2. \A i \in DOMAIN s : s[i] \in D
  OBVIOUS
<1>3. \A i \in DOMAIN s : f[i] \in Int /\ g[i] \in Int /\ h[i] = f[i] + g[i]
  BY <1>2 DEF Maps
<1> HIDE DEF f, g, h
<1>4. SumFunctionOnSet(h, DOMAIN s) = SumFunctionOnSet(f, DOMAIN s) + SumFunctionOnSet(g, DOMAIN s)
  BY <1>1, <1>3, SumOfSums
<1> QED
  BY <1>4 DEF SumSeq, f, g, h

\* Weights that agree.
LEMMA SameWeights ==
  ASSUME NEW D, NEW s, NEW v, NEW w, s \in Seq(D), \A x \in D : v[x] = w[x]
  PROVE  SumSeq(v, s) = SumSeq(w, s)
<1>1. \A i \in DOMAIN s : s[i] \in D
  OBVIOUS
<1>2. [i \in DOMAIN s |-> v[s[i]]] = [i \in DOMAIN s |-> w[s[i]]]
  BY <1>1
<1> QED
  BY <1>2 DEF SumSeq

-----------------------------------------------------------------------------
(***************************************************************************)
(* The loans of the bank, from the list of its borrowers and their loans.  *)
(***************************************************************************)

LoansOf(users, accounts) == FlattenSeq([m \in DOMAIN users |-> accounts[users[m]]])

\* What the loans of each borrower count.
Subtotals(v, users, accounts) == [m \in DOMAIN users |-> SumSeq(v, accounts[users[m]])]

\* Borrower by borrower.
LEMMA SumByBorrower ==
  ASSUME NEW U, NEW D, NEW v, NEW users, NEW accounts, Maps(v, D, Int),
         users \in Seq(U), Maps(accounts, U, Seq(D))
  PROVE  /\ LoansOf(users, accounts) \in Seq(D)
         /\ SumSeq(v, LoansOf(users, accounts))
              = SumFunctionOnSet(Subtotals(v, users, accounts), DOMAIN users)
<1> DEFINE ss == Mapped(accounts, users)
           S == Seq(D)
<1>1. Maps(accounts, U, S)
  OBVIOUS
<1> HIDE DEF S
<1>2. ss \in Seq(S) /\ DOMAIN ss = DOMAIN users
  <2>1. Mapped(accounts, users) \in Seq(S) /\ DOMAIN Mapped(accounts, users) = DOMAIN users
    BY <1>1, MappedIsSeq
  <2> QED
    BY <2>1
<1>3. /\ FlattenSeq(ss) \in Seq(D)
      /\ SumSeq(v, FlattenSeq(ss))
           = SumFunctionOnSet([m \in DOMAIN ss |-> SumSeq(v, ss[m])], DOMAIN ss)
  <2> HIDE DEF ss
  <2>1. ss \in Seq(Seq(D))
    BY <1>2 DEF S
  <2> QED
    BY <2>1, SumOfFlattened
<1>4. [m \in DOMAIN ss |-> SumSeq(v, ss[m])] = Subtotals(v, users, accounts)
  BY <1>2 DEF Subtotals, Mapped
<1>5. LoansOf(users, accounts) = FlattenSeq(ss)
  BY DEF LoansOf, Mapped
<1> QED
  BY <1>2, <1>3, <1>4, <1>5

\* A list of users with u on it.
LEMMA Enlisted ==
  ASSUME NEW U, NEW users, NEW u, users \in Seq(U), IsInjective(users), u \in U
  PROVE  /\ Enlist(users, u) \in Seq(U) /\ IsInjective(Enlist(users, u))
         /\ Range(Enlist(users, u)) = Range(users) \cup {u}
         /\ u \in Range(users) => Enlist(users, u) = users
         /\ u \notin Range(users) => Enlist(users, u) = Append(users, u)
<1> DEFINE n == Len(users)
<1>1. n \in Nat /\ DOMAIN users = 1..n /\ \A m \in 1..n : users[m] \in U
  OBVIOUS
<1>2. \A m, k \in 1..n : users[m] = users[k] => m = k
  BY <1>1 DEF IsInjective
<1>3. Range(users) = {users[m] : m \in 1..n}
  BY <1>1 DEF Range
<1> HIDE DEF n
<1>4. CASE u \in Range(users)
  <2>1. Enlist(users, u) = users
    BY <1>3, <1>4, <1>1 DEF Enlist, Contains
  <2> QED
    BY <1>4, <2>1
<1>5. CASE u \notin Range(users)
  <2> DEFINE more == Append(users, u)
  <2>1. Enlist(users, u) = more
    BY <1>3, <1>5, <1>1 DEF Enlist, Contains
  <2>2. /\ more \in Seq(U) /\ DOMAIN more = 1..(n + 1)
        /\ more[n + 1] = u /\ \A m \in 1..n : more[m] = users[m] /\ m \in 1..(n + 1)
    BY <1>1 DEF n
  <2> HIDE DEF more
  <2>3. \A m \in 1..(n + 1) : m = n + 1 \/ m \in 1..n
    BY <1>1
  <2>4. IsInjective(more)
    <3>1. \A m, k \in 1..(n + 1) : more[m] = more[k] => m = k
      <4> SUFFICES ASSUME NEW m \in 1..(n + 1), NEW k \in 1..(n + 1), more[m] = more[k] PROVE m = k
        OBVIOUS
      <4>1. \A j \in 1..n : more[j] # u
        BY <1>3, <1>5, <2>2
      <4>2. m \in 1..n => k \in 1..n /\ users[m] = users[k]
        BY <2>2, <2>3, <4>1
      <4>3. k \in 1..n => m \in 1..n
        BY <2>2, <2>3, <4>1
      <4> QED
        BY <1>2, <2>3, <4>2, <4>3
    <3> QED
      BY <2>2, <3>1 DEF IsInjective
  <2>5. Range(more) = Range(users) \cup {u}
    <3>1. Range(more) = {more[m] : m \in 1..(n + 1)}
      BY <2>2 DEF Range
    <3>2. n + 1 \in 1..(n + 1)
      BY <1>1
    <3>3. ASSUME NEW w \in Range(more) PROVE w \in Range(users) \cup {u}
      <4>1. PICK m \in 1..(n + 1) : more[m] = w
        BY <3>1
      <4>2. m \in 1..n => w = users[m] /\ users[m] \in Range(users)
        BY <1>3, <2>2, <4>1
      <4> QED
        BY <2>2, <2>3, <4>1, <4>2
    <3>4. \A w \in Range(users) : w \in Range(more)
      BY <1>3, <2>2, <3>1
    <3>5. u \in Range(more)
      BY <2>2, <3>1, <3>2
    <3> QED
      BY <3>3, <3>4, <3>5
  <2> QED
    BY <1>5, <2>1, <2>2, <2>4, <2>5 DEF more
<1> QED
  BY <1>4, <1>5

\* A borrower's loans change; a borrower that had none is listed.
LEMMA SumOfChangedBorrower ==
  ASSUME NEW U, NEW D, NEW v, NEW users, NEW u, NEW accounts, NEW new,
         Maps(v, D, Int), users \in Seq(U), IsInjective(users), u \in U,
         Maps(accounts, U, Seq(D)), Maps(new, U, Seq(D)),
         \A w \in U \ {u} : new[w] = accounts[w],
         u \notin Range(users) => accounts[u] = <<>>
  PROVE  SumSeq(v, LoansOf(Enlist(users, u), new))
              = SumSeq(v, LoansOf(users, accounts)) + SumSeq(v, new[u]) - SumSeq(v, accounts[u])
<1> DEFINE n == Len(users)
           f == Subtotals(v, users, accounts)
<1>1. n \in Nat /\ DOMAIN users = 1..n /\ \A m \in 1..n : users[m] \in U
  OBVIOUS
<1>2. \A w \in U : SumSeq(v, accounts[w]) \in Int /\ SumSeq(v, new[w]) \in Int
  <2> SUFFICES ASSUME NEW w \in U PROVE SumSeq(v, accounts[w]) \in Int /\ SumSeq(v, new[w]) \in Int
    OBVIOUS
  <2>1. accounts[w] \in Seq(D) /\ new[w] \in Seq(D)
    BY DEF Maps
  <2> QED
    BY <2>1, Elements
<1>3. SumSeq(v, LoansOf(users, accounts)) = SumFunctionOnSet(f, 1..n)
  <2>1. SumSeq(v, LoansOf(users, accounts))
          = SumFunctionOnSet(Subtotals(v, users, accounts), DOMAIN users)
    BY SumByBorrower
  <2> QED
    BY <1>1, <2>1
<1>4. \A m \in 1..n : f[m] \in Int /\ f[m] = SumSeq(v, accounts[users[m]])
  BY <1>1, <1>2 DEF Subtotals
<1>5. \A m, k \in 1..n : users[m] = users[k] => m = k
  BY <1>1 DEF IsInjective
<1>6. Range(users) = {users[m] : m \in 1..n}
  BY <1>1 DEF Range
<1> HIDE DEF n, f
<1>7. CASE u \in Range(users)
  <2> DEFINE g == Subtotals(v, users, new)
  <2>1. Enlist(users, u) = users
    BY <1>6, <1>7, <1>1 DEF Enlist, Contains
  <2>2. PICK k \in 1..n : users[k] = u
    BY <1>6, <1>7
  <2>3. SumSeq(v, LoansOf(users, new)) = SumFunctionOnSet(g, 1..n)
    <3>1. SumSeq(v, LoansOf(users, new))
            = SumFunctionOnSet(Subtotals(v, users, new), DOMAIN users)
      BY SumByBorrower
    <3> QED
      BY <1>1, <3>1
  <2>4. \A m \in 1..n : g[m] \in Int /\ g[m] = SumSeq(v, new[users[m]])
    BY <1>1, <1>2 DEF Subtotals
  <2>5. \A m \in 1..n \ {k} : f[m] = g[m]
    <3>1. \A m \in 1..n \ {k} : users[m] \in U \ {u}
      BY <1>1, <1>5, <2>2
    <3> HIDE DEF g
    <3> QED
      BY <1>4, <2>4, <3>1
  <2>6. f[k] = SumSeq(v, accounts[u]) /\ g[k] = SumSeq(v, new[u])
    BY <1>4, <2>2, <2>4
  <2> HIDE DEF g
  <2>7. SumFunctionOnSet(g, 1..n) = SumFunctionOnSet(f, 1..n) + g[k] - f[k]
    <3>1. IsFiniteSet(1..n)
      BY <1>1, FS_Interval
    <3>2. \A m \in 1..n : f[m] \in Int /\ g[m] \in Int
      BY <1>4, <2>4
    <3> DEFINE S == 1..n
    <3>3. IsFiniteSet(S) /\ k \in S /\ \A m \in S : f[m] \in Int /\ g[m] \in Int
      BY <2>2, <3>1, <3>2
    <3>4. \A m \in S \ {k} : f[m] = g[m]
      BY <2>5
    <3> HIDE DEF S
    <3>5. SumFunctionOnSet(g, S) = SumFunctionOnSet(f, S) + g[k] - f[k]
      BY ONLY <3>3, <3>4, SumChange
    <3> QED
      BY <3>5 DEF S
  <2>8. SumSeq(v, LoansOf(users, new))
          = SumSeq(v, LoansOf(users, accounts)) + SumSeq(v, new[u]) - SumSeq(v, accounts[u])
    BY <1>3, <2>3, <2>6, <2>7
  <2> QED
    BY <2>1, <2>8
<1>8. CASE u \notin Range(users)
  <2> DEFINE more == Append(users, u)
             g == Subtotals(v, more, new)
  <2>1. Enlist(users, u) = more
    BY <1>6, <1>8, <1>1 DEF Enlist, Contains
  <2>2. /\ more \in Seq(U) /\ DOMAIN more = 1..(n + 1)
        /\ more[n + 1] = u /\ \A m \in 1..n : more[m] = users[m] /\ m \in 1..(n + 1)
    BY <1>1 DEF n
  <2> HIDE DEF more
  <2>6. SumSeq(v, LoansOf(more, new)) = SumFunctionOnSet(g, 1..(n + 1))
    <3>1. SumSeq(v, LoansOf(more, new))
            = SumFunctionOnSet(Subtotals(v, more, new), DOMAIN more)
      BY <2>2, SumByBorrower
    <3> QED
      BY <2>2, <3>1
  <2>7. \A m \in 1..n : g[m] = f[m]
    <3>1. \A m \in 1..n : users[m] \in U \ {u}
      BY <1>1, <1>6, <1>8
    <3>2. \A m \in 1..n : g[m] = SumSeq(v, new[users[m]])
      BY <2>2 DEF Subtotals
    <3> HIDE DEF g
    <3> QED
      BY <1>4, <3>1, <3>2
  <2>8. n + 1 \in 1..(n + 1) /\ g[n + 1] = SumSeq(v, new[u])
    <3>1. n + 1 \in 1..(n + 1)
      BY <1>1
    <3> QED
      BY <2>2, <3>1 DEF Subtotals
  <2> HIDE DEF g
  <2>9. SumFunctionOnSet(g, 1..(n + 1)) = SumFunctionOnSet(f, 1..n) + g[n + 1]
    <3>1. \A m \in 1..n : f[m] \in Int /\ g[m] = f[m]
      BY <1>4, <2>7
    <3>2. g[n + 1] \in Int
      BY <1>2, <2>8
    <3> QED
      BY <1>1, <3>1, <3>2, SumOfOneMore
  <2>10. SumSeq(v, accounts[u]) = 0
    <3>1. DOMAIN <<>> = {}
      OBVIOUS
    <3>2. SumSeq(v, <<>>) = 0
      BY <3>1, SumOfNone DEF SumSeq
    <3> QED
      BY <1>8, <3>2
  <2>11. SumFunctionOnSet(f, 1..n) \in Int
    <3>1. IsFiniteSet(1..n)
      BY <1>1, FS_Interval
    <3> QED
      BY <1>4, <3>1, SumIsInt
  <2>12. SumSeq(v, LoansOf(more, new))
           = SumSeq(v, LoansOf(users, accounts)) + SumSeq(v, new[u]) - SumSeq(v, accounts[u])
    BY <1>2, <1>3, <2>6, <2>8, <2>9, <2>10, <2>11
  <2> QED
    BY <2>1, <2>12
<1> QED
  BY <1>7, <1>8

\* Each loan of accounts has gone through F.
Passed(new, U, F, accounts) == new = [u \in U |-> Mapped(F, accounts[u])]

\* All loans change in the same way.
LEMMA SumOfChangedLoans ==
  ASSUME NEW U, NEW D, NEW v, NEW users, NEW accounts, NEW F, NEW new,
         Maps(v, D, Int), users \in Seq(U), Maps(accounts, U, Seq(D)), Maps(F, D, D),
         Passed(new, U, F, accounts)
  PROVE  /\ new \in [U -> Seq(D)] /\ Maps(new, U, Seq(D))
         /\ SumSeq(v, LoansOf(users, new)) = SumSeq(Weight(D, v, F), LoansOf(users, accounts))
<1> DEFINE vF == Weight(D, v, F)
<1>1. ASSUME NEW u \in U
      PROVE  new[u] \in Seq(D) /\ SumSeq(v, new[u]) = SumSeq(vF, accounts[u])
  <2> DEFINE s == accounts[u]
  <2>1. s \in Seq(D) /\ new[u] = Mapped(F, s)
    BY DEF Maps, Passed
  <2> HIDE DEF s
  <2>2. Mapped(F, s) \in Seq(D)
    BY <2>1, MappedIsSeq
  <2>3. SumSeq(v, Mapped(F, s)) = SumSeq(Weight(D, v, F), s)
    BY <2>1, SumOfMapped
  <2> QED
    BY <2>1, <2>2, <2>3 DEF s
<1>2. new = [u \in U |-> new[u]]
  BY DEF Passed
<1>3. Maps(vF, D, Int)
  BY DEF Weight, Maps
<1>4. \A m \in DOMAIN users : users[m] \in U
  OBVIOUS
<1> HIDE DEF vF
<1>5. new \in [U -> Seq(D)] /\ Maps(new, U, Seq(D))
  BY <1>1, <1>2 DEF Maps
<1>6. Subtotals(v, users, new) = Subtotals(vF, users, accounts)
  BY <1>1, <1>4 DEF Subtotals
<1>7. SumSeq(v, LoansOf(users, new)) = SumFunctionOnSet(Subtotals(v, users, new), DOMAIN users)
  BY <1>5, SumByBorrower
<1>8. SumSeq(vF, LoansOf(users, accounts))
        = SumFunctionOnSet(Subtotals(vF, users, accounts), DOMAIN users)
  BY <1>3, SumByBorrower
<1>9. SumSeq(v, LoansOf(users, new)) = SumSeq(vF, LoansOf(users, accounts))
  BY <1>6, <1>7, <1>8
<1> QED
  BY <1>5, <1>9 DEF vF

-----------------------------------------------------------------------------
(***************************************************************************)
(* What the bank computes.                                                 *)
(***************************************************************************)

LEMMA Constants ==
  /\ BasisPoints \in Nat \ {0} /\ Multiple \in Nat \ {0} /\ Period \in Nat \ {0}
  /\ MinAmount \in Nat \ {0} /\ LoanPledgeRate \in Nat /\ LoanInterestRate \in Nat
  /\ \A r \in ReserveRatios : r \in Nat /\ r <= BasisPoints
  /\ UnitPrices \subseteq Nat \ {0} /\ USTNPrices \subseteq Nat \ {0}
  /\ BidDuration \in Nat \ {0}
BY FinanceAssumption, USTNAssumption, USTNAuctionAssumption

LEMMA InterestIsNat == \A debt \in Nat : Interest(debt) \in Nat
<1> SUFFICES ASSUME NEW debt \in Nat PROVE Interest(debt) \in Nat
  OBVIOUS
<1>1. debt * LoanInterestRate \in Nat
  BY Constants, ProductIsNat
<1> QED
  BY <1>1, Constants, QuotientIsNat DEF Interest

LEMMA ReserveIsNat ==
  ASSUME reserveRatio \in ReserveRatios, NEW tokens \in Nat
  PROVE  Reserve(tokens) \in Nat
<1>1. BasisPoints - reserveRatio \in Nat
  BY Constants
<1>2. tokens * (BasisPoints - reserveRatio) \in Nat
  BY <1>1, ProductIsNat
<1> QED
  BY <1>2, Constants, QuotientIsNat DEF Reserve

LEMMA LoansRateIsNat ==
  ASSUME unitPrice \in UnitPrices, ustnPrice \in USTNPrices, NEW tokens \in Nat
  PROVE  LoansRate(tokens) \in Nat
<1>1. unitPrice \in Nat /\ ustnPrice \in Nat \ {0}
  BY Constants
<1>2. unitPrice * tokens \in Nat
  BY <1>1, ProductIsNat
<1>3. (unitPrice * tokens) \div ustnPrice \in Nat
  BY <1>1, <1>2, QuotientIsNat
<1>4. ((unitPrice * tokens) \div ustnPrice) * LoanPledgeRate \in Nat
  BY <1>3, Constants, ProductIsNat
<1> QED
  BY <1>4, Constants, QuotientIsNat DEF LoansRate

\* Whole periods do not lead past now.
LEMMA PeriodsAreOver ==
  ASSUME now \in Nat, NEW since \in Nat, since <= now
  PROVE  /\ Periods(since) \in Nat
         /\ since + Periods(since) * Period \in Nat
         /\ since + Periods(since) * Period <= now
<1> DEFINE k == Periods(since)
<1>1. now - since \in Nat
  OBVIOUS
<1>2. k \in Nat /\ Period * k <= now - since
  BY <1>1, Constants, QuotientRounds DEF Periods
<1> HIDE DEF k
<1>3. Period * k = k * Period /\ k * Period \in Nat
  <2>1. Period \in Nat
    BY Constants
  <2> QED
    BY <1>2, <2>1, ProductIsNat
<1>4. since + k * Period \in Nat /\ since + k * Period <= now
  BY <1>2, <1>3
<1> QED
  BY <1>2, <1>4 DEF k

\* Compound interest is added period by period, so that a debt never shrinks.
After(f, debt, k) == f = [i \in 0..k |-> IF i = 0 THEN debt ELSE f[i - 1] + Interest(f[i - 1])]

LEMMA DebtIsAfter == \A debt, k : DebtAfter(debt, k) = (CHOOSE f : After(f, debt, k))[k]
BY DEF DebtAfter, After

LEMMA DebtGrows ==
  ASSUME NEW debt \in Nat, NEW k \in Nat
  PROVE  DebtAfter(debt, k) \in Nat /\ DebtAfter(debt, k) >= debt
<1> DEFINE D == {x \in Nat : x >= debt}
           step == [i \in 1..k |-> [x \in D |-> x + Interest(x)]]
           f == CHOOSE f : After(f, debt, k)
           B == {i \in 0..k : f[i] \notin D}
<1>1. \A x \in D : x + Interest(x) \in D
  BY InterestIsNat
<1>2. \E g : After(g, debt, k)
  <2>0. \A i \in 1..k, x \in D : step[i][x] = x + Interest(x)
    OBVIOUS
  <2>1. debt \in D /\ \A i \in 1..k, x \in D : step[i][x] \in D
    BY <1>1
  <2> HIDE DEF D, step
  <2>2. PICK g : IsIteration(g, debt, k, step) /\ \A i \in 0..k : g[i] \in D
    <3>1. \E g : IsIteration(g, debt, k, step) /\ \A i \in 0..k : g[i] \in D
      BY ONLY <2>1, k \in Nat, Iteration
    <3> QED
      BY <3>1
  <2>3. g = [i \in 0..k |-> IF i = 0 THEN debt ELSE step[i][g[i - 1]]]
    BY <2>2 DEF IsIteration
  <2>4. g = [i \in 0..k |-> g[i]]
    BY <2>3
  <2>5. \A i \in 0..k : g[i] = IF i = 0 THEN debt ELSE g[i - 1] + Interest(g[i - 1])
    <3> SUFFICES ASSUME NEW i \in 0..k
                 PROVE  g[i] = IF i = 0 THEN debt ELSE g[i - 1] + Interest(g[i - 1])
      OBVIOUS
    <3>1. g[i] = IF i = 0 THEN debt ELSE step[i][g[i - 1]]
      BY <2>3
    <3>2. i # 0 => i \in 1..k /\ i - 1 \in 0..k
      OBVIOUS
    <3> QED
      BY <2>0, <2>1, <2>2, <3>1, <3>2
  <2>6. After(g, debt, k)
    BY <2>4, <2>5 DEF After
  <2> QED
    BY <2>6
<1>3. After(f, debt, k)
  BY <1>2, Zenon
<1> HIDE DEF f
<1>4. \A i \in 0..k : f[i] = IF i = 0 THEN debt ELSE f[i - 1] + Interest(f[i - 1])
  BY <1>3 DEF After
<1>5. ASSUME B # {} PROVE FALSE
  <2>1. PICK i \in B : \A j \in B : i <= j
    <3>1. IsFiniteSet(0..k)
      BY FS_Interval
    <3>2. IsFiniteSet(B)
      BY <3>1, FS_Subset
    <3>3. B \subseteq Int
      OBVIOUS
    <3> HIDE DEF B
    <3> QED
      BY <1>5, <3>2, <3>3, LeastOfFinite
  <2>2. i \in 0..k /\ i \in Nat
    OBVIOUS
  <2>3. CASE i = 0
    BY <1>4, <2>1, <2>2, <2>3
  <2>4. CASE i # 0
    <3>1. i - 1 \in 0..k /\ i - 1 < i
      BY <2>2, <2>4
    <3>2. i - 1 \notin B
      <4> HIDE DEF B
      <4> QED
        BY <2>1, <2>2, <3>1
    <3>3. f[i - 1] \in D
      BY <3>1, <3>2
    <3>4. f[i] = f[i - 1] + Interest(f[i - 1])
      BY <1>4, <2>2, <2>4
    <3>5. f[i] \in D
      <4> HIDE DEF D
      <4> QED
        BY <1>1, <3>3, <3>4
    <3> QED
      BY <3>5
  <2> QED
    BY <2>3, <2>4
<1>6. k \in 0..k /\ k \notin B
  <2> HIDE DEF B
  <2> QED
    BY <1>5
<1>7. DebtAfter(debt, k) = f[k]
  BY DebtIsAfter DEF f
<1>8. f[k] \in Nat /\ f[k] >= debt
  BY <1>6
<1> QED
  BY <1>7, <1>8

\* A repayment returns no more UNIT than the loan has, and all of it when it
\* covers the debt.
LEMMA BackUnitIsThere ==
  ASSUME NEW loan \in Loan, NEW tokens \in Nat
  PROVE  BackUnit(loan, tokens) \in Nat /\ BackUnit(loan, tokens) <= loan.mortgage
<1> DEFINE percent == IF tokens >= loan.debt THEN Multiple
                      ELSE (tokens * Multiple) \div loan.debt
<1>1. loan.mortgage \in Nat /\ loan.debt \in Nat
  BY DEF Loan
<1>2. percent \in Nat /\ percent <= Multiple
  <2>1. CASE tokens >= loan.debt
    BY <2>1, Constants
  <2>2. CASE tokens < loan.debt
    <3> DEFINE d == loan.debt
               x == tokens * Multiple
    <3>1. d \in Nat \ {0} /\ tokens <= d
      BY <1>1, <2>2
    <3>2. x \in Nat /\ x <= d * Multiple
      BY <3>1, Constants, ProductIsNat, ProductMonotone
    <3>3. percent = x \div d
      BY <1>1, <2>2
    <3> HIDE DEF x, d, percent
    <3>4. x \div d \in Nat
      BY <3>1, <3>2, QuotientIsNat
    <3>5. x \div d <= Multiple
      BY <3>1, <3>2, Constants, QuotientBound
    <3> QED
      BY <3>3, <3>4, <3>5
  <2> QED
    BY <1>1, <2>1, <2>2
<1> DEFINE m == loan.mortgage
<1>3. BackUnit(loan, tokens) = (m * percent) \div Multiple
  BY DEF BackUnit
<1>4. m \in Nat
  BY <1>1
<1> HIDE DEF percent, m
<1>5. m * percent \in Nat /\ m * percent <= Multiple * m
  <2>1. percent * m <= Multiple * m
    BY <1>2, <1>4, Constants, ProductMonotone
  <2>2. m * percent = percent * m /\ m * percent \in Nat
    BY <1>2, <1>4, ProductIsNat
  <2> QED
    BY <2>1, <2>2
<1>6. (m * percent) \div Multiple \in Nat
  BY <1>5, Constants, QuotientIsNat
<1>7. (m * percent) \div Multiple <= m
  BY <1>4, <1>5, Constants, QuotientBound
<1> QED
  BY <1>3, <1>6, <1>7 DEF m

-----------------------------------------------------------------------------
(***************************************************************************)
(* What the bank makes of a loan.                                          *)
(***************************************************************************)

\* The interest of a loan is part of its debt, and that of a lot part of its
\* starting price.
SoundLoan == {loan \in Loan : loan.interest <= loan.debt}
SoundLot == {a \in Auction : a.debt <= a.startValue}

LEMMA LoanFields ==
  ASSUME NEW loan, loan \in SoundLoan
  PROVE  /\ loan \in Loan /\ loan.timestamp \in Nat /\ loan.mortgage \in Nat
         /\ loan.debt \in Nat /\ loan.interest \in Nat /\ loan.liquidationState \in 0..2
         /\ loan.interest <= loan.debt
BY DEF SoundLoan, Loan

\* What an open loan counts, and what one that is over does.
LEMMA LoanCounts ==
  ASSUME NEW loan, loan \in SoundLoan
  PROVE  /\ Principal(loan) \in Nat /\ OwedInterest(loan) \in Nat /\ Mortgage(loan) \in Nat
         /\ Open(loan) => /\ Principal(loan) = loan.debt - loan.interest
                          /\ OwedInterest(loan) = loan.interest
         /\ ~Open(loan) => Principal(loan) = 0 /\ OwedInterest(loan) = 0
BY LoanFields DEF Principal, OwedInterest, Mortgage

LEMMA RepaidIsSound ==
  ASSUME NEW loan, NEW tokens, loan \in SoundLoan, tokens \in Nat, Open(loan)
  PROVE  /\ Repaid(loan, tokens) \in SoundLoan
         /\ Repaid(loan, tokens).timestamp = loan.timestamp
         /\ ToPrincipal(loan, tokens) \in Nat /\ OffInterestMint(loan, tokens) \in Nat
         /\ BackUnit(loan, tokens) \in Nat
         /\ Principal(Repaid(loan, tokens)) = Principal(loan) - ToPrincipal(loan, tokens)
         /\ OwedInterest(Repaid(loan, tokens))
              <= OwedInterest(loan) - OffInterestMint(loan, tokens)
         /\ Mortgage(Repaid(loan, tokens)) = Mortgage(loan) - BackUnit(loan, tokens)
<1> DEFINE new == Repaid(loan, tokens)
           left == loan.mortgage - BackUnit(loan, tokens)
<1>1. /\ loan \in Loan /\ loan.timestamp \in Nat /\ loan.mortgage \in Nat
      /\ loan.debt \in Nat /\ loan.interest \in Nat /\ loan.liquidationState \in 0..2
      /\ loan.interest <= loan.debt
  BY LoanFields
<1>2. BackUnit(loan, tokens) \in Nat /\ left \in Nat
  BY <1>1, BackUnitIsThere
<1>3. ToPrincipal(loan, tokens) \in Nat /\ OffInterestMint(loan, tokens) \in Nat
  BY <1>1 DEF ToPrincipal, OffInterestMint
<1>4. new.timestamp = loan.timestamp /\ new.mortgage = left
  BY <1>1 DEF Repaid, Loan
<1>5. CASE tokens >= loan.debt
  <2>1. new = [loan EXCEPT !.mortgage = left, !.debt = 0, !.interest = 0, !.liquidationState = 2]
    BY <1>5 DEF Repaid
  <2> HIDE DEF left
  <2>2. /\ new \in Loan /\ new.debt = 0 /\ new.interest = 0 /\ new.liquidationState = 2
    <3>1. 0 \in Nat /\ 2 \in 0..2 /\ left \in Nat
      BY <1>2
    <3>2. new \in Loan
      BY <1>1, <2>1, <3>1 DEF Loan
    <3> QED
      BY <1>1, <2>1, <3>2 DEF Loan
  <2> HIDE DEF new
  <2>3. new \in SoundLoan
    BY <2>2 DEF SoundLoan
  <2>4. Principal(new) = 0 /\ OwedInterest(new) = 0
    BY <2>2 DEF Principal, OwedInterest, Open
  <2>5. ToPrincipal(loan, tokens) = loan.debt - loan.interest /\ OffInterestMint(loan, tokens) = 0
    BY <1>1, <1>5 DEF ToPrincipal, OffInterestMint
  <2>6. Principal(loan) = loan.debt - loan.interest /\ OwedInterest(loan) = loan.interest
    BY DEF Principal, OwedInterest
  <2>7. Mortgage(new) = Mortgage(loan) - BackUnit(loan, tokens)
    BY <1>4 DEF Mortgage, left
  <2>8. Principal(new) = Principal(loan) - ToPrincipal(loan, tokens)
    BY <1>1, <2>4, <2>5, <2>6
  <2>9. OwedInterest(new) <= OwedInterest(loan) - OffInterestMint(loan, tokens)
    BY <1>1, <2>4, <2>5, <2>6
  <2> QED
    BY <1>2, <1>3, <1>4, <2>3, <2>7, <2>8, <2>9 DEF new
<1>6. CASE ~(tokens >= loan.debt)
  <2> DEFINE i == IF tokens < loan.interest THEN loan.interest - tokens ELSE 0
  <2>1. new = [loan EXCEPT !.mortgage = left, !.debt = loan.debt - tokens, !.interest = i]
    BY <1>1, <1>6 DEF Repaid
  <2>2. i \in Nat /\ loan.debt - tokens \in Nat /\ i <= loan.debt - tokens
    BY <1>1, <1>6
  <2>3. i <= loan.interest - OffInterestMint(loan, tokens)
    BY <1>1, <1>6 DEF OffInterestMint
  <2>4. loan.debt - tokens - i = loan.debt - loan.interest - ToPrincipal(loan, tokens)
    BY <1>1, <1>6 DEF ToPrincipal
  <2> HIDE DEF left, i
  <2>5. /\ new \in Loan /\ new.debt = loan.debt - tokens /\ new.interest = i
        /\ new.liquidationState = loan.liquidationState
    BY <1>1, <1>2, <2>1, <2>2 DEF Loan
  <2> HIDE DEF new
  <2>6. new \in SoundLoan /\ Open(new)
    BY <2>2, <2>5 DEF SoundLoan, Open
  <2>7. Principal(new) = loan.debt - tokens - i /\ OwedInterest(new) = i
    BY <2>5, <2>6 DEF Principal, OwedInterest
  <2>8. Principal(loan) = loan.debt - loan.interest /\ OwedInterest(loan) = loan.interest
    BY DEF Principal, OwedInterest
  <2>9. Mortgage(new) = Mortgage(loan) - BackUnit(loan, tokens)
    BY <1>4 DEF Mortgage, left
  <2>10. Principal(new) = Principal(loan) - ToPrincipal(loan, tokens)
    BY <2>4, <2>7, <2>8
  <2>11. OwedInterest(new) <= OwedInterest(loan) - OffInterestMint(loan, tokens)
    BY <2>3, <2>7, <2>8
  <2> QED
    BY <1>2, <1>3, <1>4, <2>6, <2>9, <2>10, <2>11 DEF new
<1> QED
  BY <1>5, <1>6

\* What interest adds to a loan.
Bear(loan) == Accrued(loan).debt - loan.debt

LEMMA AccruedIsSound ==
  ASSUME NEW loan, loan \in SoundLoan, now \in Nat, loan.timestamp <= now
  PROVE  /\ Accrued(loan) \in SoundLoan /\ Accrued(loan).timestamp <= now
         /\ Bear(loan) \in Nat /\ Accrued(loan).interest = loan.interest + Bear(loan)
         /\ Accrued(loan).debt = loan.debt + Bear(loan)
         /\ Accrued(loan).mortgage = loan.mortgage
         /\ Accrued(loan).liquidationState = loan.liquidationState
         /\ ~Open(loan) => Bear(loan) = 0
<1> DEFINE k == Periods(loan.timestamp)
           b == IF Open(loan) THEN DebtAfter(loan.debt, k) - loan.debt ELSE 0
           time == loan.timestamp + k * Period
           new == Accrued(loan)
<1>1. /\ loan \in Loan /\ loan.timestamp \in Nat /\ loan.mortgage \in Nat
      /\ loan.debt \in Nat /\ loan.interest \in Nat /\ loan.liquidationState \in 0..2
      /\ loan.interest <= loan.debt
  BY LoanFields
<1>2. k \in Nat /\ time \in Nat /\ time <= now
  BY <1>1, PeriodsAreOver
<1>3. b \in Nat /\ (~Open(loan) => b = 0)
  <2>1. DebtAfter(loan.debt, k) \in Nat /\ DebtAfter(loan.debt, k) >= loan.debt
    <3> HIDE DEF k
    <3> QED
      BY <1>1, <1>2, DebtGrows
  <2> QED
    BY <1>1, <2>1
<1>4. new = [loan EXCEPT !.timestamp = time, !.debt = loan.debt + b, !.interest = loan.interest + b]
  BY <1>1 DEF Accrued, Loan
<1> HIDE DEF time, b, new
<1>5. /\ new \in Loan /\ new.timestamp = time /\ new.mortgage = loan.mortgage
      /\ new.debt = loan.debt + b /\ new.interest = loan.interest + b
      /\ new.liquidationState = loan.liquidationState
  <2>1. loan.debt + b \in Nat /\ loan.interest + b \in Nat
    BY <1>1, <1>3
  <2>2. new \in Loan
    BY <1>1, <1>2, <1>4, <2>1 DEF Loan
  <2> QED
    BY <1>1, <1>4, <2>2 DEF Loan
<1>6. new.interest <= new.debt
  BY <1>1, <1>3, <1>5
<1>7. Bear(loan) = b
  BY <1>1, <1>3, <1>5 DEF Bear, new
<1> QED
  BY <1>2, <1>3, <1>5, <1>6, <1>7 DEF new, SoundLoan

LEMMA RatedIsSound ==
  ASSUME NEW loan, loan \in SoundLoan
  PROVE  /\ Rated(loan) \in SoundLoan
         /\ Rated(loan).timestamp = loan.timestamp /\ Rated(loan).mortgage = loan.mortgage
         /\ Rated(loan).debt = loan.debt /\ Rated(loan).interest = loan.interest
         /\ ~Open(loan) => Rated(loan) = loan
<1> DEFINE x == Pledge(loan.mortgage, loan.debt)
           st == IF x > WarningValue THEN 0 ELSE IF x >= LiquidationRate THEN 1 ELSE 2
           new == [loan EXCEPT !.liquidationState = st]
<1>1. loan \in Loan /\ loan.interest <= loan.debt
  BY LoanFields
<1>2. st \in 0..2
  OBVIOUS
<1>3. Rated(loan) = IF ~Open(loan) THEN loan ELSE new
  BY DEF Rated
<1> HIDE DEF st
<1>4. /\ new \in Loan
      /\ new.timestamp = loan.timestamp /\ new.mortgage = loan.mortgage
      /\ new.debt = loan.debt /\ new.interest = loan.interest
  BY <1>1, <1>2 DEF Loan
<1> HIDE DEF new
<1>5. new \in SoundLoan
  BY <1>1, <1>4 DEF SoundLoan
<1> QED
  BY <1>3, <1>4, <1>5

\* The lot of a loan counts what the loan did.
LEMMA LotIsSound ==
  ASSUME NEW loan, loan \in SoundLoan, now \in Nat
  PROVE  /\ Lot(loan) \in SoundLot
         /\ LotPrincipal(Lot(loan)) = loan.debt - loan.interest
         /\ LotInterest(Lot(loan)) = loan.interest
         /\ Collected(Lot(loan)) = 0
<1>1. /\ loan \in Loan /\ loan.timestamp \in Nat /\ loan.mortgage \in Nat
      /\ loan.debt \in Nat /\ loan.interest \in Nat
      /\ loan.interest <= loan.debt
  BY LoanFields
<1>2. now + BidDuration \in Nat
  BY Constants
<1>3. /\ Lot(loan) \in Auction
      /\ Lot(loan).startValue = loan.debt /\ Lot(loan).debt = loan.interest
      /\ Lot(loan).state = 1
  BY <1>1, <1>2 DEF Lot, Auction
<1> QED
  BY <1>1, <1>3 DEF SoundLot, LotPrincipal, LotInterest, Collected

LEMMA LotCounts ==
  ASSUME NEW a, a \in SoundLot
  PROVE  LotPrincipal(a) \in Nat /\ LotInterest(a) \in Nat /\ Collected(a) \in Nat
BY DEF SoundLot, Auction, LotPrincipal, LotInterest, Collected

-----------------------------------------------------------------------------
(***************************************************************************)
(* Types.  Beyond them the bank keeps its lists of users and their records *)
(* in step, and no record is from the future.                              *)
(***************************************************************************)

DepositBooks ==
  /\ depositUsers \in Seq(Depositors) /\ IsInjective(depositUsers)
  /\ userDepositBalances \in [Depositors -> Nat]
  /\ userPastTime \in [Depositors -> Nat]
  /\ userDepositPoint \in [Depositors -> Nat]
  /\ \A u \in Depositors : userPastTime[u] <= now

LoanBooks ==
  /\ loanUsers \in Seq(Borrowers) /\ IsInjective(loanUsers)
  /\ loanAccount \in [Borrowers -> Seq(SoundLoan)]
  /\ \A u \in Borrowers : u \notin Range(loanUsers) => loanAccount[u] = <<>>
  /\ \A u \in Borrowers : \A i \in DOMAIN loanAccount[u] : loanAccount[u][i].timestamp <= now
  /\ unitBalance \in Nat

LotBooks ==
  /\ auctionList \in Seq(SoundLot)
  /\ Len(auctionList) <= MaxAuctions
  /\ bider \in [AuctionIds -> Bidders \cup {NoOne}]
  /\ bidValue \in [AuctionIds -> [Bidders -> Nat]]

LimitTypes ==
  /\ reserveRatio \in ReserveRatios
  /\ bankLoanLimit \in Nat /\ loansTotalInterest \in Nat /\ interestMint \in Nat
  /\ setAside \in Int

ClockTypes == now \in Nat

BankSound == USTNTypes /\ LotBooks /\ DepositBooks /\ LimitTypes /\ LoanBooks /\ ClockTypes

LEMMA BankSoundTypes == BankSound => BankTypeOK
<1> SUFFICES ASSUME BankSound PROVE BankTypeOK
  OBVIOUS
<1> USE DEF BankSound
<1>1. AuctionTypes
  <2>1. SoundLot \subseteq Auction
    BY DEF SoundLot
  <2>2. auctionList \in Seq(Auction)
    BY <2>1 DEF LotBooks
  <2> QED
    BY <2>2 DEF AuctionTypes, LotBooks
<1>2. FinanceTypes
  <2>1. SoundLoan \subseteq Loan
    BY DEF SoundLoan
  <2>2. \A u \in Borrowers : loanAccount[u] \in Seq(Loan)
    BY <2>1 DEF LoanBooks
  <2>3. loanAccount \in [Borrowers -> Seq(Loan)]
    BY <2>2 DEF LoanBooks
  <2>4. Range(depositUsers) \subseteq Depositors
    BY DEF DepositBooks, Range
  <2>5. Range(loanUsers) \subseteq Borrowers
    BY DEF LoanBooks, Range
  <2> QED
    BY <2>3, <2>4, <2>5 DEF FinanceTypes, DepositBooks, LoanBooks, LimitTypes
<1> QED
  BY <1>1, <1>2 DEF BankTypeOK, ClockTypes

LEMMA BankSoundInit == BankInit => BankSound
<1> SUFFICES ASSUME BankInit PROVE BankSound
  OBVIOUS
<1> USE DEF BankInit, FinanceInit, AuctionInit, BlockTimeInit
<1>1. USTNTypes
  BY DEF USTNTypes
<1>2. LotBooks
  BY USTNAuctionAssumption DEF LotBooks
<1>3. DepositBooks
  BY DEF DepositBooks, IsInjective
<1>4. LimitTypes
  BY DEF LimitTypes
<1>5. LoanBooks
  <2>1. \A u \in Borrowers : loanAccount[u] = <<>> /\ <<>> \in Seq(SoundLoan) /\ DOMAIN loanAccount[u] = {}
    OBVIOUS
  <2> QED
    BY <2>1 DEF LoanBooks, IsInjective
<1>6. ClockTypes
  BY DEF ClockTypes
<1> QED
  BY <1>1, <1>2, <1>3, <1>4, <1>5, <1>6 DEF BankSound

\* A book entry changes by an amount, and so does the total.
LEMMA SumOfEntries ==
  ASSUME NEW S, NEW f, NEW g, NEW x, NEW d, IsFiniteSet(S), Maps(f, S, Nat), Maps(g, S, Nat),
         x \in S, d \in Int, g[x] = f[x] + d, \A y \in S \ {x} : f[y] = g[y]
  PROVE  /\ SumFunctionOnSet(g, S) = SumFunctionOnSet(f, S) + d
         /\ SumFunctionOnSet(f, S) \in Nat /\ SumFunctionOnSet(g, S) \in Nat
<1>1. \A y \in S : f[y] \in Nat /\ g[y] \in Nat
  BY DEF Maps
<1>2. \A y \in S : f[y] \in Int /\ g[y] \in Int
  BY <1>1
<1>3. SumFunctionOnSet(g, S) = SumFunctionOnSet(f, S) + g[x] - f[x]
  BY ONLY IsFiniteSet(S), x \in S, \A y \in S \ {x} : f[y] = g[y], <1>2, SumChange
<1>4. SumFunctionOnSet(f, S) \in Nat /\ SumFunctionOnSet(g, S) \in Nat
  BY <1>1, SumIsNat
<1>5. f[x] \in Nat
  BY <1>1
<1> QED
  BY <1>3, <1>4, <1>5

Balances == SumFunctionOnSet(balance, Accounts)
Deposits == SumFunctionOnSet(userDepositBalances, Depositors)

LEMMA Finite == IsFiniteSet(Accounts) /\ IsFiniteSet(Depositors)
BY USTNAssumption, FinanceAssumption, FS_Subset

\* u's balance grows by d, or shrinks.
LEMMA BalanceChanged ==
  ASSUME USTNTypes, NEW u, NEW d, u \in Accounts, d \in Int, balance[u] + d \in Nat,
         balance' = [balance EXCEPT ![u] = balance[u] + d]
  PROVE  balance' \in [Accounts -> Nat] /\ Balances' = Balances + d
         /\ Balances \in Nat /\ Balances' \in Nat
<1>1. balance \in [Accounts -> Nat]
  BY DEF USTNTypes
<1>2. /\ balance' \in [Accounts -> Nat]
      /\ balance'[u] = balance[u] + d /\ \A w \in Accounts \ {u} : balance[w] = balance'[w]
  BY <1>1
<1>3. Maps(balance, Accounts, Nat) /\ Maps(balance', Accounts, Nat)
  BY <1>1, <1>2 DEF Maps
<1>4. /\ SumFunctionOnSet(balance', Accounts) = SumFunctionOnSet(balance, Accounts) + d
      /\ SumFunctionOnSet(balance, Accounts) \in Nat
      /\ SumFunctionOnSet(balance', Accounts) \in Nat
  BY ONLY u \in Accounts, d \in Int, <1>2, <1>3, Finite, SumOfEntries
<1> QED
  BY <1>2, <1>4 DEF Balances

\* What one account pays another gets.
LEMMA BalanceMoved ==
  ASSUME USTNTypes, NEW from, NEW to, NEW amount, from \in Accounts, to \in Accounts,
         amount \in Nat, from = to \/ amount <= balance[from], Move(from, to, amount)
  PROVE  balance' \in [Accounts -> Nat] /\ Balances' = Balances
<1> DEFINE paid == [balance EXCEPT ![from] = balance[from] - amount]
<1>1. balance \in [Accounts -> Nat] /\ balance[from] \in Nat
  BY DEF USTNTypes
<1>2. balance' = [paid EXCEPT ![to] = paid[to] + amount]
  BY DEF Move
<1>3. CASE from = to
  <2>1. balance' = balance
    BY <1>1, <1>2, <1>3
  <2> QED
    BY <1>1, <2>1 DEF Balances
<1>4. CASE amount <= balance[from]
  <2> DEFINE d == 0 - amount
  <2>1. balance[from] + d \in Nat /\ d \in Int /\ balance[from] + d = balance[from] - amount
    BY <1>1, <1>4
  <2>2. /\ paid \in [Accounts -> Nat]
        /\ paid[from] = balance[from] + d /\ \A w \in Accounts \ {from} : balance[w] = paid[w]
    BY <1>1, <2>1
  <2>3. paid[to] + amount \in Nat /\ amount \in Int
    BY <2>2
  <2> HIDE DEF paid, d
  <2>4. /\ balance' \in [Accounts -> Nat]
        /\ balance'[to] = paid[to] + amount /\ \A w \in Accounts \ {to} : paid[w] = balance'[w]
    BY <1>2, <2>2, <2>3
  <2>5. Maps(balance, Accounts, Nat) /\ Maps(paid, Accounts, Nat) /\ Maps(balance', Accounts, Nat)
    BY <1>1, <2>2, <2>4 DEF Maps
  <2>6. /\ SumFunctionOnSet(paid, Accounts) = SumFunctionOnSet(balance, Accounts) + d
        /\ SumFunctionOnSet(balance, Accounts) \in Nat
    BY <2>1, <2>2, <2>5, Finite, SumOfEntries
  <2>7. SumFunctionOnSet(balance', Accounts) = SumFunctionOnSet(paid, Accounts) + amount
    BY <2>3, <2>4, <2>5, Finite, SumOfEntries
  <2>8. SumFunctionOnSet(balance', Accounts) = SumFunctionOnSet(balance, Accounts)
    BY <2>6, <2>7 DEF d
  <2> QED
    BY <2>4, <2>8 DEF Balances
<1> QED
  BY <1>3, <1>4

-----------------------------------------------------------------------------
(***************************************************************************)
(* The steps keep the types, and what accounts, depositors and the bank    *)
(* may claim changes as the supply does.                                   *)
(***************************************************************************)

\* What the supply is to cover, and what there is to cover it.
Claims == Balances + Deposits + loansTotalInterest
Cover == totalSupply + unbacked

LEMMA SumsAreNat ==
  ASSUME BankSound
  PROVE  Balances \in Nat /\ Deposits \in Nat /\ loansTotalInterest \in Nat
         /\ totalSupply \in Nat /\ unbacked \in Nat
<1> USE DEF BankSound
<1>1. /\ \A u \in Accounts : balance[u] \in Nat
      /\ \A u \in Depositors : userDepositBalances[u] \in Nat
  BY DEF USTNTypes, DepositBooks
<1>2. Balances \in Nat
  BY <1>1, Finite, SumIsNat DEF Balances
<1>3. Deposits \in Nat
  BY <1>1, Finite, SumIsNat DEF Deposits
<1> QED
  BY <1>2, <1>3 DEF USTNTypes, LimitTypes

\* u's deposit grows by d, or shrinks.
LEMMA DepositChanged ==
  ASSUME DepositBooks, NEW u, NEW d, u \in Depositors, d \in Int,
         userDepositBalances[u] + d \in Nat,
         userDepositBalances' = [userDepositBalances EXCEPT ![u] = userDepositBalances[u] + d]
  PROVE  userDepositBalances' \in [Depositors -> Nat] /\ Deposits' = Deposits + d
<1>1. userDepositBalances \in [Depositors -> Nat]
  BY DEF DepositBooks
<1>2. /\ userDepositBalances' \in [Depositors -> Nat]
      /\ userDepositBalances'[u] = userDepositBalances[u] + d
      /\ \A w \in Depositors \ {u} : userDepositBalances[w] = userDepositBalances'[w]
  BY <1>1
<1>3. Maps(userDepositBalances, Depositors, Nat) /\ Maps(userDepositBalances', Depositors, Nat)
  BY <1>1, <1>2 DEF Maps
<1>4. SumFunctionOnSet(userDepositBalances', Depositors)
        = SumFunctionOnSet(userDepositBalances, Depositors) + d
  BY ONLY u \in Depositors, d \in Int, <1>2, <1>3, Finite, SumOfEntries
<1> QED
  BY <1>2, <1>4 DEF Deposits

LEMMA DepositTypes ==
  ASSUME BankSound, NEW u, NEW tokens, u \in Depositors, tokens \in DepositAmounts,
         Deposit(u, tokens), UNCHANGED <<prices, unbacked, reserveRatio, now>>
  PROVE  USTNTypes' /\ DepositBooks' /\ LimitTypes' /\ Claims' - Cover' <= Claims - Cover
<1> USE DEF BankSound
<1>1. u \in Accounts /\ tokens \in Nat /\ now \in Nat
  BY FinanceAssumption DEF ClockTypes
<1>2. Reserve(tokens) \in Nat
  BY <1>1, ReserveIsNat DEF LimitTypes
<1>3. balance' \in [Accounts -> Nat] /\ Balances' = Balances - tokens
  <2> DEFINE d == 0 - tokens
  <2>1. balance[u] \in Nat /\ balance[u] >= tokens
    BY <1>1 DEF USTNTypes, Deposit, ReduceBalance
  <2>2. d \in Int /\ balance[u] + d \in Nat /\ balance[u] + d = balance[u] - tokens
    BY <1>1, <2>1
  <2>3. balance' = [balance EXCEPT ![u] = balance[u] - tokens]
    BY DEF Deposit, ReduceBalance
  <2> HIDE DEF d
  <2>4. balance' = [balance EXCEPT ![u] = balance[u] + d]
    BY <2>2, <2>3
  <2>5. balance' \in [Accounts -> Nat] /\ Balances' = Balances + d /\ Balances \in Nat
    BY <1>1, <2>2, <2>4, BalanceChanged
  <2> QED
    BY <1>1, <2>5 DEF d
<1>4. userDepositBalances' \in [Depositors -> Nat] /\ Deposits' = Deposits + tokens
  <2>1. userDepositBalances[u] + tokens \in Nat /\ tokens \in Int
    BY <1>1 DEF DepositBooks
  <2>2. userDepositBalances' = [userDepositBalances EXCEPT ![u] = userDepositBalances[u] + tokens]
    BY DEF Deposit
  <2> QED
    BY <2>1, <2>2, DepositChanged
<1>5. depositUsers' \in Seq(Depositors) /\ IsInjective(depositUsers')
  <2>1. depositUsers' = Enlist(depositUsers, u)
    BY DEF Deposit
  <2> QED
    BY <2>1, Enlisted DEF DepositBooks
<1>6. userPastTime' \in [Depositors -> Nat] /\ \A w \in Depositors : userPastTime'[w] <= now
  <2>1. \/ userPastTime' = userPastTime
        \/ userPastTime' = [userPastTime EXCEPT ![u] = now]
    BY DEF Deposit
  <2>2. userPastTime \in [Depositors -> Nat] /\ \A w \in Depositors : userPastTime[w] <= now
    BY DEF DepositBooks
  <2> QED
    BY <1>1, <2>1, <2>2
<1>7. DepositBooks'
  BY <1>4, <1>5, <1>6 DEF DepositBooks, Deposit
<1>8. USTNTypes'
  BY <1>3 DEF USTNTypes, prices, Deposit
<1>9. LimitTypes'
  BY <1>2 DEF LimitTypes, Deposit
<1>10. Claims' - Cover' <= Claims - Cover
  <2>1. loansTotalInterest' = loansTotalInterest /\ totalSupply' = totalSupply /\ unbacked' = unbacked
    BY DEF Deposit
  <2> QED
    BY <1>1, <1>3, <1>4, <2>1, SumsAreNat DEF Claims, Cover
<1> QED
  BY <1>7, <1>8, <1>9, <1>10

LEMMA WithdrawalTypes ==
  ASSUME BankSound, NEW u, NEW tokens, u \in Depositors, tokens \in DepositAmounts,
         Withdrawal(u, tokens), UNCHANGED <<prices, unbacked, reserveRatio, now>>
  PROVE  USTNTypes' /\ DepositBooks' /\ LimitTypes' /\ Claims' - Cover' <= Claims - Cover
<1> USE DEF BankSound
<1>1. u \in Accounts /\ tokens \in Nat /\ now \in Nat
  BY FinanceAssumption DEF ClockTypes
<1>2. Reserve(tokens) \in Nat /\ bankLoanLimit - Reserve(tokens) \in Nat
  BY <1>1, ReserveIsNat DEF LimitTypes, Withdrawal
<1>3. balance' \in [Accounts -> Nat] /\ Balances' = Balances + tokens
  <2>1. balance[u] + tokens \in Nat /\ tokens \in Int
    BY <1>1 DEF USTNTypes
  <2>2. balance' = [balance EXCEPT ![u] = balance[u] + tokens]
    BY DEF Withdrawal, AddBalance
  <2> QED
    BY <1>1, <2>1, <2>2, BalanceChanged
<1>4. userDepositBalances' \in [Depositors -> Nat] /\ Deposits' = Deposits - tokens
  <2> DEFINE d == 0 - tokens
  <2>1. userDepositBalances[u] \in Nat /\ userDepositBalances[u] >= tokens
    BY <1>1 DEF DepositBooks, Withdrawal
  <2>2. /\ d \in Int /\ userDepositBalances[u] + d \in Nat
        /\ userDepositBalances[u] + d = userDepositBalances[u] - tokens
    BY <1>1, <2>1
  <2>3. userDepositBalances' = [userDepositBalances EXCEPT ![u] = userDepositBalances[u] - tokens]
    BY DEF Withdrawal
  <2> HIDE DEF d
  <2>4. userDepositBalances' = [userDepositBalances EXCEPT ![u] = userDepositBalances[u] + d]
    BY <2>2, <2>3
  <2>5. userDepositBalances' \in [Depositors -> Nat] /\ Deposits' = Deposits + d
    BY <2>2, <2>4, DepositChanged
  <2> QED
    BY <1>1, <2>5, SumsAreNat DEF d
<1>5. DepositBooks'
  BY <1>4 DEF DepositBooks, Withdrawal
<1>6. USTNTypes'
  BY <1>3 DEF USTNTypes, prices, Withdrawal
<1>7. LimitTypes'
  BY <1>2 DEF LimitTypes, Withdrawal
<1>8. Claims' - Cover' <= Claims - Cover
  <2>1. loansTotalInterest' = loansTotalInterest /\ totalSupply' = totalSupply /\ unbacked' = unbacked
    BY DEF Withdrawal
  <2> QED
    BY <1>1, <1>3, <1>4, <2>1, SumsAreNat DEF Claims, Cover
<1> QED
  BY <1>5, <1>6, <1>7, <1>8

\* The interest goes to the depositors, or what rounding leaves of it to nobody.
LEMMA DistributeTypes ==
  ASSUME BankSound, DistributeDepositInterest, UNCHANGED <<prices, unbacked, reserveRatio, now>>
  PROVE  USTNTypes' /\ DepositBooks' /\ LimitTypes' /\ Claims' - Cover' <= Claims - Cover
<1> USE DEF BankSound
<1> DEFINE users == Range(depositUsers)
           points == [u \in Depositors |-> PointsNow(u)]
           total == SumFunctionOnSet(points, users)
           share == [u \in Depositors |-> IF u \in users THEN Share(u, total) ELSE 0]
<1>1. users \subseteq Depositors /\ IsFiniteSet(users)
  <2>1. users \subseteq Depositors
    BY DEF DepositBooks, Range
  <2> QED
    BY <2>1, Finite, FS_Subset
<1>2. /\ users # {} => total > 0
      /\ userDepositPoint' = [u \in Depositors |-> IF u \in users THEN PointsNow(u)
                                                   ELSE userDepositPoint[u]]
      /\ userPastTime' = [u \in Depositors |->
           IF u \in users THEN userPastTime[u] + Periods(userPastTime[u]) * Period
           ELSE userPastTime[u]]
      /\ userDepositBalances' = [u \in Depositors |->
           IF u \in users THEN userDepositBalances[u] + Share(u, total)
           ELSE userDepositBalances[u]]
      /\ loansTotalInterest' = 0
      /\ UNCHANGED <<balance, totalSupply, depositUsers, bankLoanLimit, interestMint, setAside>>
  BY DEF DistributeDepositInterest
<1>3. ASSUME NEW u \in Depositors
      PROVE  /\ PointsNow(u) \in Nat
             /\ userPastTime[u] + Periods(userPastTime[u]) * Period \in Nat
             /\ userPastTime[u] + Periods(userPastTime[u]) * Period <= now
  <2>1. /\ userPastTime[u] \in Nat /\ userPastTime[u] <= now
        /\ userDepositPoint[u] \in Nat /\ userDepositBalances[u] \in Nat
    BY DEF DepositBooks
  <2>2. /\ Periods(userPastTime[u]) \in Nat
        /\ userPastTime[u] + Periods(userPastTime[u]) * Period \in Nat
        /\ userPastTime[u] + Periods(userPastTime[u]) * Period <= now
    BY <2>1, PeriodsAreOver DEF ClockTypes
  <2>3. userDepositBalances[u] * Periods(userPastTime[u]) \in Nat
    BY <2>1, <2>2, ProductIsNat
  <2> QED
    BY <2>1, <2>2, <2>3 DEF PointsNow
<1>4. loansTotalInterest \in Nat
  BY DEF LimitTypes
<1>5. /\ \A u \in Depositors : share[u] \in Nat
      /\ SumFunctionOnSet(share, Depositors) <= loansTotalInterest
  <2>1. CASE users = {}
    <3>1. \A u \in Depositors : share[u] = 0
      BY <2>1
    <3> HIDE DEF share
    <3>2. SumFunctionOnSet(share, Depositors) = 0
      BY <3>1, Finite, SumOfZeros
    <3> QED
      BY <1>4, <3>1, <3>2
  <2>2. CASE users # {}
    <3>1. \A u \in users : points[u] \in Nat
      BY <1>1, <1>3
    <3>2. \A u \in users : share[u] = (loansTotalInterest * points[u]) \div total
      BY <1>1 DEF Share
    <3>3. \A u \in Depositors \ users : share[u] = 0
      OBVIOUS
    <3>4. total # 0
      BY <1>2, <2>2
    <3>5. total = SumFunctionOnSet(points, users)
      OBVIOUS
    <3> HIDE DEF share, points, total, users
    <3>6. (\A u \in users : share[u] \in Nat) /\ SumFunctionOnSet(share, users) <= loansTotalInterest
      BY <1>1, <1>4, <3>1, <3>2, <3>4, <3>5, SharesAreCovered
    <3>7. \A u \in Depositors : share[u] \in Nat /\ share[u] \in Int
      BY <3>3, <3>6
    <3>8. SumFunctionOnSet(share, Depositors) = SumFunctionOnSet(share, users)
      BY <1>1, <3>3, <3>7, Finite, SumOfPart
    <3> QED
      BY <3>6, <3>7, <3>8
  <2> QED
    BY <2>1, <2>2
<1>6. /\ userDepositBalances' \in [Depositors -> Nat]
      /\ \A u \in Depositors : userDepositBalances'[u] = userDepositBalances[u] + share[u]
  <2>1. \A u \in Depositors : userDepositBalances[u] \in Nat /\ share[u] \in Nat
    BY <1>5 DEF DepositBooks
  <2>2. \A u \in Depositors : (IF u \in users THEN userDepositBalances[u] + Share(u, total)
                               ELSE userDepositBalances[u]) = userDepositBalances[u] + share[u]
    BY <2>1
  <2>3. userDepositBalances' = [u \in Depositors |-> userDepositBalances[u] + share[u]]
    BY <1>2, <2>2
  <2> HIDE DEF share
  <2> QED
    BY <2>1, <2>3
<1> HIDE DEF share, total, points
<1>7. Deposits' <= Deposits + loansTotalInterest
  <2>1. \A u \in Depositors : /\ userDepositBalances[u] \in Int /\ share[u] \in Int
                              /\ userDepositBalances'[u] = userDepositBalances[u] + share[u]
    BY <1>5, <1>6 DEF DepositBooks
  <2>2. SumFunctionOnSet(userDepositBalances', Depositors)
          = SumFunctionOnSet(userDepositBalances, Depositors) + SumFunctionOnSet(share, Depositors)
    BY <2>1, Finite, SumOfSums
  <2>3. SumFunctionOnSet(share, Depositors) \in Nat
    BY <1>5, Finite, SumIsNat
  <2>4. Deposits' = Deposits + SumFunctionOnSet(share, Depositors)
    BY <2>2 DEF Deposits
  <2> QED
    BY <1>4, <1>5, <2>3, <2>4, SumsAreNat
<1>8. DepositBooks'
  <2>1. \A u \in Depositors : /\ PointsNow(u) \in Nat /\ userDepositPoint[u] \in Nat
                              /\ userPastTime[u] \in Nat /\ userPastTime[u] <= now
    BY <1>3 DEF DepositBooks
  <2>2. userDepositPoint' \in [Depositors -> Nat]
    BY <1>2, <2>1
  <2>3. userPastTime' \in [Depositors -> Nat] /\ \A u \in Depositors : userPastTime'[u] <= now
    BY <1>2, <1>3, <2>1
  <2> QED
    BY <1>2, <1>6, <2>2, <2>3 DEF DepositBooks
<1>9. USTNTypes'
  BY <1>2 DEF USTNTypes, prices
<1>10. LimitTypes'
  BY <1>2 DEF LimitTypes
<1>11. Claims' - Cover' <= Claims - Cover
  <2>1. Balances' = Balances
    BY <1>2 DEF Balances
  <2>2. Deposits' \in Nat
    <3>1. \A u \in Depositors : userDepositBalances'[u] \in Nat
      BY <1>6
    <3> QED
      BY <3>1, Finite, SumIsNat DEF Deposits
  <2> QED
    BY <1>2, <1>4, <1>7, <2>1, <2>2, SumsAreNat DEF Claims, Cover
<1> QED
  BY <1>8, <1>9, <1>10, <1>11

-----------------------------------------------------------------------------
(***************************************************************************)
(* The books: what the loans count together and what the lots do.          *)
(***************************************************************************)

PrincipalOf == [loan \in SoundLoan |-> Principal(loan)]
InterestOf == [loan \in SoundLoan |-> OwedInterest(loan)]
MortgageOf == [loan \in SoundLoan |-> Mortgage(loan)]
LotPrincipalOf == [a \in SoundLot |-> LotPrincipal(a)]
LotInterestOf == [a \in SoundLot |-> LotInterest(a)]
CollectedOf == [a \in SoundLot |-> Collected(a)]

LEMMA WeightsAreNat ==
  /\ \A v \in {PrincipalOf, InterestOf, MortgageOf} :
        Maps(v, SoundLoan, Nat) /\ Maps(v, SoundLoan, Int)
  /\ \A w \in {LotPrincipalOf, LotInterestOf, CollectedOf} :
        Maps(w, SoundLot, Nat) /\ Maps(w, SoundLot, Int)
<1>1. /\ \A loan \in SoundLoan : /\ PrincipalOf[loan] \in Nat /\ InterestOf[loan] \in Nat
                                 /\ MortgageOf[loan] \in Nat
      /\ \A a \in SoundLot : /\ LotPrincipalOf[a] \in Nat /\ LotInterestOf[a] \in Nat
                             /\ CollectedOf[a] \in Nat
  BY LoanCounts, LotCounts
     DEF PrincipalOf, InterestOf, MortgageOf, LotPrincipalOf, LotInterestOf, CollectedOf
<1> QED
  BY <1>1 DEF Maps

LoanSum(v) == SumSeq(v, LoansOf(loanUsers, loanAccount))
LotSum(w) == SumSeq(w, auctionList)

LEMMA AllLoansAreLoans == AllLoans = LoansOf(loanUsers, loanAccount)
BY DEF AllLoans, LoansOf

LEMMA SumsAreInt ==
  /\ LoanBooks => \A v : Maps(v, SoundLoan, Int) => LoanSum(v) \in Int
  /\ LotBooks => \A w : Maps(w, SoundLot, Int) => LotSum(w) \in Int
<1>1. ASSUME LoanBooks, NEW v, Maps(v, SoundLoan, Int) PROVE LoanSum(v) \in Int
  <2>1. loanUsers \in Seq(Borrowers) /\ Maps(loanAccount, Borrowers, Seq(SoundLoan))
    BY <1>1 DEF LoanBooks, Maps
  <2>2. LoansOf(loanUsers, loanAccount) \in Seq(SoundLoan)
    BY <1>1, <2>1, SumByBorrower
  <2> QED
    BY <1>1, <2>2, Elements DEF LoanSum
<1>2. ASSUME LotBooks, NEW w, Maps(w, SoundLot, Int) PROVE LotSum(w) \in Int
  BY <1>2, Elements DEF LotSum, LotBooks
<1> QED
  BY <1>1, <1>2

\* A borrower takes one more loan.
LEMMA LoanTaken ==
  ASSUME LoanBooks, NEW u, NEW loan, u \in Borrowers, loan \in SoundLoan,
         loan.timestamp <= now, loanUsers' = Enlist(loanUsers, u),
         loanAccount' = [loanAccount EXCEPT ![u] = Append(loanAccount[u], loan)],
         unitBalance' \in Nat, now' = now
  PROVE  LoanBooks' /\ \A v : Maps(v, SoundLoan, Int) => LoanSum(v)' = LoanSum(v) + v[loan]
<1> DEFINE new == Append(loanAccount[u], loan)
<1>1. loanUsers \in Seq(Borrowers) /\ IsInjective(loanUsers)
  BY DEF LoanBooks
<1>2. /\ loanAccount \in [Borrowers -> Seq(SoundLoan)] /\ loanAccount[u] \in Seq(SoundLoan)
      /\ \A w \in Borrowers : \A i \in DOMAIN loanAccount[w] : loanAccount[w][i].timestamp <= now
      /\ \A w \in Borrowers : w \notin Range(loanUsers) => loanAccount[w] = <<>>
  BY DEF LoanBooks
<1>3. /\ new \in Seq(SoundLoan)
      /\ \A i \in DOMAIN new : new[i] = loan \/ (i \in DOMAIN loanAccount[u] /\ new[i] = loanAccount[u][i])
  BY <1>2
<1>4. loanAccount' = [loanAccount EXCEPT ![u] = new]
  OBVIOUS
<1> HIDE DEF new
<1>5. /\ loanAccount' \in [Borrowers -> Seq(SoundLoan)]
      /\ loanAccount'[u] = new /\ \A w \in Borrowers \ {u} : loanAccount'[w] = loanAccount[w]
  BY <1>2, <1>3, <1>4
<1>6. /\ loanUsers' \in Seq(Borrowers) /\ IsInjective(loanUsers')
      /\ Range(loanUsers') = Range(loanUsers) \cup {u}
  BY <1>1, Enlisted
<1>7. \A w \in Borrowers : w \notin Range(loanUsers') => loanAccount'[w] = <<>>
  BY <1>2, <1>5, <1>6
<1>8. \A w \in Borrowers : \A i \in DOMAIN loanAccount'[w] : loanAccount'[w][i].timestamp <= now
  <2> SUFFICES ASSUME NEW w \in Borrowers, NEW i \in DOMAIN loanAccount'[w]
               PROVE  loanAccount'[w][i].timestamp <= now
    OBVIOUS
  <2>1. CASE w = u
    BY <1>2, <1>3, <1>5, <2>1
  <2>2. CASE w # u
    BY <1>2, <1>5, <2>2
  <2> QED
    BY <2>1, <2>2
<1>9. LoanBooks'
  BY <1>5, <1>6, <1>7, <1>8 DEF LoanBooks
<1>10. ASSUME NEW v, Maps(v, SoundLoan, Int) PROVE LoanSum(v)' = LoanSum(v) + v[loan]
  <2> DEFINE U == Borrowers
             D == SoundLoan
             users == loanUsers
             accounts == loanAccount
             after == loanAccount'
  <2>1. Maps(accounts, U, Seq(D)) /\ Maps(after, U, Seq(D))
    BY <1>2, <1>5 DEF Maps
  <2>2. SumSeq(v, LoansOf(Enlist(users, u), after))
          = SumSeq(v, LoansOf(users, accounts)) + SumSeq(v, after[u]) - SumSeq(v, accounts[u])
    <3>1. /\ users \in Seq(U) /\ IsInjective(users) /\ u \in U /\ Maps(v, D, Int)
          /\ \A w \in U \ {u} : after[w] = accounts[w]
          /\ u \notin Range(users) => accounts[u] = <<>>
      BY <1>1, <1>2, <1>5, <1>10
    <3> HIDE DEF U, D, users, accounts, after
    <3> QED
      BY ONLY <2>1, <3>1, SumOfChangedBorrower
  <2>3. SumSeq(v, after[u]) = SumSeq(v, accounts[u]) + v[loan]
    BY <1>2, <1>5, <1>10, SumOfAppended DEF new
  <2>4. SumSeq(v, accounts[u]) \in Int /\ SumSeq(v, LoansOf(users, accounts)) \in Int /\ v[loan] \in Int
    BY <1>2, <1>10, Elements, SumsAreInt DEF Maps, LoanSum
  <2>5. /\ LoanSum(v) = SumSeq(v, LoansOf(users, accounts))
        /\ LoanSum(v)' = SumSeq(v, LoansOf(Enlist(users, u), after))
    BY DEF LoanSum
  <2> HIDE DEF U, D, users, accounts, after
  <2> QED
    BY <2>2, <2>3, <2>4, <2>5
<1> QED
  BY <1>9, <1>10

\* One loan of a borrower changes.
LEMMA LoanChanged ==
  ASSUME LoanBooks, NEW u, NEW number, NEW loan, u \in Borrowers,
         number \in DOMAIN loanAccount[u], loan \in SoundLoan, loan.timestamp <= now,
         loanUsers' = loanUsers, loanAccount' = [loanAccount EXCEPT ![u][number] = loan],
         unitBalance' \in Nat, now' = now
  PROVE  /\ LoanBooks'
         /\ \A v : Maps(v, SoundLoan, Int) =>
              LoanSum(v)' = LoanSum(v) + v[loan] - v[loanAccount[u][number]]
<1> DEFINE old == loanAccount[u]
           new == [loanAccount[u] EXCEPT ![number] = loan]
<1>1. loanUsers \in Seq(Borrowers) /\ IsInjective(loanUsers)
  BY DEF LoanBooks
<1>2. /\ loanAccount \in [Borrowers -> Seq(SoundLoan)] /\ old \in Seq(SoundLoan)
      /\ \A w \in Borrowers : \A i \in DOMAIN loanAccount[w] : loanAccount[w][i].timestamp <= now
      /\ \A w \in Borrowers : w \notin Range(loanUsers) => loanAccount[w] = <<>>
  BY DEF LoanBooks
<1>3. new \in Seq(SoundLoan)
  <2>1. Len(old) \in Nat /\ DOMAIN old = 1..Len(old) /\ \A i \in 1..Len(old) : old[i] \in SoundLoan
    BY <1>2
  <2>2. new \in [1..Len(old) -> SoundLoan]
    BY <2>1
  <2> QED
    BY <2>1, <2>2, SeqDef
<1>4. /\ DOMAIN new = DOMAIN old /\ new[number] = loan
      /\ \A i \in DOMAIN old \ {number} : new[i] = old[i]
  OBVIOUS
<1>5. loanAccount' = [loanAccount EXCEPT ![u] = new]
  OBVIOUS
<1>6. u \in Range(loanUsers)
  <2>1. old # <<>>
    <3>1. DOMAIN <<>> = {}
      OBVIOUS
    <3> QED
      BY <3>1
  <2> QED
    BY <1>2, <2>1
<1> HIDE DEF new
<1>7. /\ loanAccount' \in [Borrowers -> Seq(SoundLoan)]
      /\ loanAccount'[u] = new /\ \A w \in Borrowers \ {u} : loanAccount'[w] = loanAccount[w]
  BY <1>2, <1>3, <1>5
<1>8. \A w \in Borrowers : w \notin Range(loanUsers') => loanAccount'[w] = <<>>
  BY <1>2, <1>6, <1>7
<1>9. \A w \in Borrowers : \A i \in DOMAIN loanAccount'[w] : loanAccount'[w][i].timestamp <= now
  <2> SUFFICES ASSUME NEW w \in Borrowers, NEW i \in DOMAIN loanAccount'[w]
               PROVE  loanAccount'[w][i].timestamp <= now
    OBVIOUS
  <2>1. CASE w = u
    BY <1>2, <1>4, <1>7, <2>1
  <2>2. CASE w # u
    BY <1>2, <1>7, <2>2
  <2> QED
    BY <2>1, <2>2
<1>10. LoanBooks'
  BY <1>1, <1>7, <1>8, <1>9 DEF LoanBooks
<1>11. ASSUME NEW v, Maps(v, SoundLoan, Int)
       PROVE  LoanSum(v)' = LoanSum(v) + v[loan] - v[old[number]]
  <2> DEFINE U == Borrowers
             D == SoundLoan
             users == loanUsers
             accounts == loanAccount
             after == loanAccount'
  <2>1. Maps(accounts, U, Seq(D)) /\ Maps(after, U, Seq(D))
    BY <1>2, <1>7 DEF Maps
  <2>2. SumSeq(v, LoansOf(Enlist(users, u), after))
          = SumSeq(v, LoansOf(users, accounts)) + SumSeq(v, after[u]) - SumSeq(v, accounts[u])
    <3>1. /\ users \in Seq(U) /\ IsInjective(users) /\ u \in U /\ Maps(v, D, Int)
          /\ \A w \in U \ {u} : after[w] = accounts[w]
          /\ u \notin Range(users) => accounts[u] = <<>>
      BY <1>1, <1>2, <1>7, <1>11
    <3> HIDE DEF U, D, users, accounts, after
    <3> QED
      BY ONLY <2>1, <3>1, SumOfChangedBorrower
  <2>3. Enlist(users, u) = users
    BY <1>1, <1>6, Enlisted
  <2>4. SumSeq(v, after[u]) = SumSeq(v, old) + v[loan] - v[old[number]]
    <3> DEFINE x == old[number]
    <3>1. SumSeq(v, new) = SumSeq(v, old) + v[loan] - v[x]
      <4>1. /\ Maps(v, SoundLoan, Int) /\ old \in Seq(SoundLoan) /\ number \in DOMAIN old
            /\ Replaced(old, new, number, x, loan)
        BY <1>2, <1>4, <1>11 DEF Replaced
      <4> HIDE DEF old, x
      <4> QED
        BY ONLY <1>3, <4>1, SumOfReplaced
    <3> QED
      BY <1>4, <1>7, <3>1
  <2>5. /\ SumSeq(v, old) \in Int /\ SumSeq(v, LoansOf(users, accounts)) \in Int
        /\ v[loan] \in Int /\ v[old[number]] \in Int
    <3>1. old[number] \in SoundLoan
      BY <1>2
    <3> QED
      BY <1>2, <1>11, <3>1, Elements, SumsAreInt DEF Maps, LoanSum
  <2>6. /\ LoanSum(v) = SumSeq(v, LoansOf(users, accounts))
        /\ LoanSum(v)' = SumSeq(v, LoansOf(users, after))
    BY DEF LoanSum
  <2>7. accounts[u] = old
    OBVIOUS
  <2> HIDE DEF U, D, users, accounts, after, old
  <2> QED
    BY <2>2, <2>3, <2>4, <2>5, <2>6, <2>7
<1> QED
  BY <1>10, <1>11

\* What the three books say, of loans and of lots.
Balanced ==
  /\ setAside = bankLoanLimit + LoanSum(PrincipalOf) + LotSum(LotPrincipalOf)
  /\ LoanSum(InterestOf) + LotSum(LotInterestOf) <= interestMint
  /\ LoanSum(MortgageOf) = unitBalance + LotSum(CollectedOf)

LEMMA BooksAreInt ==
  ASSUME LoanBooks, LotBooks
  PROVE  /\ LoanSum(PrincipalOf) \in Int /\ LoanSum(InterestOf) \in Int
         /\ LoanSum(MortgageOf) \in Int /\ LotSum(LotPrincipalOf) \in Int
         /\ LotSum(LotInterestOf) \in Int /\ LotSum(CollectedOf) \in Int
BY SumsAreInt, WeightsAreNat

LEMMA SameLots ==
  ASSUME auctionList' = auctionList
  PROVE  /\ LotSum(LotPrincipalOf)' = LotSum(LotPrincipalOf)
         /\ LotSum(LotInterestOf)' = LotSum(LotInterestOf)
         /\ LotSum(CollectedOf)' = LotSum(CollectedOf)
BY DEF LotSum

LEMMA SameLoans ==
  ASSUME loanUsers' = loanUsers, loanAccount' = loanAccount
  PROVE  /\ LoanSum(PrincipalOf)' = LoanSum(PrincipalOf)
         /\ LoanSum(InterestOf)' = LoanSum(InterestOf)
         /\ LoanSum(MortgageOf)' = LoanSum(MortgageOf)
BY DEF LoanSum

LEMMA WeightOf ==
  ASSUME NEW loan, loan \in SoundLoan
  PROVE  /\ PrincipalOf[loan] = Principal(loan) /\ InterestOf[loan] = OwedInterest(loan)
         /\ MortgageOf[loan] = Mortgage(loan)
BY DEF PrincipalOf, InterestOf, MortgageOf

LEMMA WeightOfLot ==
  ASSUME NEW a, a \in SoundLot
  PROVE  /\ LotPrincipalOf[a] = LotPrincipal(a) /\ LotInterestOf[a] = LotInterest(a)
         /\ CollectedOf[a] = Collected(a)
BY DEF LotPrincipalOf, LotInterestOf, CollectedOf

LEMMA TakeLoanKeeps ==
  ASSUME BankSound, NEW u, NEW mortgage, u \in Borrowers, mortgage \in Mortgages,
         TakeLoan(u, mortgage), UNCHANGED <<prices, unbacked, auctionVars, reserveRatio, now>>
  PROVE  /\ USTNTypes' /\ LoanBooks' /\ LimitTypes' /\ Claims' - Cover' <= Claims - Cover
         /\ Balanced => Balanced'
<1> USE DEF BankSound
<1> DEFINE amount == LoansRate(mortgage)
           interest == Interest(amount)
           loan == [timestamp |-> now, mortgage |-> mortgage, debt |-> amount + interest,
                    interest |-> interest, liquidationState |-> 0]
<1>1. u \in Accounts /\ mortgage \in Nat /\ now \in Nat
  BY FinanceAssumption DEF ClockTypes
<1>2. amount \in Nat
  BY <1>1, LoansRateIsNat DEF USTNTypes
<1>3. interest \in Nat
  BY <1>2, InterestIsNat
<1>4. /\ amount <= bankLoanLimit
      /\ loanUsers' = Enlist(loanUsers, u)
      /\ loanAccount' = [loanAccount EXCEPT ![u] = Append(loanAccount[u], loan)]
      /\ unitBalance' = unitBalance + mortgage
      /\ bankLoanLimit' = bankLoanLimit - amount
      /\ balance' = [balance EXCEPT ![u] = balance[u] + amount]
      /\ loansTotalInterest' = loansTotalInterest + interest
      /\ totalSupply' = totalSupply + (amount + interest)
      /\ interestMint' = interestMint + interest
      /\ UNCHANGED <<depositVars, setAside>>
  BY DEF TakeLoan, AddBalance, AddTotalSupply
<1> HIDE DEF amount, interest
<1>5. loan \in Loan /\ loan.interest = interest /\ loan.debt = amount + interest
      /\ loan.mortgage = mortgage /\ loan.timestamp = now /\ loan.liquidationState = 0
  BY <1>1, <1>2, <1>3 DEF Loan
<1> HIDE DEF loan
<1>6. loan \in SoundLoan /\ loan.timestamp <= now
  BY <1>1, <1>2, <1>3, <1>5 DEF SoundLoan
<1>7. Principal(loan) = amount /\ OwedInterest(loan) = interest /\ Mortgage(loan) = mortgage
  BY <1>2, <1>3, <1>5 DEF Principal, OwedInterest, Mortgage, Open
<1>8. balance' \in [Accounts -> Nat] /\ Balances' = Balances + amount
  <2>1. balance[u] + amount \in Nat /\ amount \in Int
    BY <1>1, <1>2 DEF USTNTypes
  <2> QED
    BY <1>1, <1>4, <2>1, BalanceChanged
<1>9. USTNTypes'
  BY <1>2, <1>3, <1>4, <1>8 DEF USTNTypes, prices
<1>10. LimitTypes'
  BY <1>2, <1>3, <1>4 DEF LimitTypes
<1>11. unitBalance' \in Nat
  BY <1>1, <1>4 DEF LoanBooks
<1>12. LoanBooks' /\ \A v : Maps(v, SoundLoan, Int) => LoanSum(v)' = LoanSum(v) + v[loan]
  BY <1>4, <1>6, <1>11, LoanTaken
<1>13. Claims' - Cover' <= Claims - Cover
  <2>1. Deposits' = Deposits
    BY <1>4 DEF Deposits, depositVars
  <2>2. /\ loansTotalInterest' = loansTotalInterest + interest /\ unbacked' = unbacked
        /\ totalSupply' = totalSupply + (amount + interest)
    BY <1>4
  <2>3. Balances \in Nat /\ Deposits \in Nat /\ loansTotalInterest \in Nat
        /\ totalSupply \in Nat /\ unbacked \in Nat
    BY SumsAreNat
  <2> QED
    BY ONLY <1>2, <1>3, <1>8, <2>1, <2>2, <2>3 DEF Claims, Cover
<1>14. ASSUME Balanced PROVE Balanced'
  <2>1. /\ LoanSum(PrincipalOf)' = LoanSum(PrincipalOf) + amount
        /\ LoanSum(InterestOf)' = LoanSum(InterestOf) + interest
        /\ LoanSum(MortgageOf)' = LoanSum(MortgageOf) + mortgage
    BY <1>6, <1>7, <1>12, WeightOf, WeightsAreNat
  <2>2. /\ LotSum(LotPrincipalOf)' = LotSum(LotPrincipalOf)
        /\ LotSum(LotInterestOf)' = LotSum(LotInterestOf)
        /\ LotSum(CollectedOf)' = LotSum(CollectedOf)
    BY SameLots DEF auctionVars
  <2>3. bankLoanLimit \in Nat /\ interestMint \in Nat /\ unitBalance \in Nat
    BY DEF LimitTypes, LoanBooks
  <2>4. setAside' = bankLoanLimit' + LoanSum(PrincipalOf)' + LotSum(LotPrincipalOf)'
    <3>1. /\ setAside = bankLoanLimit + LoanSum(PrincipalOf) + LotSum(LotPrincipalOf)
          /\ LoanSum(PrincipalOf) \in Int /\ LotSum(LotPrincipalOf) \in Int
          /\ setAside' = setAside /\ bankLoanLimit' = bankLoanLimit - amount
      BY <1>4, <1>14, BooksAreInt DEF Balanced
    <3> QED
      BY ONLY <1>2, <2>1, <2>2, <2>3, <3>1
  <2>5. LoanSum(InterestOf)' + LotSum(LotInterestOf)' <= interestMint'
    <3>1. /\ LoanSum(InterestOf) + LotSum(LotInterestOf) <= interestMint
          /\ LoanSum(InterestOf) \in Int /\ LotSum(LotInterestOf) \in Int
          /\ interestMint' = interestMint + interest
      BY <1>4, <1>14, BooksAreInt DEF Balanced
    <3> QED
      BY ONLY <1>3, <2>1, <2>2, <2>3, <3>1
  <2>6. LoanSum(MortgageOf)' = unitBalance' + LotSum(CollectedOf)'
    <3>1. LoanSum(MortgageOf) = unitBalance + LotSum(CollectedOf)
      BY <1>14 DEF Balanced
    <3>2. /\ LoanSum(MortgageOf) \in Int /\ LotSum(CollectedOf) \in Int
          /\ unitBalance' = unitBalance + mortgage
      BY <1>4, BooksAreInt
    <3> QED
      BY ONLY <1>1, <2>1, <2>2, <2>3, <3>1, <3>2
  <2> QED
    BY <2>4, <2>5, <2>6 DEF Balanced
<1> QED
  BY <1>9, <1>10, <1>12, <1>13, <1>14

LEMMA AddLoansKeeps ==
  ASSUME BankSound, NEW u, NEW number, NEW value, u \in Borrowers,
         number \in DOMAIN loanAccount[u], value \in TopUps, AddLoans(u, number, value),
         UNCHANGED <<prices, unbacked, auctionVars, reserveRatio, now>>
  PROVE  /\ USTNTypes' /\ LoanBooks' /\ LimitTypes' /\ Claims' - Cover' <= Claims - Cover
         /\ Balanced => Balanced'
<1> USE DEF BankSound
<1> DEFINE old == loanAccount[u][number]
           mortgage == old.mortgage + value
           st == IF Pledge(mortgage, old.debt) >= WarningValue THEN 0 ELSE 1
           loan == [old EXCEPT !.mortgage = mortgage, !.liquidationState = st]
<1>1. value \in Nat
  BY FinanceAssumption
<1>2. old \in SoundLoan /\ old.timestamp <= now
  BY DEF LoanBooks
<1>3. loanAccount \in [Borrowers -> Seq(SoundLoan)] /\ loanAccount[u] \in Seq(SoundLoan)
  BY DEF LoanBooks
<1>4. /\ Open(old) /\ unitBalance' = unitBalance + value
      /\ UNCHANGED <<balance, totalSupply, depositVars, limitVars, loanUsers>>
      /\ loanAccount' = [loanAccount EXCEPT ![u][number].mortgage = mortgage,
                           ![u][number].liquidationState = st]
  BY DEF AddLoans
<1>5. old \in Loan /\ old.mortgage \in Nat /\ old.interest <= old.debt
  BY <1>2, LoanFields
<1>6. mortgage \in Nat /\ st \in 0..2 /\ st # 2
  BY <1>1, <1>5
<1> HIDE DEF mortgage, st
<1>7. loanAccount' = [loanAccount EXCEPT ![u][number] = loan]
  BY <1>3, <1>4
<1>8. /\ loan \in Loan /\ loan.mortgage = mortgage /\ loan.liquidationState = st
      /\ loan.timestamp = old.timestamp /\ loan.debt = old.debt /\ loan.interest = old.interest
  BY <1>5, <1>6 DEF Loan
<1> HIDE DEF loan, old
<1>9. loan \in SoundLoan /\ loan.timestamp <= now
  BY <1>2, <1>5, <1>8 DEF SoundLoan
<1>10. /\ Principal(loan) = Principal(old) /\ OwedInterest(loan) = OwedInterest(old)
       /\ Mortgage(loan) = Mortgage(old) + value
  BY <1>4, <1>6, <1>8 DEF Principal, OwedInterest, Mortgage, Open, mortgage
<1>11. USTNTypes' /\ LimitTypes'
  BY <1>4 DEF USTNTypes, prices, LimitTypes, limitVars
<1>12. unitBalance' \in Nat
  BY <1>1, <1>4 DEF LoanBooks
<1>13. LoanBooks' /\ \A v : Maps(v, SoundLoan, Int) => LoanSum(v)' = LoanSum(v) + v[loan] - v[old]
  BY <1>4, <1>7, <1>9, <1>12, LoanChanged DEF old
<1>14. Claims' - Cover' <= Claims - Cover
  <2>1. Claims' = Claims /\ Cover' = Cover
    BY <1>4 DEF Claims, Cover, Balances, Deposits, depositVars, limitVars
  <2> QED
    BY <2>1, SumsAreNat DEF Claims, Cover
<1>15. ASSUME Balanced PROVE Balanced'
  <2>1. /\ LoanSum(PrincipalOf)' = LoanSum(PrincipalOf)
        /\ LoanSum(InterestOf)' = LoanSum(InterestOf)
        /\ LoanSum(MortgageOf)' = LoanSum(MortgageOf) + value
    <3>1. /\ LoanSum(PrincipalOf)' = LoanSum(PrincipalOf) + Principal(loan) - Principal(old)
          /\ LoanSum(InterestOf)' = LoanSum(InterestOf) + OwedInterest(loan) - OwedInterest(old)
          /\ LoanSum(MortgageOf)' = LoanSum(MortgageOf) + Mortgage(loan) - Mortgage(old)
      BY <1>2, <1>9, <1>13, WeightOf, WeightsAreNat
    <3> QED
      BY <1>1, <1>2, <1>10, <3>1, LoanCounts, BooksAreInt
  <2>2. /\ LotSum(LotPrincipalOf)' = LotSum(LotPrincipalOf)
        /\ LotSum(LotInterestOf)' = LotSum(LotInterestOf)
        /\ LotSum(CollectedOf)' = LotSum(CollectedOf)
    BY SameLots DEF auctionVars
  <2>3. setAside' = setAside /\ bankLoanLimit' = bankLoanLimit /\ interestMint' = interestMint
    BY <1>4 DEF limitVars
  <2>4. LoanSum(MortgageOf)' = unitBalance' + LotSum(CollectedOf)'
    BY <1>1, <1>4, <1>15, <2>1, <2>2, BooksAreInt DEF Balanced, LoanBooks
  <2> QED
    BY <1>15, <2>1, <2>2, <2>3, <2>4 DEF Balanced
<1> QED
  BY <1>11, <1>13, <1>14, <1>15

LEMMA LoansBackKeeps ==
  ASSUME BankSound, NEW u, NEW number, NEW tokens, u \in Borrowers,
         number \in DOMAIN loanAccount[u], tokens \in RepayAmounts, LoansBack(u, number, tokens),
         UNCHANGED <<prices, unbacked, auctionVars, reserveRatio, now>>
  PROVE  /\ USTNTypes' /\ LoanBooks' /\ LimitTypes' /\ Claims' - Cover' <= Claims - Cover
         /\ Balanced => Balanced'
<1> USE DEF BankSound
<1> DEFINE old == loanAccount[u][number]
           loan == Repaid(old, tokens)
           paid == Min({tokens, old.debt})
           back == BackUnit(old, tokens)
           principal == ToPrincipal(old, tokens)
           off == OffInterestMint(old, tokens)
<1>1. u \in Accounts /\ tokens \in Nat
  BY FinanceAssumption
<1>2. old \in SoundLoan /\ old.timestamp <= now
  BY DEF LoanBooks
<1>3. /\ Open(old)
      /\ paid > 0 /\ balance[u] >= paid /\ balance' = [balance EXCEPT ![u] = balance[u] - paid]
      /\ off <= interestMint /\ back <= unitBalance
      /\ bankLoanLimit' = bankLoanLimit + principal
      /\ interestMint' = interestMint - off
      /\ loanAccount' = [loanAccount EXCEPT ![u][number] = loan]
      /\ unitBalance' = unitBalance - back
      /\ UNCHANGED <<totalSupply, depositVars, loansTotalInterest, setAside, loanUsers>>
  BY DEF LoansBack, ReduceBalance
<1>4. paid \in Nat
  <2>1. old.debt \in Nat
    BY <1>2, LoanFields
  <2>2. paid = tokens \/ paid = old.debt
    BY <1>1, <2>1 DEF Min
  <2> QED
    BY <1>1, <2>1, <2>2
<1>5. /\ loan \in SoundLoan /\ loan.timestamp = old.timestamp
      /\ principal \in Nat /\ off \in Nat /\ back \in Nat
      /\ Principal(loan) = Principal(old) - principal
      /\ OwedInterest(loan) <= OwedInterest(old) - off
      /\ Mortgage(loan) = Mortgage(old) - back
  BY <1>1, <1>2, <1>3, RepaidIsSound
<1> HIDE DEF old, loan, paid, back, principal, off
<1>6. balance' \in [Accounts -> Nat] /\ Balances' = Balances - paid
  <2> DEFINE d == 0 - paid
  <2>1. balance[u] \in Nat
    BY <1>1 DEF USTNTypes
  <2>2. d \in Int /\ balance[u] + d \in Nat /\ balance[u] + d = balance[u] - paid
    BY <1>3, <1>4, <2>1
  <2>3. balance' = [balance EXCEPT ![u] = balance[u] - paid]
    BY <1>3
  <2> HIDE DEF d
  <2>4. balance' = [balance EXCEPT ![u] = balance[u] + d]
    BY <2>2, <2>3
  <2>5. balance' \in [Accounts -> Nat] /\ Balances' = Balances + d /\ Balances \in Nat
    BY <1>1, <2>2, <2>4, BalanceChanged
  <2> QED
    BY <1>4, <2>5 DEF d
<1>7. USTNTypes'
  BY <1>3, <1>6 DEF USTNTypes, prices
<1>8. LimitTypes'
  BY <1>3, <1>5 DEF LimitTypes
<1>9. unitBalance' \in Nat
  BY <1>3, <1>5 DEF LoanBooks
<1>10. LoanBooks' /\ \A v : Maps(v, SoundLoan, Int) => LoanSum(v)' = LoanSum(v) + v[loan] - v[old]
  BY <1>2, <1>3, <1>5, <1>9, LoanChanged DEF old
<1>11. Claims' - Cover' <= Claims - Cover
  <2>1. Deposits' = Deposits
    BY <1>3 DEF Deposits, depositVars
  <2>2. loansTotalInterest' = loansTotalInterest /\ unbacked' = unbacked /\ totalSupply' = totalSupply
    BY <1>3
  <2>3. Balances \in Nat /\ Deposits \in Nat /\ loansTotalInterest \in Nat
        /\ totalSupply \in Nat /\ unbacked \in Nat
    BY SumsAreNat
  <2> QED
    BY ONLY <1>4, <1>6, <2>1, <2>2, <2>3 DEF Claims, Cover
<1>12. ASSUME Balanced PROVE Balanced'
  <2>1. /\ LoanSum(PrincipalOf)' = LoanSum(PrincipalOf) - principal
        /\ LoanSum(InterestOf)' <= LoanSum(InterestOf) - off /\ LoanSum(InterestOf)' \in Int
        /\ LoanSum(MortgageOf)' = LoanSum(MortgageOf) - back
    <3>1. /\ LoanSum(PrincipalOf)' = LoanSum(PrincipalOf) + Principal(loan) - Principal(old)
          /\ LoanSum(InterestOf)' = LoanSum(InterestOf) + OwedInterest(loan) - OwedInterest(old)
          /\ LoanSum(MortgageOf)' = LoanSum(MortgageOf) + Mortgage(loan) - Mortgage(old)
      BY <1>2, <1>5, <1>10, WeightOf, WeightsAreNat
    <3>2. /\ Principal(loan) \in Nat /\ OwedInterest(loan) \in Nat /\ Mortgage(loan) \in Nat
          /\ Principal(old) \in Nat /\ OwedInterest(old) \in Nat /\ Mortgage(old) \in Nat
      BY <1>2, <1>5, LoanCounts
    <3> QED
      BY <1>5, <3>1, <3>2, BooksAreInt
  <2>2. /\ LotSum(LotPrincipalOf)' = LotSum(LotPrincipalOf)
        /\ LotSum(LotInterestOf)' = LotSum(LotInterestOf)
        /\ LotSum(CollectedOf)' = LotSum(CollectedOf)
    BY SameLots DEF auctionVars
  <2>3. setAside' = setAside
    BY <1>3
  <2>4. bankLoanLimit \in Nat /\ interestMint \in Nat /\ unitBalance \in Nat
    BY DEF LimitTypes, LoanBooks
  <2>5. setAside' = bankLoanLimit' + LoanSum(PrincipalOf)' + LotSum(LotPrincipalOf)'
    BY <1>3, <1>5, <1>12, <2>1, <2>2, <2>3, <2>4, BooksAreInt DEF Balanced
  <2>6. LoanSum(InterestOf)' + LotSum(LotInterestOf)' <= interestMint'
    BY <1>3, <1>5, <1>12, <2>1, <2>2, <2>4, BooksAreInt DEF Balanced
  <2>7. LoanSum(MortgageOf)' = unitBalance' + LotSum(CollectedOf)'
    BY <1>3, <1>5, <1>12, <2>1, <2>2, <2>4, BooksAreInt DEF Balanced
  <2> QED
    BY <2>5, <2>6, <2>7 DEF Balanced
<1> QED
  BY <1>7, <1>8, <1>10, <1>11, <1>12

-----------------------------------------------------------------------------
(***************************************************************************)
(* The lots.                                                               *)
(***************************************************************************)

\* One lot changes.
LEMMA LotChanged ==
  ASSUME LotBooks, NEW n, NEW lot, n \in Listed, lot \in SoundLot,
         auctionList' = [auctionList EXCEPT ![n] = lot]
  PROVE  /\ auctionList' \in Seq(SoundLot) /\ Len(auctionList') <= MaxAuctions
         /\ \A w : Maps(w, SoundLot, Int) => LotSum(w)' = LotSum(w) + w[lot] - w[auctionList[n]]
<1> DEFINE s == auctionList
           t == auctionList'
           x == auctionList[n]
<1>1. /\ s \in Seq(SoundLot) /\ Len(s) \in Nat /\ DOMAIN s = 1..Len(s)
      /\ n \in DOMAIN s /\ \A i \in 1..Len(s) : s[i] \in SoundLot
  BY DEF LotBooks, Listed
<1>2. t \in [1..Len(s) -> SoundLot] /\ Replaced(s, t, n, x, lot)
  BY <1>1 DEF Replaced
<1>3. t \in Seq(SoundLot) /\ Len(t) = Len(s)
  BY <1>1, <1>2, SeqDef
<1>4. ASSUME NEW w, Maps(w, SoundLot, Int)
      PROVE  SumSeq(w, t) = SumSeq(w, s) + w[lot] - w[x]
  <2> HIDE DEF s, t, x
  <2> QED
    BY ONLY <1>1, <1>2, <1>3, <1>4, SumOfReplaced
<1> QED
  BY <1>3, <1>4 DEF LotSum, LotBooks

\* The leader collects: the starting price is burned, the principal may be lent
\* again, and the UNIT goes.
LEMMA CollectKeeps ==
  ASSUME BankSound, NEW n, NEW u, n \in Listed, Collect(n, u),
         UNCHANGED <<prices, unbacked, reserveRatio, now>>
  PROVE  /\ USTNTypes' /\ LotBooks' /\ LimitTypes' /\ unitBalance' \in Nat
         /\ Claims' - Cover' <= Claims - Cover
         /\ Balanced => Balanced'
<1> USE DEF BankSound
<1> DEFINE a == auctionList[n]
           lot == [a EXCEPT !.state = 2]
           principal == a.startValue - a.debt
           cost == a.startValue
           sales == a.sales
           interest == a.debt
<1>1. a \in SoundLot
  BY DEF LotBooks, Listed
<1>2. a \in Auction /\ cost \in Nat /\ sales \in Nat /\ interest \in Nat /\ principal \in Nat
  BY <1>1 DEF SoundLot, Auction
<1>3. /\ a.state # 2
      /\ cost <= balance[AuctionManager] /\ cost <= totalSupply
      /\ totalSupply' = totalSupply - cost
      /\ balance' = [balance EXCEPT ![AuctionManager] = balance[AuctionManager] - cost]
      /\ sales <= unitBalance /\ interest <= interestMint
      /\ unitBalance' = unitBalance - sales
      /\ interestMint' = interestMint - interest
      /\ bankLoanLimit' = bankLoanLimit + principal
      /\ UNCHANGED <<depositVars, loansTotalInterest, setAside, loanUsers, loanAccount, bider, bidValue>>
  BY DEF Collect, GetAuction, AuctionOver, Burn, ReduceTotalSupply
<1>4. auctionList' = [auctionList EXCEPT ![n] = lot]
  BY DEF Collect, GetAuction
<1>5. /\ lot \in Auction /\ lot.state = 2 /\ lot.startValue = cost /\ lot.debt = interest
      /\ lot.sales = sales
  BY <1>2 DEF Auction
<1>6. lot \in SoundLot
  BY <1>1, <1>5 DEF SoundLot
<1>7. /\ LotPrincipal(lot) = 0 /\ LotInterest(lot) = 0 /\ Collected(lot) = sales
      /\ LotPrincipal(a) = principal /\ LotInterest(a) = interest /\ Collected(a) = 0
  BY <1>3, <1>5 DEF LotPrincipal, LotInterest, Collected
<1> HIDE DEF lot, principal, cost, sales, interest
<1>8. /\ auctionList' \in Seq(SoundLot) /\ Len(auctionList') <= MaxAuctions
      /\ \A w : Maps(w, SoundLot, Int) => LotSum(w)' = LotSum(w) + w[lot] - w[a]
  BY <1>4, <1>6, LotChanged
<1> HIDE DEF a
<1>9. LotBooks'
  BY <1>3, <1>8 DEF LotBooks
<1>10. balance' \in [Accounts -> Nat] /\ Balances' = Balances - cost
  <2> DEFINE m == AuctionManager
             d == 0 - cost
  <2>1. m \in Accounts /\ balance[m] \in Nat
    BY USTNAssumption DEF USTNTypes
  <2>2. d \in Int /\ balance[m] + d \in Nat /\ balance[m] + d = balance[m] - cost
    BY <1>2, <1>3, <2>1
  <2>3. balance' = [balance EXCEPT ![m] = balance[m] - cost]
    BY <1>3
  <2> HIDE DEF d, m
  <2>4. balance' = [balance EXCEPT ![m] = balance[m] + d]
    BY <2>2, <2>3
  <2>5. balance' \in [Accounts -> Nat] /\ Balances' = Balances + d /\ Balances \in Nat
    BY <2>1, <2>2, <2>4, BalanceChanged
  <2> QED
    BY <1>2, <2>5 DEF d
<1>11. USTNTypes'
  BY <1>2, <1>3, <1>10 DEF USTNTypes, prices
<1>12. LimitTypes'
  BY <1>2, <1>3 DEF LimitTypes
<1>13. unitBalance' \in Nat
  BY <1>2, <1>3 DEF LoanBooks
<1>14. Claims' - Cover' <= Claims - Cover
  <2>1. Deposits' = Deposits
    BY <1>3 DEF Deposits, depositVars
  <2>2. loansTotalInterest' = loansTotalInterest /\ unbacked' = unbacked
        /\ totalSupply' = totalSupply - cost
    BY <1>3
  <2>3. Balances \in Nat /\ Deposits \in Nat /\ loansTotalInterest \in Nat
        /\ totalSupply \in Nat /\ unbacked \in Nat
    BY SumsAreNat
  <2> QED
    BY ONLY <1>2, <1>10, <2>1, <2>2, <2>3 DEF Claims, Cover
<1>15. ASSUME Balanced PROVE Balanced'
  <2>1. /\ LotSum(LotPrincipalOf)' = LotSum(LotPrincipalOf) - principal
        /\ LotSum(LotInterestOf)' = LotSum(LotInterestOf) - interest
        /\ LotSum(CollectedOf)' = LotSum(CollectedOf) + sales
    <3>1. /\ LotSum(LotPrincipalOf)' = LotSum(LotPrincipalOf) + LotPrincipal(lot) - LotPrincipal(a)
          /\ LotSum(LotInterestOf)' = LotSum(LotInterestOf) + LotInterest(lot) - LotInterest(a)
          /\ LotSum(CollectedOf)' = LotSum(CollectedOf) + Collected(lot) - Collected(a)
      BY <1>1, <1>6, <1>8, WeightOfLot, WeightsAreNat
    <3> QED
      BY <1>2, <1>7, <3>1, BooksAreInt
  <2>2. /\ LoanSum(PrincipalOf)' = LoanSum(PrincipalOf)
        /\ LoanSum(InterestOf)' = LoanSum(InterestOf)
        /\ LoanSum(MortgageOf)' = LoanSum(MortgageOf)
    BY <1>3, SameLoans
  <2>3. setAside' = setAside
    BY <1>3
  <2>4. bankLoanLimit \in Nat /\ interestMint \in Nat /\ unitBalance \in Nat
    BY DEF LimitTypes, LoanBooks
  <2>5. setAside' = bankLoanLimit' + LoanSum(PrincipalOf)' + LotSum(LotPrincipalOf)'
    BY <1>2, <1>3, <1>15, <2>1, <2>2, <2>3, <2>4, BooksAreInt DEF Balanced
  <2>6. LoanSum(InterestOf)' + LotSum(LotInterestOf)' <= interestMint'
    BY <1>2, <1>3, <1>15, <2>1, <2>2, <2>4, BooksAreInt DEF Balanced
  <2>7. LoanSum(MortgageOf)' = unitBalance' + LotSum(CollectedOf)'
    BY <1>2, <1>3, <1>15, <2>1, <2>2, <2>4, BooksAreInt DEF Balanced
  <2> QED
    BY <2>5, <2>6, <2>7 DEF Balanced
<1> QED
  BY <1>9, <1>11, <1>12, <1>13, <1>14, <1>15

\* A lot that counts what it did.
SameCounts(a, b) ==
  LotPrincipal(a) = LotPrincipal(b) /\ LotInterest(a) = LotInterest(b) /\ Collected(a) = Collected(b)

LEMMA LotRevised ==
  ASSUME NEW a, NEW x, a \in SoundLot, x \in Nat
  PROVE  /\ [a EXCEPT !.nowValue = x] \in SoundLot /\ SameCounts([a EXCEPT !.nowValue = x], a)
         /\ [a EXCEPT !.timeOver = x] \in SoundLot /\ SameCounts([a EXCEPT !.timeOver = x], a)
<1> DEFINE b == [a EXCEPT !.nowValue = x]
           c == [a EXCEPT !.timeOver = x]
<1>1. a \in Auction /\ a.debt <= a.startValue
  BY DEF SoundLot
<1>2. /\ b \in Auction /\ b.state = a.state /\ b.startValue = a.startValue
      /\ b.debt = a.debt /\ b.sales = a.sales
  BY <1>1 DEF Auction
<1>3. /\ c \in Auction /\ c.state = a.state /\ c.startValue = a.startValue
      /\ c.debt = a.debt /\ c.sales = a.sales
  BY <1>1 DEF Auction
<1> HIDE DEF b, c
<1>4. b \in SoundLot /\ c \in SoundLot
  BY <1>1, <1>2, <1>3 DEF SoundLot
<1>5. SameCounts(b, a)
  BY <1>2 DEF SameCounts, LotPrincipal, LotInterest, Collected
<1>6. SameCounts(c, a)
  BY <1>3 DEF SameCounts, LotPrincipal, LotInterest, Collected
<1> QED
  BY <1>4, <1>5, <1>6 DEF b, c

\* A bid moves USTN and raises the price of a lot.
LEMMA BidKeeps ==
  ASSUME BankSound, NEW n, NEW u, NEW amount, n \in Listed, u \in Bidders,
         amount \in BidAmounts, Bid(n, u, amount), now' = now
  PROVE  /\ balance' \in [Accounts -> Nat] /\ Balances' = Balances
         /\ LotBooks'
         /\ LotSum(LotPrincipalOf)' = LotSum(LotPrincipalOf)
         /\ LotSum(LotInterestOf)' = LotSum(LotInterestOf)
         /\ LotSum(CollectedOf)' = LotSum(CollectedOf)
<1> USE DEF BankSound
<1> DEFINE a == auctionList[n]
           price == bidValue[n][u] + amount
           lot == [a EXCEPT !.nowValue = price]
<1>1. u \in Accounts /\ amount \in Nat /\ n \in AuctionIds /\ AuctionManager \in Accounts
  BY FinanceAssumption, USTNAssumption, USTNAuctionAssumption DEF LotBooks, Listed, AuctionIds
<1>2. a \in SoundLot
  BY DEF LotBooks, Listed
<1>3. /\ bidValue \in [AuctionIds -> [Bidders -> Nat]]
      /\ bider \in [AuctionIds -> Bidders \cup {NoOne}] /\ price \in Nat
  BY <1>1 DEF LotBooks
<1>4. /\ balance[u] > amount /\ Move(u, AuctionManager, amount)
      /\ auctionList' = [auctionList EXCEPT ![n] = lot]
      /\ bider' = [bider EXCEPT ![n] = u]
      /\ bidValue' = [bidValue EXCEPT ![n][u] = price]
  BY DEF Bid, BidCost
<1>5. lot \in SoundLot /\ SameCounts(lot, a)
  <2> HIDE DEF a, price
  <2> QED
    BY <1>2, <1>3, LotRevised
<1> HIDE DEF lot, price
<1>7. balance' \in [Accounts -> Nat] /\ Balances' = Balances
  <2>1. amount <= balance[u]
    BY <1>1, <1>4 DEF USTNTypes
  <2> QED
    BY <1>1, <1>4, <2>1, BalanceMoved
<1>8. /\ auctionList' \in Seq(SoundLot) /\ Len(auctionList') <= MaxAuctions
      /\ \A w : Maps(w, SoundLot, Int) => LotSum(w)' = LotSum(w) + w[lot] - w[a]
  BY <1>4, <1>5, LotChanged
<1> HIDE DEF a
<1>9. bider' \in [AuctionIds -> Bidders \cup {NoOne}]
  BY <1>1, <1>3, <1>4
<1>10. bidValue' \in [AuctionIds -> [Bidders -> Nat]]
  BY <1>1, <1>3, <1>4
<1>11. LotBooks'
  BY <1>8, <1>9, <1>10 DEF LotBooks
<1>12. /\ LotSum(LotPrincipalOf)' = LotSum(LotPrincipalOf)
       /\ LotSum(LotInterestOf)' = LotSum(LotInterestOf)
       /\ LotSum(CollectedOf)' = LotSum(CollectedOf)
  <2>1. /\ LotSum(LotPrincipalOf)' = LotSum(LotPrincipalOf) + LotPrincipal(lot) - LotPrincipal(a)
        /\ LotSum(LotInterestOf)' = LotSum(LotInterestOf) + LotInterest(lot) - LotInterest(a)
        /\ LotSum(CollectedOf)' = LotSum(CollectedOf) + Collected(lot) - Collected(a)
    BY <1>2, <1>5, <1>8, WeightOfLot, WeightsAreNat
  <2> QED
    BY <1>2, <1>5, <2>1, LotCounts, BooksAreInt DEF SameCounts
<1> QED
  BY <1>7, <1>11, <1>12

LEMMA BidWithdrawalKeeps ==
  ASSUME BankSound, NEW n, NEW u, n \in Listed, u \in Bidders, BidWithdrawal(n, u), now' = now
  PROVE  balance' \in [Accounts -> Nat] /\ Balances' = Balances /\ LotBooks'
<1> USE DEF BankSound
<1>1. u \in Accounts /\ n \in AuctionIds /\ AuctionManager \in Accounts
  BY USTNAssumption, USTNAuctionAssumption DEF LotBooks, Listed, AuctionIds
<1>2. bidValue \in [AuctionIds -> [Bidders -> Nat]] /\ bidValue[n][u] \in Nat
  BY <1>1 DEF LotBooks
<1>3. /\ u = AuctionManager \/ bidValue[n][u] <= balance[AuctionManager]
      /\ Move(AuctionManager, u, bidValue[n][u])
      /\ bidValue' = [bidValue EXCEPT ![n][u] = 0]
      /\ UNCHANGED <<auctionList, bider>>
  BY DEF BidWithdrawal, BidBack
<1>4. balance' \in [Accounts -> Nat] /\ Balances' = Balances
  <2> DEFINE amount == bidValue[n][u]
             m == AuctionManager
  <2>1. m \in Accounts /\ u \in Accounts /\ amount \in Nat
        /\ (m = u \/ amount <= balance[m]) /\ Move(m, u, amount)
    BY <1>1, <1>2, <1>3
  <2> HIDE DEF amount, m
  <2> QED
    BY <2>1, BalanceMoved
<1>5. bidValue' \in [AuctionIds -> [Bidders -> Nat]]
  BY <1>1, <1>2, <1>3
<1> QED
  BY <1>3, <1>4, <1>5 DEF LotBooks

\* A restart only moves deadlines.
LEMMA UpgradeStateKeeps ==
  ASSUME BankSound, UpgradeState, now' = now
  PROVE  /\ LotBooks'
         /\ LotSum(LotPrincipalOf)' = LotSum(LotPrincipalOf)
         /\ LotSum(LotInterestOf)' = LotSum(LotInterestOf)
         /\ LotSum(CollectedOf)' = LotSum(CollectedOf)
<1> USE DEF BankSound
<1> DEFINE s == auctionList
           t == auctionList'
<1>1. /\ s \in Seq(SoundLot) /\ Len(s) \in Nat /\ DOMAIN s = 1..Len(s)
      /\ \A i \in 1..Len(s) : s[i] \in SoundLot
  BY DEF LotBooks
<1>2. t = [i \in 1..Len(s) |-> IF s[i].timeOver < now /\ bider[i] = NoOne
                               THEN [s[i] EXCEPT !.timeOver = now + BidDuration] ELSE s[i]]
  BY DEF UpgradeState, Listed
<1>3. ASSUME NEW i \in 1..Len(s) PROVE t[i] \in SoundLot /\ SameCounts(t[i], s[i])
  <2> DEFINE a == s[i]
             lot == [a EXCEPT !.timeOver = now + BidDuration]
  <2>1. a \in SoundLot /\ now + BidDuration \in Nat
    BY <1>1, Constants DEF ClockTypes
  <2>3. lot \in SoundLot /\ SameCounts(lot, a)
    <3> DEFINE time == now + BidDuration
    <3> HIDE DEF a, time
    <3>1. [a EXCEPT !.timeOver = time] \in SoundLot
          /\ SameCounts([a EXCEPT !.timeOver = time], a)
      BY <2>1, LotRevised DEF time
    <3> QED
      BY <3>1 DEF time
  <2>4. t[i] = lot \/ t[i] = a
    BY <1>2
  <2> HIDE DEF lot, a
  <2>5. t[i] \in SoundLot /\ SameCounts(t[i], a)
    BY <2>1, <2>3, <2>4 DEF SameCounts
  <2> QED
    BY <2>5 DEF a
<1>4. DOMAIN t = 1..Len(s)
  BY <1>2
<1>5. t \in [1..Len(s) -> SoundLot]
  BY <1>2, <1>3
<1>6. t \in Seq(SoundLot) /\ Len(t) = Len(s)
  BY <1>1, <1>5, SeqDef
<1>7. LotBooks'
  BY <1>6 DEF LotBooks, UpgradeState
<1>8. ASSUME NEW w, \A i \in 1..Len(s) : w[t[i]] = w[s[i]] PROVE SumSeq(w, t) = SumSeq(w, s)
  <2>1. [i \in DOMAIN t |-> w[t[i]]] = [i \in DOMAIN s |-> w[s[i]]]
    BY <1>1, <1>4, <1>8
  <2> QED
    BY <1>1, <1>4, <2>1 DEF SumSeq
<1>9. \A i \in 1..Len(s) : /\ LotPrincipalOf[t[i]] = LotPrincipalOf[s[i]]
                           /\ LotInterestOf[t[i]] = LotInterestOf[s[i]]
                           /\ CollectedOf[t[i]] = CollectedOf[s[i]]
  BY <1>1, <1>3, WeightOfLot DEF SameCounts
<1>10. /\ SumSeq(LotPrincipalOf, t) = SumSeq(LotPrincipalOf, s)
       /\ SumSeq(LotInterestOf, t) = SumSeq(LotInterestOf, s)
       /\ SumSeq(CollectedOf, t) = SumSeq(CollectedOf, s)
  <2> HIDE DEF s, t
  <2> QED
    BY <1>8, <1>9
<1> QED
  BY <1>7, <1>10 DEF LotSum

-----------------------------------------------------------------------------
(***************************************************************************)
(* Liquidation.  Both passes are taken loan by loan: what a loan counts    *)
(* after them, with the lot it may have become, is what it counted before  *)
(* and the interest it has borne.                                          *)
(***************************************************************************)

\* The loans of the past and of now.
PastLoan == {loan \in SoundLoan : loan.timestamp <= now}

LEMMA LiquidatedLoan ==
  ASSUME NEW loan, loan \in PastLoan, now \in Nat
  PROVE  /\ Rated(Accrued(loan)) \in PastLoan /\ Accrued(loan) \in PastLoan
         /\ Bear(loan) \in Nat
         /\ Mortgage(Rated(Accrued(loan))) = Mortgage(loan)
         /\ \/ /\ Falling(loan) = <<>>
               /\ Principal(Rated(Accrued(loan))) = Principal(loan)
               /\ OwedInterest(Rated(Accrued(loan))) = OwedInterest(loan) + Bear(loan)
            \/ /\ Falling(loan) = <<Accrued(loan)>>
               /\ Principal(Rated(Accrued(loan))) = 0
               /\ OwedInterest(Rated(Accrued(loan))) = 0
               /\ LotPrincipal(Lot(Accrued(loan))) = Principal(loan)
               /\ LotInterest(Lot(Accrued(loan))) = OwedInterest(loan) + Bear(loan)
               /\ Collected(Lot(Accrued(loan))) = 0
<1> DEFINE a == Accrued(loan)
           new == Rated(Accrued(loan))
<1>1. loan \in SoundLoan /\ loan.timestamp <= now
  BY DEF PastLoan
<1>2. /\ a \in SoundLoan /\ a.timestamp <= now
      /\ Bear(loan) \in Nat /\ a.interest = loan.interest + Bear(loan)
      /\ a.debt = loan.debt + Bear(loan)
      /\ a.mortgage = loan.mortgage
      /\ a.liquidationState = loan.liquidationState
      /\ ~Open(loan) => Bear(loan) = 0
  BY <1>1, AccruedIsSound
<1>3. /\ new \in SoundLoan
      /\ new.timestamp = a.timestamp /\ new.mortgage = a.mortgage
      /\ new.debt = a.debt /\ new.interest = a.interest
      /\ ~Open(a) => new = a
  BY <1>2, RatedIsSound
<1>4. Falling(loan) = IF Open(a) /\ ~Open(new) THEN <<a>> ELSE <<>>
  BY DEF Falling
<1>5. /\ LotPrincipal(Lot(a)) = a.debt - a.interest
      /\ LotInterest(Lot(a)) = a.interest
      /\ Collected(Lot(a)) = 0
  BY <1>2, LotIsSound
<1>6. Open(a) <=> Open(loan)
  BY <1>2 DEF Open
<1> HIDE DEF a, new
<1>7. /\ new \in PastLoan /\ a \in PastLoan /\ Mortgage(new) = Mortgage(loan)
  BY <1>2, <1>3 DEF PastLoan, Mortgage
<1>8. /\ loan.debt \in Nat /\ loan.interest \in Nat
  BY <1>1, LoanFields
<1>9. /\ Open(loan) => Principal(loan) = loan.debt - loan.interest
                       /\ OwedInterest(loan) = loan.interest
      /\ ~Open(loan) => Principal(loan) = 0 /\ OwedInterest(loan) = 0
      /\ Open(new) => Principal(new) = new.debt - new.interest /\ OwedInterest(new) = new.interest
      /\ ~Open(new) => Principal(new) = 0 /\ OwedInterest(new) = 0
  BY <1>1, <1>3, LoanCounts
<1>10. a.debt - a.interest = loan.debt - loan.interest
  BY <1>2, <1>8
<1>11. \/ /\ Falling(loan) = <<>>
          /\ Principal(new) = Principal(loan)
          /\ OwedInterest(new) = OwedInterest(loan) + Bear(loan)
       \/ /\ Falling(loan) = <<a>>
          /\ Principal(new) = 0
          /\ OwedInterest(new) = 0
          /\ LotPrincipal(Lot(a)) = Principal(loan)
          /\ LotInterest(Lot(a)) = OwedInterest(loan) + Bear(loan)
          /\ Collected(Lot(a)) = 0
  <2>1. CASE Open(loan) /\ Open(new)
    <3>1. Falling(loan) = <<>>
      BY <1>4, <2>1
    <3>2. Principal(new) = Principal(loan)
      BY <1>3, <1>9, <1>10, <2>1
    <3>3. OwedInterest(new) = OwedInterest(loan) + Bear(loan)
      BY <1>2, <1>3, <1>9, <2>1
    <3> QED
      BY <3>1, <3>2, <3>3
  <2>2. CASE Open(loan) /\ ~Open(new)
    <3>1. Falling(loan) = <<a>>
      BY <1>4, <1>6, <2>2
    <3>2. LotPrincipal(Lot(a)) = Principal(loan)
      BY <1>5, <1>9, <1>10, <2>2
    <3>3. LotInterest(Lot(a)) = OwedInterest(loan) + Bear(loan)
      BY <1>2, <1>5, <1>9, <2>2
    <3> QED
      BY <1>5, <1>9, <2>2, <3>1, <3>2, <3>3
  <2>3. CASE ~Open(loan)
    <3>1. Falling(loan) = <<>> /\ ~Open(new) /\ Bear(loan) = 0
      BY <1>2, <1>3, <1>4, <1>6, <2>3
    <3>2. Principal(new) = Principal(loan) /\ OwedInterest(new) = 0 /\ OwedInterest(loan) = 0
      BY <1>9, <2>3, <3>1
    <3> QED
      BY <3>1, <3>2
  <2> QED
    BY <2>1, <2>2, <2>3
<1> QED
  BY <1>2, <1>7, <1>11 DEF a, new

\* What the elements of G[x], each made an L, count together is H[x].
Counts(D, w, L, G, H) == \A x \in D : SumSeq(Weight(D, w, L), G[x]) = H[x]

\* What the loans that fall become counts what H says, loan by loan.
LEMMA SumOfListed ==
  ASSUME NEW D, NEW R, NEW s, NEW G, NEW L, NEW w, NEW H, s \in Seq(D), Maps(G, D, Seq(D)),
         Maps(L, D, R), Maps(w, R, Int),
         Counts(D, w, L, G, H)
  PROVE  /\ FlattenSeq(Mapped(G, s)) \in Seq(D)
         /\ Mapped(L, FlattenSeq(Mapped(G, s))) \in Seq(R)
         /\ SumSeq(w, Mapped(L, FlattenSeq(Mapped(G, s)))) = SumSeq(H, s)
<1> DEFINE wL == Weight(D, w, L)
           ss == Mapped(G, s)
           t == FlattenSeq(ss)
           f == [m \in DOMAIN ss |-> SumSeq(wL, ss[m])]
<1>1. Maps(wL, D, Int)
  BY DEF Weight, Maps
<1>2. ss \in Seq(Seq(D)) /\ DOMAIN ss = DOMAIN s
  BY MappedIsSeq
<1>3. \A m \in DOMAIN s : s[m] \in D /\ ss[m] = G[s[m]]
  BY DEF Mapped
<1>4. f = [m \in DOMAIN s |-> H[s[m]]]
  <2> HIDE DEF ss
  <2>1. \A m \in DOMAIN s : SumSeq(wL, ss[m]) = H[s[m]]
    BY <1>3 DEF Counts
  <2> QED
    BY <1>2, <2>1
<1> HIDE DEF wL, ss, f
<1>5. t \in Seq(D) /\ SumSeq(wL, t) = SumFunctionOnSet(f, DOMAIN ss)
  BY <1>1, <1>2, SumOfFlattened DEF f
<1> HIDE DEF t
<1>6. Mapped(L, t) \in Seq(R)
  BY <1>5, MappedIsSeq
<1>7. SumSeq(w, Mapped(L, t)) = SumSeq(wL, t)
  BY <1>5, SumOfMapped DEF wL
<1>8. SumSeq(w, Mapped(L, t)) = SumSeq(H, s)
  BY <1>2, <1>4, <1>5, <1>7 DEF SumSeq
<1> QED
  BY <1>5, <1>6, <1>8 DEF t, ss

\* The passes, as functions of a loan.
AccruedOf == [loan \in PastLoan |-> Accrued(loan)]
BearOf == [loan \in PastLoan |-> Bear(loan)]
RatedOf == [loan \in PastLoan |-> Rated(Accrued(loan))]
FallingOf == [loan \in PastLoan |-> Falling(loan)]
LotOf == [loan \in PastLoan |-> Lot(loan)]

\* What the loans that fall count for a weight of lots.
FallOf(w) == [loan \in PastLoan |-> SumSeq(Weight(PastLoan, w, LotOf), FallingOf[loan])]

LEMMA PassesMap ==
  ASSUME now \in Nat
  PROVE  /\ Maps(BearOf, PastLoan, Nat) /\ Maps(BearOf, PastLoan, Int)
         /\ Maps(RatedOf, PastLoan, PastLoan)
         /\ Maps(FallingOf, PastLoan, Seq(PastLoan)) /\ Maps(LotOf, PastLoan, SoundLot)
         /\ \A w : Maps(w, SoundLoan, Int) => Maps(w, PastLoan, Int)
<1>1. ASSUME NEW loan \in PastLoan
      PROVE  /\ BearOf[loan] \in Nat /\ RatedOf[loan] \in PastLoan
             /\ FallingOf[loan] \in Seq(PastLoan) /\ LotOf[loan] \in SoundLot
  <2>1. Bear(loan) \in Nat /\ Rated(Accrued(loan)) \in PastLoan
    BY LiquidatedLoan
  <2>2. Falling(loan) \in Seq(PastLoan)
    <3>1. Accrued(loan) \in PastLoan
      BY LiquidatedLoan
    <3> DEFINE a == Accrued(loan)
               D == PastLoan
    <3>2. Falling(loan) = <<>> \/ Falling(loan) = <<a>>
      BY DEF Falling
    <3>3. a \in D
      BY <3>1
    <3> HIDE DEF a, D
    <3>4. <<>> \in Seq(D) /\ <<a>> \in Seq(D)
      BY <3>3
    <3> QED
      BY <3>2, <3>4 DEF D
  <2>3. Lot(loan) \in SoundLot
    BY LotIsSound DEF PastLoan
  <2> QED
    BY <2>1, <2>2, <2>3 DEF BearOf, RatedOf, FallingOf, LotOf
<1>2. \A loan \in PastLoan : loan \in SoundLoan
  BY DEF PastLoan
<1> QED
  BY <1>1, <1>2 DEF Maps

\* What the passes do to each book, loan by loan.
LEMMA PassCounts ==
  ASSUME now \in Nat, NEW loan, loan \in PastLoan
  PROVE  /\ PrincipalOf[loan] = PrincipalOf[RatedOf[loan]] + FallOf(LotPrincipalOf)[loan]
         /\ InterestOf[loan] + BearOf[loan]
              = InterestOf[RatedOf[loan]] + FallOf(LotInterestOf)[loan]
         /\ MortgageOf[loan] = MortgageOf[RatedOf[loan]]
         /\ FallOf(CollectedOf)[loan] = 0
         /\ FallOf(LotPrincipalOf)[loan] \in Nat /\ FallOf(LotInterestOf)[loan] \in Nat
<1> DEFINE a == Accrued(loan)
           new == Rated(Accrued(loan))
           bear == Bear(loan)
<1>1. /\ new \in PastLoan /\ a \in PastLoan /\ bear \in Nat
      /\ Mortgage(new) = Mortgage(loan)
      /\ \/ /\ Falling(loan) = <<>>
            /\ Principal(new) = Principal(loan)
            /\ OwedInterest(new) = OwedInterest(loan) + bear
         \/ /\ Falling(loan) = <<a>>
            /\ Principal(new) = 0
            /\ OwedInterest(new) = 0
            /\ LotPrincipal(Lot(a)) = Principal(loan)
            /\ LotInterest(Lot(a)) = OwedInterest(loan) + bear
            /\ Collected(Lot(a)) = 0
  BY LiquidatedLoan
<1>2. /\ RatedOf[loan] = new /\ FallingOf[loan] = Falling(loan) /\ BearOf[loan] = bear
      /\ LotOf[a] = Lot(a)
  BY <1>1 DEF RatedOf, FallingOf, BearOf, LotOf
<1>3. loan \in SoundLoan /\ new \in SoundLoan /\ a \in SoundLoan
  BY <1>1 DEF PastLoan
<1>4. Lot(a) \in SoundLot
  BY <1>3, LotIsSound
<1> HIDE DEF a, new, bear
<1>5. ASSUME NEW w, Maps(w, SoundLot, Int)
      PROVE  /\ Falling(loan) = <<>> => FallOf(w)[loan] = 0
             /\ Falling(loan) = <<a>> => FallOf(w)[loan] = w[Lot(a)]
  <2> DEFINE D == PastLoan
             wL == Weight(D, w, LotOf)
  <2>1. Maps(wL, D, Int)
    BY <1>5, PassesMap DEF Weight, Maps
  <2>2. FallOf(w)[loan] = SumSeq(wL, Falling(loan))
    BY <1>2 DEF FallOf
  <2>3. wL[a] = w[Lot(a)]
    BY <1>1, <1>2 DEF Weight
  <2> HIDE DEF wL, D
  <2>4. SumSeq(wL, <<>>) = 0 /\ SumSeq(wL, <<a>>) = wL[a]
    BY <1>1, <2>1, ShortSums DEF D
  <2> QED
    BY <2>2, <2>3, <2>4
<1>6. /\ Falling(loan) = <<>> => /\ FallOf(LotPrincipalOf)[loan] = 0
                                 /\ FallOf(LotInterestOf)[loan] = 0
                                 /\ FallOf(CollectedOf)[loan] = 0
      /\ Falling(loan) = <<a>> => /\ FallOf(LotPrincipalOf)[loan] = LotPrincipal(Lot(a))
                                  /\ FallOf(LotInterestOf)[loan] = LotInterest(Lot(a))
                                  /\ FallOf(CollectedOf)[loan] = Collected(Lot(a))
  BY <1>4, <1>5, WeightsAreNat, WeightOfLot
<1>7. /\ Principal(loan) \in Nat /\ OwedInterest(loan) \in Nat /\ Mortgage(loan) \in Nat
      /\ PrincipalOf[loan] = Principal(loan) /\ InterestOf[loan] = OwedInterest(loan)
      /\ MortgageOf[loan] = Mortgage(loan)
      /\ PrincipalOf[new] = Principal(new) /\ InterestOf[new] = OwedInterest(new)
      /\ MortgageOf[new] = Mortgage(new)
  BY <1>3, LoanCounts, WeightOf
<1>8. CASE Falling(loan) = <<>>
  <2>1. /\ FallOf(LotPrincipalOf)[loan] = 0 /\ FallOf(LotInterestOf)[loan] = 0
        /\ FallOf(CollectedOf)[loan] = 0
    BY <1>6, <1>8
  <2>2. Principal(new) = Principal(loan) /\ OwedInterest(new) = OwedInterest(loan) + bear
    <3>1. <<a>> # <<>>
      OBVIOUS
    <3> QED
      BY <1>1, <1>8, <3>1
  <2> QED
    BY ONLY <1>1, <1>2, <1>7, <2>1, <2>2
<1>9. CASE Falling(loan) = <<a>>
  <2>1. /\ FallOf(LotPrincipalOf)[loan] = LotPrincipal(Lot(a))
        /\ FallOf(LotInterestOf)[loan] = LotInterest(Lot(a))
        /\ FallOf(CollectedOf)[loan] = Collected(Lot(a))
    BY <1>6, <1>9
  <2>2. /\ Principal(new) = 0 /\ OwedInterest(new) = 0
        /\ LotPrincipal(Lot(a)) = Principal(loan)
        /\ LotInterest(Lot(a)) = OwedInterest(loan) + bear
        /\ Collected(Lot(a)) = 0
    <3>1. <<a>> # <<>>
      OBVIOUS
    <3> QED
      BY <1>1, <1>9, <3>1
  <2> QED
    BY ONLY <1>1, <1>2, <1>7, <2>1, <2>2
<1> QED
  BY <1>1, <1>8, <1>9

\* The loans liquidation passes over are those of the borrowers, of the past.
LEMMA LoansArePast ==
  ASSUME BankSound
  PROVE  Maps(loanAccount, Borrowers, Seq(PastLoan)) /\ AllLoans \in Seq(PastLoan)
         /\ \A i \in DOMAIN AllLoans : AllLoans[i] \in PastLoan
<1> USE DEF BankSound
<1> DEFINE D == PastLoan
           users == loanUsers
           accounts == loanAccount
           s == AllLoans
<1>1. now \in Nat /\ users \in Seq(Borrowers)
  BY DEF ClockTypes, LoanBooks
<1>2. Maps(BearOf, D, Int)
  BY <1>1, PassesMap
<1>3. Maps(accounts, Borrowers, Seq(D))
  <2> SUFFICES ASSUME NEW u \in Borrowers PROVE accounts[u] \in Seq(D)
    BY DEF Maps
  <2> DEFINE own == accounts[u]
  <2>1. own \in Seq(SoundLoan) /\ \A i \in DOMAIN own : own[i].timestamp <= now
    BY DEF LoanBooks
  <2> HIDE DEF own
  <2>2. Len(own) \in Nat /\ DOMAIN own = 1..Len(own) /\ \A i \in 1..Len(own) : own[i] \in SoundLoan
    BY <2>1
  <2>3. \A i \in 1..Len(own) : own[i] \in D
    BY <2>1, <2>2 DEF PastLoan
  <2>4. own \in [1..Len(own) -> D]
    BY <2>1, <2>2, <2>3
  <2>5. own \in Seq(D)
    BY <2>2, <2>4, SeqDef
  <2> QED
    BY <2>5 DEF own
<1>4. s \in Seq(D) /\ \A i \in DOMAIN s : s[i] \in D
  <2> HIDE DEF D
  <2>1. Maps(BearOf, D, Int) /\ users \in Seq(Borrowers)
    BY <1>1, <1>2
  <2>2. LoansOf(users, accounts) \in Seq(D)
    BY <1>3, <2>1, SumByBorrower
  <2> QED
    BY <2>2, AllLoansAreLoans
<1> QED
  BY <1>3, <1>4

\* Liquidation lists the loans that fall, in their order.
LEMMA LiquidationLists ==
  ASSUME BankSound, Liquidation
  PROVE  /\ FlattenSeq(Mapped(FallingOf, AllLoans)) \in Seq(PastLoan)
         /\ AuctionStart(FlattenSeq(Mapped(FallingOf, AllLoans)))
<1> DEFINE D == PastLoan
           s == AllLoans
           fallen == FlattenSeq(Mapped(FallingOf, s))
<1>1. s \in Seq(D) /\ \A i \in DOMAIN s : s[i] \in D
  BY LoansArePast
<1>2. now \in Nat
  BY DEF BankSound, ClockTypes
<1>3. Maps(FallingOf, D, Seq(D)) /\ Maps(LotOf, D, SoundLot) /\ Maps(LotPrincipalOf, SoundLot, Int)
  BY <1>2, PassesMap, WeightsAreNat
<1>4. fallen \in Seq(D)
  <2> DEFINE H == FallOf(LotPrincipalOf)
  <2>1. Counts(D, LotPrincipalOf, LotOf, FallingOf, H)
    BY DEF Counts, FallOf
  <2> HIDE DEF H, D, s
  <2>2. FlattenSeq(Mapped(FallingOf, s)) \in Seq(D)
    BY ONLY <1>1, <1>3, <2>1, SumOfListed
  <2> QED
    BY <2>2
<1>5. AuctionStart(fallen)
  <2>1. \A i \in DOMAIN s : FallingOf[s[i]] = Falling(s[i])
    BY <1>1 DEF FallingOf
  <2>2. [i \in DOMAIN s |-> Falling(s[i])] = Mapped(FallingOf, s)
    BY <2>1 DEF Mapped
  <2> HIDE DEF s
  <2> QED
    BY <2>2 DEF Liquidation, s
<1> QED
  BY <1>4, <1>5

LEMMA LiquidationKeeps ==
  ASSUME BankSound, Liquidation, UNCHANGED <<prices, unbacked, reserveRatio, now>>
  PROVE  /\ USTNTypes' /\ LoanBooks' /\ LotBooks' /\ LimitTypes'
         /\ Claims' - Cover' <= Claims - Cover
         /\ Balanced => Balanced'
<1> USE DEF BankSound
<1> DEFINE D == PastLoan
           users == loanUsers
           accounts == loanAccount
           after == loanAccount'
           s == AllLoans
           bear == SumSeq(BearOf, s)
           fallen == FlattenSeq(Mapped(FallingOf, s))
           lots == Mapped(LotOf, fallen)
<1>1. now \in Nat /\ users \in Seq(Borrowers) /\ auctionList \in Seq(SoundLot)
  BY DEF ClockTypes, LoanBooks, LotBooks
<1>2. /\ Maps(BearOf, D, Nat) /\ Maps(BearOf, D, Int) /\ Maps(RatedOf, D, D)
      /\ Maps(FallingOf, D, Seq(D)) /\ Maps(LotOf, D, SoundLot)
      /\ \A w : Maps(w, SoundLoan, Int) => Maps(w, D, Int)
  BY <1>1, PassesMap
<1>3. Maps(accounts, Borrowers, Seq(D))
  BY LoansArePast
<1>4. s \in Seq(D) /\ \A i \in DOMAIN s : s[i] \in D
  BY LoansArePast
<1>5. /\ loansTotalInterest' = loansTotalInterest + bear
      /\ interestMint' = interestMint + bear
      /\ totalSupply' = totalSupply + bear
  <2>1. \A i \in DOMAIN s : BearOf[s[i]] = Accrued(s[i]).debt - s[i].debt
    BY <1>4 DEF BearOf, Bear
  <2>2. [i \in DOMAIN s |-> Accrued(s[i]).debt - s[i].debt] = [i \in DOMAIN s |-> BearOf[s[i]]]
    BY <2>1
  <2>3. SumFunction([i \in DOMAIN s |-> Accrued(s[i]).debt - s[i].debt]) = bear
    BY <2>2 DEF SumFunction, SumSeq
  <2> HIDE DEF s, bear
  <2> QED
    BY <2>3 DEF Liquidation, CountInterest, AddTotalSupply, s
<1>6. AuctionStart(fallen)
  BY LiquidationLists
<1>7. after = [u \in Borrowers |-> Mapped(RatedOf, accounts[u])]
  <2>1. ASSUME NEW u \in Borrowers
        PROVE  [i \in DOMAIN accounts[u] |-> Rated(Accrued(accounts[u][i]))]
                 = Mapped(RatedOf, accounts[u])
    <3>1. \A i \in DOMAIN accounts[u] : accounts[u][i] \in D
      BY <1>3 DEF Maps
    <3>2. \A i \in DOMAIN accounts[u] : RatedOf[accounts[u][i]] = Rated(Accrued(accounts[u][i]))
      BY <3>1 DEF RatedOf
    <3> QED
      BY <3>2 DEF Mapped
  <2>2. after = [u \in Borrowers |->
                   [i \in DOMAIN accounts[u] |-> Rated(Accrued(accounts[u][i]))]]
    BY DEF Liquidation
  <2> HIDE DEF accounts, after
  <2> QED
    BY <2>1, <2>2
<1>8. UNCHANGED <<balance, depositVars, bankLoanLimit, setAside, loanUsers, unitBalance>>
  BY DEF Liquidation
<1>9. /\ fallen \in Seq(D) /\ lots \in Seq(SoundLot)
      /\ \A w : Maps(w, SoundLot, Int) => SumSeq(w, lots) = SumSeq(FallOf(w), s)
  <2>1. ASSUME NEW w, Maps(w, SoundLot, Int)
        PROVE  fallen \in Seq(D) /\ lots \in Seq(SoundLot)
               /\ SumSeq(w, lots) = SumSeq(FallOf(w), s)
    <3> DEFINE H == FallOf(w)
               G == FallingOf
               L == LotOf
    <3>1. Counts(D, w, L, G, H)
      BY DEF Counts, FallOf
    <3>2. Maps(G, D, Seq(D)) /\ Maps(L, D, SoundLot) /\ s \in Seq(D)
      BY <1>2, <1>4
    <3> HIDE DEF H, G, L, D, s
    <3>3. /\ FlattenSeq(Mapped(G, s)) \in Seq(D)
          /\ Mapped(L, FlattenSeq(Mapped(G, s))) \in Seq(SoundLot)
          /\ SumSeq(w, Mapped(L, FlattenSeq(Mapped(G, s)))) = SumSeq(H, s)
      BY ONLY <2>1, <3>1, <3>2, SumOfListed
    <3> QED
      BY <3>3 DEF H, G, L
  <2> HIDE DEF fallen, lots
  <2> QED
    BY <2>1, WeightsAreNat
<1>10. /\ auctionList' = auctionList \o lots
       /\ Len(auctionList) + Len(fallen) <= MaxAuctions
       /\ UNCHANGED <<bider, bidValue>>
  <2>1. \A i \in DOMAIN fallen : fallen[i] \in D
    BY <1>9
  <2>2. \A i \in DOMAIN fallen : LotOf[fallen[i]] = Lot(fallen[i])
    BY <2>1 DEF LotOf
  <2> HIDE DEF fallen
  <2>3. [i \in DOMAIN fallen |-> Lot(fallen[i])] = lots
    BY <2>2 DEF Mapped
  <2> HIDE DEF lots
  <2> QED
    BY <1>6, <2>3 DEF AuctionStart
<1> HIDE DEF s, fallen, lots, bear
<1>11. bear \in Nat
  BY <1>2, <1>4, SeqSumIsNat DEF bear
<1>12. Len(lots) = Len(fallen)
  <2>1. DOMAIN lots = DOMAIN fallen
    BY DEF lots, Mapped
  <2>2. Len(lots) \in Nat /\ Len(fallen) \in Nat /\ DOMAIN lots = 1..Len(lots)
        /\ DOMAIN fallen = 1..Len(fallen)
    BY <1>9
  <2> DEFINE n == Len(lots)
             k == Len(fallen)
  <2>3. n \in Nat /\ k \in Nat /\ 1..n = 1..k
    BY <2>1, <2>2
  <2> HIDE DEF n, k
  <2>4. \A i \in Nat : i \in 1..n <=> i \in 1..k
    BY <2>3
  <2>5. (n # 0 => n \in 1..k) /\ (k # 0 => k \in 1..n)
    BY <2>3, <2>4
  <2>6. n = k
    BY <2>3, <2>5
  <2> QED
    BY <2>6 DEF n, k
<1>13. /\ auctionList' \in Seq(SoundLot)
       /\ \A w : Maps(w, SoundLot, Int) =>
            LotSum(w)' = LotSum(w) + SumSeq(FallOf(w), s)
  <2>1. ASSUME NEW w, Maps(w, SoundLot, Int)
        PROVE  auctionList \o lots \in Seq(SoundLot)
               /\ SumSeq(w, auctionList \o lots) = SumSeq(w, auctionList) + SumSeq(w, lots)
    BY <1>1, <1>9, <2>1, SumOfConcat
  <2> QED
    BY <1>9, <1>10, <2>1, WeightsAreNat DEF LotSum
<1>14. LotBooks'
  <2>1. Len(auctionList') = Len(auctionList) + Len(lots)
    BY <1>1, <1>9, <1>10
  <2> QED
    BY <1>10, <1>12, <1>13, <2>1 DEF LotBooks
<1>15. /\ after \in [Borrowers -> Seq(D)]
       /\ \A v : Maps(v, SoundLoan, Int) => LoanSum(v)' = SumSeq(Weight(D, v, RatedOf), s)
  <2>1. ASSUME NEW v, Maps(v, D, Int)
        PROVE  after \in [Borrowers -> Seq(D)]
               /\ SumSeq(v, LoansOf(users, after)) = SumSeq(Weight(D, v, RatedOf), LoansOf(users, accounts))
    <3> DEFINE F == RatedOf
    <3>1. /\ Maps(F, D, D) /\ users \in Seq(Borrowers) /\ Maps(accounts, Borrowers, Seq(D))
          /\ Passed(after, Borrowers, F, accounts)
      BY <1>1, <1>2, <1>3, <1>7 DEF Passed
    <3> HIDE DEF D, users, accounts, after, F
    <3>2. after \in [Borrowers -> Seq(D)]
      BY ONLY <2>1, <3>1, SumOfChangedLoans
    <3>3. SumSeq(v, LoansOf(users, after)) = SumSeq(Weight(D, v, F), LoansOf(users, accounts))
      BY ONLY <2>1, <3>1, SumOfChangedLoans
    <3> QED
      BY <3>2, <3>3 DEF F
  <2>2. LoansOf(users, accounts) = s
    BY AllLoansAreLoans DEF s
  <2>3. \A v : LoanSum(v)' = SumSeq(v, LoansOf(users, after))
    BY <1>8 DEF LoanSum
  <2> HIDE DEF D, users, accounts, after
  <2> QED
    BY <1>2, <2>1, <2>2, <2>3
<1>16. LoanBooks'
  <2>1. \A u \in Borrowers : /\ after[u] \in Seq(SoundLoan)
                             /\ \A i \in DOMAIN after[u] : after[u][i].timestamp <= now
    <3> SUFFICES ASSUME NEW u \in Borrowers
                 PROVE  /\ after[u] \in Seq(SoundLoan)
                        /\ \A i \in DOMAIN after[u] : after[u][i].timestamp <= now
      OBVIOUS
    <3> DEFINE own == after[u]
    <3>1. own \in Seq(D)
      BY <1>15
    <3> HIDE DEF own
    <3>2. Len(own) \in Nat /\ DOMAIN own = 1..Len(own) /\ \A i \in 1..Len(own) : own[i] \in D
      BY <3>1
    <3>3. \A i \in 1..Len(own) : own[i] \in SoundLoan /\ own[i].timestamp <= now
      BY <3>2 DEF PastLoan
    <3>4. own \in [1..Len(own) -> SoundLoan]
      BY <3>1, <3>2, <3>3
    <3>5. own \in Seq(SoundLoan)
      BY <3>2, <3>4, SeqDef
    <3> QED
      BY <3>2, <3>3, <3>5 DEF own
  <2>2. after \in [Borrowers -> Seq(SoundLoan)]
    BY <1>15, <2>1
  <2>3. \A u \in Borrowers : u \notin Range(users) => after[u] = <<>>
    <3> SUFFICES ASSUME NEW u \in Borrowers, u \notin Range(users) PROVE after[u] = <<>>
      OBVIOUS
    <3>1. accounts[u] = <<>>
      BY DEF LoanBooks
    <3>2. after[u] = Mapped(RatedOf, <<>>)
      BY <1>7, <3>1
    <3>3. Mapped(RatedOf, <<>>) = <<>>
      BY DEF Mapped
    <3> QED
      BY <3>2, <3>3
  <2> QED
    BY <1>8, <2>1, <2>2, <2>3 DEF LoanBooks
<1>17. USTNTypes' /\ LimitTypes'
  BY <1>5, <1>8, <1>11 DEF USTNTypes, LimitTypes, prices
<1>18. Claims' - Cover' <= Claims - Cover
  <2>1. Balances' = Balances /\ Deposits' = Deposits
    BY <1>8 DEF Balances, Deposits, depositVars
  <2>2. unbacked' = unbacked
    OBVIOUS
  <2>3. Balances \in Nat /\ Deposits \in Nat /\ loansTotalInterest \in Nat
        /\ totalSupply \in Nat /\ unbacked \in Nat
    BY SumsAreNat
  <2> QED
    BY ONLY <1>5, <1>11, <2>1, <2>2, <2>3 DEF Claims, Cover
<1>19. ASSUME Balanced PROVE Balanced'
  <2> DEFINE Later(v) == Weight(D, v, RatedOf)
  <2>1. \A v \in {PrincipalOf, InterestOf, MortgageOf} : Maps(v, D, Int) /\ Maps(Later(v), D, Int)
    BY <1>2, WeightsAreNat DEF Maps, Weight
  <2>2. /\ Maps(FallOf(LotPrincipalOf), D, Int) /\ Maps(FallOf(LotInterestOf), D, Int)
        /\ Maps(FallOf(CollectedOf), D, Int)
    BY <1>1, PassCounts DEF Maps
  <2>3. \A loan \in D : \A v : Later(v)[loan] = v[RatedOf[loan]]
    BY DEF Weight
  <2>4. SumSeq(PrincipalOf, s) = SumSeq(Later(PrincipalOf), s) + SumSeq(FallOf(LotPrincipalOf), s)
    <3> DEFINE p == PrincipalOf
               q == Later(PrincipalOf)
               f == FallOf(LotPrincipalOf)
    <3>1. \A loan \in D : p[loan] = q[loan] + f[loan]
      BY <1>1, <2>3, PassCounts
    <3>2. Maps(p, D, Int) /\ Maps(q, D, Int) /\ Maps(f, D, Int)
      BY <2>1, <2>2
    <3> HIDE DEF p, q, f, D
    <3>3. SumSeq(p, s) = SumSeq(q, s) + SumSeq(f, s)
      BY ONLY <1>4, <3>1, <3>2, SumOfWeights
    <3> QED
      BY <3>3 DEF p, q, f
  <2>5. SumSeq(InterestOf, s) + bear
          = SumSeq(Later(InterestOf), s) + SumSeq(FallOf(LotInterestOf), s)
    <3> DEFINE p == InterestOf
               b == BearOf
               q == Later(InterestOf)
               f == FallOf(LotInterestOf)
               h == [loan \in D |-> p[loan] + b[loan]]
    <3>1. Maps(p, D, Int) /\ Maps(q, D, Int) /\ Maps(f, D, Int) /\ Maps(b, D, Int)
      BY <1>2, <2>1, <2>2
    <3>2. \A loan \in D : h[loan] = q[loan] + f[loan]
      BY <1>1, <2>3, PassCounts
    <3> HIDE DEF p, q, f, b, D
    <3>3. (\A loan \in D : h[loan] = p[loan] + b[loan]) /\ Maps(h, D, Int)
      BY <3>1 DEF Maps
    <3> HIDE DEF h
    <3>4. SumSeq(h, s) = SumSeq(p, s) + SumSeq(b, s)
      BY ONLY <1>4, <3>1, <3>3, SumOfWeights
    <3>5. SumSeq(h, s) = SumSeq(q, s) + SumSeq(f, s)
      BY ONLY <1>4, <3>1, <3>2, <3>3, SumOfWeights
    <3>6. SumSeq(p, s) + SumSeq(b, s) = SumSeq(q, s) + SumSeq(f, s)
      BY <3>4, <3>5
    <3> QED
      BY <3>6 DEF p, q, f, b, bear
  <2>6. SumSeq(MortgageOf, s) = SumSeq(Later(MortgageOf), s)
    <3>1. \A loan \in D : MortgageOf[loan] = Later(MortgageOf)[loan]
      BY <1>1, <2>3, PassCounts
    <3> QED
      BY <1>4, <3>1, SameWeights
  <2>7. SumSeq(FallOf(CollectedOf), s) = 0
    <3> DEFINE z == FallOf(CollectedOf)
    <3>1. \A loan \in D : z[loan] = 0
      BY <1>1, PassCounts
    <3>2. Maps(z, D, Int)
      BY <2>2
    <3> HIDE DEF z, D
    <3>3. \A loan \in D : z[loan] = z[loan] + z[loan]
      BY <3>1
    <3>4. SumSeq(z, s) = SumSeq(z, s) + SumSeq(z, s)
      BY ONLY <1>4, <3>2, <3>3, SumOfWeights
    <3>5. SumSeq(z, s) \in Int
      BY ONLY <1>4, <3>2, Elements
    <3>6. \A n \in Int : n = n + n => n = 0
      OBVIOUS
    <3>7. SumSeq(z, s) = 0
      BY ONLY <3>4, <3>5, <3>6, Zenon
    <3> QED
      BY <3>7 DEF z
  <2>8. /\ SumSeq(Later(PrincipalOf), s) \in Int /\ SumSeq(Later(InterestOf), s) \in Int
        /\ SumSeq(Later(MortgageOf), s) \in Int
        /\ SumSeq(FallOf(LotPrincipalOf), s) \in Int /\ SumSeq(FallOf(LotInterestOf), s) \in Int
    BY <1>4, <2>1, <2>2, Elements
  <2>9. /\ LoanSum(PrincipalOf) = SumSeq(PrincipalOf, s)
        /\ LoanSum(InterestOf) = SumSeq(InterestOf, s)
        /\ LoanSum(MortgageOf) = SumSeq(MortgageOf, s)
    BY AllLoansAreLoans DEF LoanSum, s
  <2>10. /\ LoanSum(PrincipalOf)' = SumSeq(Later(PrincipalOf), s)
         /\ LoanSum(InterestOf)' = SumSeq(Later(InterestOf), s)
         /\ LoanSum(MortgageOf)' = SumSeq(Later(MortgageOf), s)
    BY <1>15, WeightsAreNat
  <2>11. /\ LotSum(LotPrincipalOf)' = LotSum(LotPrincipalOf) + SumSeq(FallOf(LotPrincipalOf), s)
         /\ LotSum(LotInterestOf)' = LotSum(LotInterestOf) + SumSeq(FallOf(LotInterestOf), s)
         /\ LotSum(CollectedOf)' = LotSum(CollectedOf) + SumSeq(FallOf(CollectedOf), s)
    BY <1>13, WeightsAreNat
  <2> HIDE DEF Later
  <2>12. bankLoanLimit \in Nat /\ interestMint \in Nat /\ unitBalance \in Nat
    BY DEF LimitTypes, LoanBooks
  <2>13. setAside' = bankLoanLimit' + LoanSum(PrincipalOf)' + LotSum(LotPrincipalOf)'
    BY <1>8, <1>19, <2>4, <2>8, <2>9, <2>10, <2>11, <2>12, BooksAreInt DEF Balanced
  <2>14. LoanSum(InterestOf)' + LotSum(LotInterestOf)' <= interestMint'
    BY <1>5, <1>11, <1>19, <2>5, <2>8, <2>9, <2>10, <2>11, <2>12, BooksAreInt DEF Balanced
  <2>15. LoanSum(MortgageOf)' = unitBalance' + LotSum(CollectedOf)'
    BY <1>8, <1>19, <2>6, <2>7, <2>8, <2>9, <2>10, <2>11, <2>12, BooksAreInt DEF Balanced
  <2> QED
    BY <2>13, <2>14, <2>15 DEF Balanced
<1> QED
  BY <1>14, <1>16, <1>17, <1>18, <1>19

-----------------------------------------------------------------------------
(***************************************************************************)
(* The token's own calls, and the steps together.                          *)
(***************************************************************************)

LEMMA TokenStepKeeps ==
  ASSUME BankSound, TokenStep, UNCHANGED <<prices, auctionVars, financeVars, now>>
  PROVE  USTNTypes' /\ Claims' - Cover' <= Claims - Cover
<1> USE DEF BankSound
<1>1. PICK u \in Accounts, amount \in DirectAmounts :
        \/ /\ u \in Holders
           /\ \/ \E v \in Accounts : Transfer(u, v, amount)
              \/ Mint(u, amount)
              \/ MintBack(u, amount)
        \/ DirectCall(u, amount)
  BY DEF TokenStep
<1>2. amount \in Nat /\ amount \in Int
  BY FinanceAssumption
<1>3. Balances \in Nat /\ Deposits \in Nat /\ loansTotalInterest \in Nat
      /\ totalSupply \in Nat /\ unbacked \in Nat
  BY SumsAreNat
<1>4. balance[u] \in Nat /\ balance \in [Accounts -> Nat]
  BY DEF USTNTypes
<1>5. Deposits' = Deposits /\ loansTotalInterest' = loansTotalInterest
  BY DEF Deposits, financeVars, depositVars, limitVars
<1>6. ASSUME balance' = [balance EXCEPT ![u] = balance[u] + amount]
      PROVE  balance' \in [Accounts -> Nat] /\ Balances' = Balances + amount
  <2>1. balance[u] + amount \in Nat
    BY <1>2, <1>4
  <2> QED
    BY <1>2, <1>6, <2>1, BalanceChanged
<1>7. ASSUME amount <= balance[u], balance' = [balance EXCEPT ![u] = balance[u] - amount]
      PROVE  balance' \in [Accounts -> Nat] /\ Balances' = Balances - amount
  <2> DEFINE d == 0 - amount
  <2>1. d \in Int /\ balance[u] + d \in Nat /\ balance[u] + d = balance[u] - amount
    BY <1>2, <1>4, <1>7
  <2> HIDE DEF d
  <2>2. balance' = [balance EXCEPT ![u] = balance[u] + d]
    BY <1>7, <2>1
  <2>3. balance' \in [Accounts -> Nat] /\ Balances' = Balances + d
    BY <2>1, <2>2, BalanceChanged
  <2> QED
    BY <1>2, <1>3, <2>3 DEF d
<1>8. ASSUME balance' = balance
      PROVE  balance' \in [Accounts -> Nat] /\ Balances' = Balances
  BY <1>4, <1>8 DEF Balances
<1>9. ASSUME balance' \in [Accounts -> Nat], totalSupply' \in Nat, unbacked' \in Nat,
             Balances' \in Nat,
             Balances' - (totalSupply' + unbacked') <= Balances - (totalSupply + unbacked)
      PROVE  USTNTypes' /\ Claims' - Cover' <= Claims - Cover
  <2>1. USTNTypes'
    BY <1>9 DEF USTNTypes, prices
  <2>2. /\ totalSupply' \in Nat /\ unbacked' \in Nat /\ Balances' \in Nat
        /\ Balances' - (totalSupply' + unbacked') <= Balances - (totalSupply + unbacked)
    BY <1>9
  <2> DEFINE x == Balances' - (totalSupply' + unbacked')
             y == Balances - (totalSupply + unbacked)
             d == Deposits + loansTotalInterest
  <2>3. x \in Int /\ y \in Int /\ d \in Int
    <3>1. totalSupply' \in Nat /\ unbacked' \in Nat /\ Balances' \in Nat
      BY <2>2
    <3> QED
      BY ONLY <1>3, <3>1
  <2>4. Claims' - Cover' = x + d
    BY ONLY <1>3, <1>5, <2>2 DEF Claims, Cover
  <2>5. Claims - Cover = y + d
    BY ONLY <1>3 DEF Claims, Cover
  <2> HIDE DEF x, y, d
  <2>6. x <= y
    BY ONLY <2>2, Zenon DEF x, y
  <2>7. x + d <= y + d
    BY <2>3, <2>6
  <2> QED
    BY <2>1, <2>4, <2>5, <2>7
<1>10. ASSUME NEW v \in Accounts, Transfer(u, v, amount)
       PROVE  USTNTypes' /\ Claims' - Cover' <= Claims - Cover
  <2>1. amount <= balance[u] /\ Move(u, v, amount)
        /\ totalSupply' = totalSupply /\ unbacked' = unbacked
    BY <1>2, <1>4, <1>10 DEF Transfer
  <2>2. balance' \in [Accounts -> Nat] /\ Balances' = Balances
    BY <1>2, <2>1, BalanceMoved
  <2> QED
    BY <1>3, <1>9, <2>1, <2>2
<1>11. CASE Mint(u, amount)
  <2>1. balance' = [balance EXCEPT ![u] = balance[u] + amount]
        /\ totalSupply' = totalSupply + amount /\ unbacked' = unbacked
    BY <1>11 DEF Mint, AddBalance, AddTotalSupply
  <2>2. balance' \in [Accounts -> Nat] /\ Balances' = Balances + amount
    BY <1>6, <2>1
  <2>3. totalSupply' = totalSupply + amount /\ unbacked' = unbacked
    BY <2>1
  <2> QED
    BY <1>2, <1>3, <1>9, <2>2, <2>3
<1>12. CASE MintBack(u, amount)
  <2>1. amount <= balance[u] /\ balance' = [balance EXCEPT ![u] = balance[u] - amount]
    BY <1>12 DEF MintBack
  <2>2. amount <= totalSupply /\ totalSupply' = totalSupply - amount /\ unbacked' = unbacked
    BY <1>12 DEF MintBack, ReduceTotalSupply
  <2>3. balance' \in [Accounts -> Nat] /\ Balances' = Balances - amount
    BY <1>7, <2>1
  <2>4. Balances' \in Nat
    <3>1. \A w \in Accounts : balance'[w] \in Nat
      BY <2>3
    <3> QED
      BY <3>1, Finite, SumIsNat DEF Balances
  <2> QED
    BY <1>2, <1>3, <1>9, <2>2, <2>3, <2>4
<1>13. CASE DirectCall(u, amount)
  <2>1. CASE AddBalance(u, amount) /\ unbacked' = unbacked + amount /\ UNCHANGED totalSupply
    <3>1. balance' = [balance EXCEPT ![u] = balance[u] + amount]
      BY <2>1 DEF AddBalance
    <3>2. balance' \in [Accounts -> Nat] /\ Balances' = Balances + amount
      BY <1>6, <3>1
    <3> QED
      BY <1>2, <1>3, <1>9, <2>1, <3>2
  <2>2. CASE ReduceBalance(u, amount) /\ UNCHANGED <<totalSupply, unbacked>>
    <3>1. amount <= balance[u] /\ balance' = [balance EXCEPT ![u] = balance[u] - amount]
      BY <1>2, <1>4, <2>2 DEF ReduceBalance
    <3>2. balance' \in [Accounts -> Nat] /\ Balances' = Balances - amount
      BY <1>7, <3>1
    <3>3. Balances' \in Nat
      <4>1. \A w \in Accounts : balance'[w] \in Nat
        BY <3>2
      <4> QED
        BY <4>1, Finite, SumIsNat DEF Balances
    <3>4. totalSupply' = totalSupply /\ unbacked' = unbacked
      BY <2>2
    <3> QED
      BY <1>2, <1>3, <1>9, <3>2, <3>3, <3>4
  <2>3. CASE AddTotalSupply(amount) /\ UNCHANGED <<balance, unbacked>>
    <3>1. totalSupply' = totalSupply + amount /\ unbacked' = unbacked
      BY <2>3 DEF AddTotalSupply
    <3>2. balance' \in [Accounts -> Nat] /\ Balances' = Balances
      BY <1>8, <2>3
    <3> QED
      BY <1>2, <1>3, <1>9, <3>1, <3>2
  <2>4. CASE ReduceTotalSupply(amount) /\ unbacked' = unbacked + amount /\ UNCHANGED balance
    <3>1. amount <= totalSupply /\ totalSupply' = totalSupply - amount /\ unbacked' = unbacked + amount
      BY <2>4 DEF ReduceTotalSupply
    <3>2. balance' \in [Accounts -> Nat] /\ Balances' = Balances
      BY <1>8, <2>4
    <3> QED
      BY <1>2, <1>3, <1>9, <3>1, <3>2
  <2> QED
    BY <1>13, <2>1, <2>2, <2>3, <2>4 DEF DirectCall
<1> QED
  BY <1>1, <1>10, <1>11, <1>12, <1>13

\* Deposits and withdrawals move the limit as they move what is set aside.
LEMMA DepositStepKeeps ==
  ASSUME BankSound, DepositStep,
         UNCHANGED <<prices, unbacked, auctionVars, reserveRatio, bookVars, now>>
  PROVE  /\ USTNTypes' /\ DepositBooks' /\ LimitTypes' /\ Claims' - Cover' <= Claims - Cover
         /\ Balanced => Balanced'
<1>1. USTNTypes' /\ DepositBooks' /\ LimitTypes' /\ Claims' - Cover' <= Claims - Cover
  <2>1. UNCHANGED <<prices, unbacked, reserveRatio, now>>
    OBVIOUS
  <2>2. CASE DistributeDepositInterest
    BY <2>1, <2>2, DistributeTypes
  <2>3. ASSUME NEW u \in Depositors, NEW tokens \in DepositAmounts,
               Deposit(u, tokens) \/ Withdrawal(u, tokens)
        PROVE  USTNTypes' /\ DepositBooks' /\ LimitTypes' /\ Claims' - Cover' <= Claims - Cover
    BY <2>1, <2>3, DepositTypes, WithdrawalTypes
  <2> QED
    BY <2>2, <2>3 DEF DepositStep
<1>2. ASSUME Balanced PROVE Balanced'
  <2>1. PICK r \in Int : /\ setAside' = setAside + r
                         /\ bankLoanLimit' = bankLoanLimit + r
                         /\ interestMint' = interestMint
    <3>1. CASE DistributeDepositInterest
      <4>1. 0 \in Int /\ setAside' = setAside + 0 /\ bankLoanLimit' = bankLoanLimit + 0
            /\ interestMint' = interestMint
        BY <3>1 DEF DistributeDepositInterest, BankSound, LimitTypes
      <4> QED
        BY <4>1
    <3>2. ASSUME NEW u \in Depositors, NEW tokens \in DepositAmounts, Deposit(u, tokens)
          PROVE  \E r \in Int : /\ setAside' = setAside + r /\ bankLoanLimit' = bankLoanLimit + r
                                /\ interestMint' = interestMint
      <4>1. Reserve(tokens) \in Nat
        BY ReserveIsNat, FinanceAssumption DEF BankSound, LimitTypes
      <4> QED
        BY <3>2, <4>1 DEF Deposit
    <3>3. ASSUME NEW u \in Depositors, NEW tokens \in DepositAmounts, Withdrawal(u, tokens)
          PROVE  \E r \in Int : /\ setAside' = setAside + r /\ bankLoanLimit' = bankLoanLimit + r
                                /\ interestMint' = interestMint
      <4> DEFINE t == Reserve(tokens)
                 r == 0 - t
      <4>1. t \in Nat
        BY ReserveIsNat, FinanceAssumption DEF BankSound, LimitTypes
      <4>2. setAside' = setAside - t /\ bankLoanLimit' = bankLoanLimit - t
            /\ interestMint' = interestMint /\ setAside \in Int /\ bankLoanLimit \in Nat
        BY <3>3 DEF Withdrawal, BankSound, LimitTypes
      <4> HIDE DEF t
      <4>3. r \in Int /\ setAside' = setAside + r /\ bankLoanLimit' = bankLoanLimit + r
        BY <4>1, <4>2
      <4> QED
        BY <4>2, <4>3
    <3> QED
      BY <3>1, <3>2, <3>3 DEF DepositStep
  <2>2. unitBalance' = unitBalance /\ loanUsers' = loanUsers /\ loanAccount' = loanAccount
        /\ auctionList' = auctionList
    BY DEF bookVars, auctionVars
  <2>3. /\ LotSum(LotPrincipalOf)' = LotSum(LotPrincipalOf)
        /\ LotSum(LotInterestOf)' = LotSum(LotInterestOf)
        /\ LotSum(CollectedOf)' = LotSum(CollectedOf)
    BY <2>2, SameLots
  <2>4. /\ LoanSum(PrincipalOf)' = LoanSum(PrincipalOf)
        /\ LoanSum(InterestOf)' = LoanSum(InterestOf)
        /\ LoanSum(MortgageOf)' = LoanSum(MortgageOf)
    BY <2>2, SameLoans
  <2>5. bankLoanLimit \in Nat
    BY DEF BankSound, LimitTypes
  <2>6. setAside' = bankLoanLimit' + LoanSum(PrincipalOf)' + LotSum(LotPrincipalOf)'
    BY <1>2, <2>1, <2>3, <2>4, <2>5, BooksAreInt DEF Balanced, BankSound
  <2> QED
    BY <1>2, <2>1, <2>2, <2>3, <2>4, <2>6 DEF Balanced
<1> QED
  BY <1>1, <1>2

\* What a step does not touch stays as it is.
LEMMA Untouched ==
  ASSUME BankSound
  PROVE  /\ UNCHANGED <<depositVars, now>> => DepositBooks' /\ Deposits' = Deposits
         /\ UNCHANGED <<bookVars, now>> => LoanBooks'
         /\ UNCHANGED auctionVars => LotBooks'
         /\ UNCHANGED <<reserveRatio, limitVars>> =>
              LimitTypes' /\ loansTotalInterest' = loansTotalInterest
         /\ now' = now => ClockTypes'
         /\ UNCHANGED <<bookVars, auctionVars, limitVars>> => (Balanced => Balanced')
<1> USE DEF BankSound
<1>1. UNCHANGED <<depositVars, now>> => DepositBooks' /\ Deposits' = Deposits
  BY DEF DepositBooks, Deposits, depositVars
<1>2. UNCHANGED <<bookVars, now>> => LoanBooks'
  BY DEF LoanBooks, bookVars
<1>3. UNCHANGED auctionVars => LotBooks'
  BY DEF LotBooks, auctionVars
<1>4. UNCHANGED <<reserveRatio, limitVars>> =>
        LimitTypes' /\ loansTotalInterest' = loansTotalInterest
  BY DEF LimitTypes, limitVars
<1>5. now' = now => ClockTypes'
  BY DEF ClockTypes
<1>6. ASSUME UNCHANGED <<bookVars, auctionVars, limitVars>>, Balanced PROVE Balanced'
  BY <1>6, SameLots, SameLoans DEF Balanced, bookVars, auctionVars, limitVars
<1> QED
  BY <1>1, <1>2, <1>3, <1>4, <1>5, <1>6

\* A bid, its return, or a restart.
LEMMA AuctionStepKeeps ==
  ASSUME BankSound, AuctionStep, UNCHANGED <<prices, unbacked, financeVars, now>>
  PROVE  /\ USTNTypes' /\ LotBooks' /\ Claims' - Cover' <= Claims - Cover
         /\ Balanced => Balanced'
<1> USE DEF BankSound
<1>1. /\ balance' \in [Accounts -> Nat] /\ Balances' = Balances
      /\ LotBooks'
      /\ LotSum(LotPrincipalOf)' = LotSum(LotPrincipalOf)
      /\ LotSum(LotInterestOf)' = LotSum(LotInterestOf)
      /\ LotSum(CollectedOf)' = LotSum(CollectedOf)
  <2>1. now' = now
    OBVIOUS
  <2>2. ASSUME NEW n \in Listed, NEW u \in Bidders, NEW amount \in BidAmounts, Bid(n, u, amount)
        PROVE  <1>1!:
    BY <2>1, <2>2, BidKeeps
  <2>3. ASSUME NEW n \in Listed, NEW u \in Bidders, BidWithdrawal(n, u)
        PROVE  <1>1!:
    <3>1. balance' \in [Accounts -> Nat] /\ Balances' = Balances /\ LotBooks'
      BY <2>1, <2>3, BidWithdrawalKeeps
    <3>2. auctionList' = auctionList
      BY <2>3 DEF BidWithdrawal
    <3> QED
      BY <3>1, <3>2, SameLots
  <2>4. ASSUME UpgradeState, UNCHANGED <<balance, totalSupply>>
        PROVE  <1>1!:
    <3>1. balance' \in [Accounts -> Nat] /\ Balances' = Balances
      BY <2>4 DEF USTNTypes, Balances
    <3> QED
      BY <2>1, <2>4, <3>1, UpgradeStateKeeps
  <2> QED
    BY <2>2, <2>3, <2>4 DEF AuctionStep
<1>2. totalSupply' = totalSupply /\ unbacked' = unbacked
  BY DEF AuctionStep
<1>3. USTNTypes'
  BY <1>1, <1>2 DEF USTNTypes, prices
<1>4. Claims' - Cover' <= Claims - Cover
  <2>1. Deposits' = Deposits /\ loansTotalInterest' = loansTotalInterest
    BY DEF Deposits, financeVars, depositVars, limitVars
  <2>2. Claims' = Claims /\ Cover' = Cover
    BY <1>1, <1>2, <2>1 DEF Claims, Cover
  <2> QED
    BY <2>2, SumsAreNat DEF Claims, Cover
<1>5. ASSUME Balanced PROVE Balanced'
  <2>1. /\ LoanSum(PrincipalOf)' = LoanSum(PrincipalOf)
        /\ LoanSum(InterestOf)' = LoanSum(InterestOf)
        /\ LoanSum(MortgageOf)' = LoanSum(MortgageOf)
    BY SameLoans DEF financeVars, bookVars
  <2>2. /\ setAside' = setAside /\ bankLoanLimit' = bankLoanLimit
        /\ interestMint' = interestMint /\ unitBalance' = unitBalance
    BY DEF financeVars, limitVars, bookVars
  <2> QED
    BY <1>1, <1>5, <2>1, <2>2 DEF Balanced
<1> QED
  BY <1>1, <1>3, <1>4, <1>5

LEMMA BankStep ==
  ASSUME BankSound, [BankNext]_bankVars
  PROVE  BankSound' /\ Claims' - Cover' <= Claims - Cover /\ (Balanced => Balanced')
<1>0. ASSUME USTNTypes', LotBooks', DepositBooks', LimitTypes', LoanBooks', ClockTypes'
      PROVE  BankSound'
  BY <1>0 DEF BankSound
<1>1. ASSUME DepositStep,
             UNCHANGED <<prices, unbacked, auctionVars, reserveRatio, bookVars, now>>
      PROVE  BankSound' /\ Claims' - Cover' <= Claims - Cover /\ (Balanced => Balanced')
  <2>1. /\ USTNTypes' /\ DepositBooks' /\ LimitTypes' /\ Claims' - Cover' <= Claims - Cover
        /\ Balanced => Balanced'
    BY <1>1, DepositStepKeeps
  <2>2. LoanBooks' /\ LotBooks' /\ ClockTypes'
    BY <1>1, Untouched
  <2> QED
    BY <1>0, <2>1, <2>2
<1>2. ASSUME LoanStep, UNCHANGED <<prices, unbacked, auctionVars, reserveRatio, now>>
      PROVE  BankSound' /\ Claims' - Cover' <= Claims - Cover /\ (Balanced => Balanced')
  <2>1. /\ USTNTypes' /\ LoanBooks' /\ LimitTypes' /\ Claims' - Cover' <= Claims - Cover
        /\ Balanced => Balanced'
    <3>1. ASSUME NEW u \in Borrowers, NEW mortgage \in Mortgages, TakeLoan(u, mortgage)
          PROVE  <2>1!:
      BY <1>2, <3>1, TakeLoanKeeps
    <3>2. ASSUME NEW u \in Borrowers, NEW number \in DOMAIN loanAccount[u], NEW value \in TopUps,
                 AddLoans(u, number, value)
          PROVE  <2>1!:
      BY <1>2, <3>2, AddLoansKeeps
    <3>3. ASSUME NEW u \in Borrowers, NEW number \in DOMAIN loanAccount[u],
                 NEW tokens \in RepayAmounts, LoansBack(u, number, tokens)
          PROVE  <2>1!:
      BY <1>2, <3>3, LoansBackKeeps
    <3> QED
      BY <1>2, <3>1, <3>2, <3>3 DEF LoanStep
  <2>2. UNCHANGED depositVars
    <3>1. ASSUME NEW u \in Borrowers, NEW mortgage \in Mortgages, TakeLoan(u, mortgage)
          PROVE  UNCHANGED depositVars
      BY <3>1 DEF TakeLoan
    <3>2. ASSUME NEW u \in Borrowers, NEW number \in DOMAIN loanAccount[u], NEW value \in TopUps,
                 AddLoans(u, number, value)
          PROVE  UNCHANGED depositVars
      BY <3>2 DEF AddLoans
    <3>3. ASSUME NEW u \in Borrowers, NEW number \in DOMAIN loanAccount[u],
                 NEW tokens \in RepayAmounts, LoansBack(u, number, tokens)
          PROVE  UNCHANGED depositVars
      BY <3>3 DEF LoansBack
    <3> QED
      BY <1>2, <3>1, <3>2, <3>3 DEF LoanStep
  <2>3. DepositBooks' /\ LotBooks' /\ ClockTypes'
    BY <1>2, <2>2, Untouched
  <2> QED
    BY <1>0, <2>1, <2>3
<1>3. ASSUME Liquidation, UNCHANGED <<prices, unbacked, reserveRatio, now>>
      PROVE  BankSound' /\ Claims' - Cover' <= Claims - Cover /\ (Balanced => Balanced')
  <2>1. /\ USTNTypes' /\ LoanBooks' /\ LotBooks' /\ LimitTypes'
        /\ Claims' - Cover' <= Claims - Cover
        /\ Balanced => Balanced'
    BY <1>3, LiquidationKeeps
  <2>2. UNCHANGED depositVars
    BY <1>3 DEF Liquidation
  <2>3. DepositBooks' /\ ClockTypes'
    BY <1>3, <2>2, Untouched
  <2> QED
    BY <1>0, <2>1, <2>3
<1>4. ASSUME NEW n \in Listed, NEW u \in Bidders, Collect(n, u),
             UNCHANGED <<prices, unbacked, reserveRatio, now>>
      PROVE  BankSound' /\ Claims' - Cover' <= Claims - Cover /\ (Balanced => Balanced')
  <2>1. /\ USTNTypes' /\ LotBooks' /\ LimitTypes' /\ unitBalance' \in Nat
        /\ Claims' - Cover' <= Claims - Cover
        /\ Balanced => Balanced'
    BY <1>4, CollectKeeps
  <2>2. UNCHANGED depositVars /\ loanUsers' = loanUsers /\ loanAccount' = loanAccount
    BY <1>4 DEF Collect
  <2>3. DepositBooks' /\ ClockTypes'
    BY <1>4, <2>2, Untouched
  <2>4. LoanBooks'
    BY <1>4, <2>1, <2>2 DEF LoanBooks, BankSound
  <2> QED
    BY <1>0, <2>1, <2>3, <2>4
<1>5. ASSUME AuctionStep, UNCHANGED <<prices, unbacked, financeVars, now>>
      PROVE  BankSound' /\ Claims' - Cover' <= Claims - Cover /\ (Balanced => Balanced')
  <2>1. /\ USTNTypes' /\ LotBooks' /\ Claims' - Cover' <= Claims - Cover
        /\ Balanced => Balanced'
    BY <1>5, AuctionStepKeeps
  <2>2. UNCHANGED <<reserveRatio, depositVars, limitVars, bookVars>>
    BY <1>5 DEF financeVars
  <2>3. DepositBooks' /\ LimitTypes' /\ LoanBooks' /\ ClockTypes'
    BY <1>5, <2>2, Untouched
  <2> QED
    BY <1>0, <2>1, <2>3
<1>6. ASSUME TokenStep, UNCHANGED <<prices, auctionVars, financeVars, now>>
      PROVE  BankSound' /\ Claims' - Cover' <= Claims - Cover /\ (Balanced => Balanced')
  <2>1. USTNTypes' /\ Claims' - Cover' <= Claims - Cover
    BY <1>6, TokenStepKeeps
  <2>2. UNCHANGED <<reserveRatio, depositVars, limitVars, bookVars>>
    BY <1>6 DEF financeVars
  <2>3. DepositBooks' /\ LimitTypes' /\ LoanBooks' /\ ClockTypes' /\ LotBooks'
        /\ (Balanced => Balanced')
    BY <1>6, <2>2, Untouched
  <2> QED
    BY <1>0, <2>1, <2>3
<1>7. ASSUME UNCHANGED <<balance, totalSupply, unbacked, depositVars, limitVars, bookVars,
                         auctionVars>>,
             reserveRatio' \in ReserveRatios, unitPrice' \in UnitPrices,
             ustnPrice' \in USTNPrices, now' \in Nat, now' >= now
      PROVE  BankSound' /\ Claims' - Cover' <= Claims - Cover /\ (Balanced => Balanced')
  <2>1. USTNTypes' /\ LimitTypes' /\ ClockTypes'
    BY <1>7 DEF BankSound, USTNTypes, LimitTypes, limitVars, ClockTypes
  <2>2. LotBooks' /\ (Balanced => Balanced')
    BY <1>7, Untouched
  <2>3. DepositBooks'
    <3>1. \A u \in Depositors : userPastTime[u] \in Nat /\ userPastTime[u] <= now /\ now \in Nat
      BY DEF BankSound, DepositBooks, ClockTypes
    <3>2. \A u \in Depositors : userPastTime[u] <= now'
      BY <1>7, <3>1
    <3> QED
      BY <1>7, <3>2 DEF BankSound, DepositBooks, depositVars
  <2>4. LoanBooks'
    <3>1. ASSUME NEW u \in Borrowers, NEW i \in DOMAIN loanAccount[u]
          PROVE  loanAccount[u][i].timestamp <= now'
      <4>1. loanAccount[u][i] \in SoundLoan /\ loanAccount[u][i].timestamp <= now /\ now \in Nat
        BY DEF BankSound, LoanBooks, ClockTypes
      <4> QED
        BY <1>7, <4>1, LoanFields
    <3>2. loanUsers' = loanUsers /\ loanAccount' = loanAccount /\ unitBalance' = unitBalance
      BY <1>7 DEF bookVars
    <3> QED
      BY <3>1, <3>2 DEF BankSound, LoanBooks
  <2>5. Claims' - Cover' <= Claims - Cover
    <3>1. Claims' = Claims /\ Cover' = Cover
      BY <1>7 DEF Claims, Cover, Balances, Deposits, depositVars, limitVars
    <3> QED
      BY <3>1, SumsAreNat DEF Claims, Cover
  <2> QED
    BY <1>0, <2>1, <2>2, <2>3, <2>4, <2>5
<1>8. reserveRatio \in ReserveRatios /\ unitPrice \in UnitPrices /\ ustnPrice \in USTNPrices
      /\ now \in Nat
  BY DEF BankSound, LimitTypes, USTNTypes, ClockTypes
<1>9. CASE NewPrices /\ UNCHANGED <<auctionVars, financeVars, now>>
  BY <1>7, <1>8, <1>9 DEF NewPrices, financeVars
<1>10. CASE SetReserveRatio
            /\ UNCHANGED <<ustnVars, auctionVars, depositVars, limitVars, bookVars, now>>
  BY <1>7, <1>8, <1>10 DEF SetReserveRatio, ustnVars, prices
<1>11. CASE Tick /\ UNCHANGED <<ustnVars, auctionVars, financeVars>>
  BY <1>7, <1>8, <1>11 DEF Tick, ustnVars, prices, financeVars
<1>12. CASE UNCHANGED bankVars
  BY <1>7, <1>8, <1>12 DEF bankVars, ustnVars, prices, financeVars
<1> QED
  BY <1>1, <1>2, <1>3, <1>4, <1>5, <1>6, <1>9, <1>10, <1>11, <1>12 DEF BankNext

-----------------------------------------------------------------------------
(***************************************************************************)
(* The theorems.                                                           *)
(***************************************************************************)

\* The inductive invariant: sound books that agree, and claims that are covered.
BankInv == BankSound /\ Balanced /\ Claims <= Cover

ClaimsAreInt == Claims \in Int /\ Cover \in Int

LEMMA BankInvInit == BankInit => BankInv
<1> SUFFICES ASSUME BankInit PROVE BankInv
  OBVIOUS
<1>1. BankSound
  BY BankSoundInit
<1>2. Balances = 0 /\ Deposits = 0
  <2>1. \A u \in Accounts : balance[u] = 0
    BY DEF BankInit
  <2>2. \A u \in Depositors : userDepositBalances[u] = 0
    BY DEF BankInit, FinanceInit
  <2> QED
    BY <2>1, <2>2, Finite, SumOfZeros DEF Balances, Deposits
<1>3. Claims <= Cover
  BY <1>2 DEF BankInit, FinanceInit, Claims, Cover
<1>4. Balanced
  <2>1. LoansOf(loanUsers, loanAccount) = <<>>
    <3>1. loanUsers = <<>>
      BY DEF BankInit, FinanceInit
    <3> QED
      BY <3>1 DEF LoansOf, FlattenSeq
  <2>2. auctionList = <<>>
    BY DEF BankInit, AuctionInit
  <2>3. \A v : SumSeq(v, <<>>) = 0
    <3>1. DOMAIN <<>> = {}
      OBVIOUS
    <3> QED
      BY <3>1, SumOfNone DEF SumSeq
  <2>4. (\A v : LoanSum(v) = 0) /\ (\A w : LotSum(w) = 0)
    BY <2>1, <2>2, <2>3 DEF LoanSum, LotSum
  <2>5. setAside = 0 /\ bankLoanLimit = 0 /\ interestMint = 0 /\ unitBalance = 0
    BY DEF BankInit, FinanceInit
  <2> QED
    BY <2>4, <2>5 DEF Balanced
<1> QED
  BY <1>1, <1>3, <1>4 DEF BankInv

LEMMA BankInvNext == BankInv /\ [BankNext]_bankVars => BankInv'
<1>1. BankSound => ClaimsAreInt
  BY SumsAreNat DEF ClaimsAreInt, Claims, Cover
<1>2. (BankSound => ClaimsAreInt)'
  BY <1>1, PTL
<1> SUFFICES ASSUME BankInv, [BankNext]_bankVars PROVE BankInv'
  OBVIOUS
<1>3. BankSound' /\ Claims' - Cover' <= Claims - Cover /\ Balanced'
  BY BankStep DEF BankInv
<1>4. Claims \in Int /\ Cover \in Int /\ Claims' \in Int /\ Cover' \in Int
  BY <1>1, <1>2, <1>3 DEF BankInv, ClaimsAreInt
<1>5. Claims' <= Cover'
  <2>1. \A a, b, c, d \in Int : a <= b /\ c - d <= a - b => c <= d
    OBVIOUS
  <2>2. Claims <= Cover
    BY DEF BankInv
  <2> QED
    BY <1>3, <1>4, <2>1, <2>2, Zenon
<1> QED
  BY <1>3, <1>5 DEF BankInv

LEMMA BankInvHolds == BankSpec => []BankInv
BY BankInvInit, BankInvNext, PTL DEF BankSpec

\* Types of token, auctions, bank and clock; with them, no subtraction of the
\* code falls below zero.
THEOREM BankTypeCorrect == BankSpec => []BankTypeOK
<1>1. BankInv => BankTypeOK
  BY BankSoundTypes DEF BankInv
<1> QED
  BY <1>1, BankInvHolds, PTL

\* The sums the invariants are stated with are those of the books.
LEMMA SumsAreBooks ==
  ASSUME BankSound
  PROVE  /\ SumOf(AllLoans, Principal) = LoanSum(PrincipalOf)
         /\ SumOf(AllLoans, OwedInterest) = LoanSum(InterestOf)
         /\ SumOf(AllLoans, Mortgage) = LoanSum(MortgageOf)
         /\ SumOf(auctionList, LotPrincipal) = LotSum(LotPrincipalOf)
         /\ SumOf(auctionList, LotInterest) = LotSum(LotInterestOf)
         /\ SumOf(auctionList, Collected) = LotSum(CollectedOf)
<1> DEFINE s == AllLoans
           t == auctionList
<1>1. s = LoansOf(loanUsers, loanAccount)
  BY AllLoansAreLoans
<1>2. \A i \in DOMAIN s : s[i] \in SoundLoan
  <2>1. loanUsers \in Seq(Borrowers) /\ Maps(loanAccount, Borrowers, Seq(SoundLoan))
    BY DEF BankSound, LoanBooks, Maps
  <2>2. Maps(PrincipalOf, SoundLoan, Int)
    BY WeightsAreNat
  <2>3. LoansOf(loanUsers, loanAccount) \in Seq(SoundLoan)
    BY <2>1, <2>2, SumByBorrower
  <2> QED
    BY <1>1, <2>3
<1>3. \A i \in DOMAIN t : t[i] \in SoundLot
  BY DEF BankSound, LotBooks
<1>4. \A v : LoanSum(v) = SumFunction([i \in DOMAIN s |-> v[s[i]]])
  BY <1>1 DEF LoanSum, SumSeq, SumFunction
<1>5. \A w : LotSum(w) = SumFunction([i \in DOMAIN t |-> w[t[i]]])
  BY DEF LotSum, SumSeq, SumFunction
<1> HIDE DEF s, t
<1>6. /\ [i \in DOMAIN s |-> Principal(s[i])] = [i \in DOMAIN s |-> PrincipalOf[s[i]]]
      /\ [i \in DOMAIN s |-> OwedInterest(s[i])] = [i \in DOMAIN s |-> InterestOf[s[i]]]
      /\ [i \in DOMAIN s |-> Mortgage(s[i])] = [i \in DOMAIN s |-> MortgageOf[s[i]]]
  BY <1>2, WeightOf
<1>7. /\ [i \in DOMAIN t |-> LotPrincipal(t[i])] = [i \in DOMAIN t |-> LotPrincipalOf[t[i]]]
      /\ [i \in DOMAIN t |-> LotInterest(t[i])] = [i \in DOMAIN t |-> LotInterestOf[t[i]]]
      /\ [i \in DOMAIN t |-> Collected(t[i])] = [i \in DOMAIN t |-> CollectedOf[t[i]]]
  BY <1>3, WeightOfLot
<1>8. /\ SumOf(s, Principal) = LoanSum(PrincipalOf)
      /\ SumOf(s, OwedInterest) = LoanSum(InterestOf)
      /\ SumOf(s, Mortgage) = LoanSum(MortgageOf)
  BY <1>4, <1>6 DEF SumOf
<1>9. /\ SumOf(t, LotPrincipal) = LotSum(LotPrincipalOf)
      /\ SumOf(t, LotInterest) = LotSum(LotInterestOf)
      /\ SumOf(t, Collected) = LotSum(CollectedOf)
  BY <1>5, <1>7 DEF SumOf
<1> QED
  BY <1>8, <1>9 DEF s, t

\* What deposits have set aside is there, lent, or in lots not sold yet.
THEOREM LimitAlwaysReconciles == BankSpec => []LimitReconciles
<1>1. BankInv => LimitReconciles
  BY SumsAreBooks DEF BankInv, Balanced, LimitReconciles
<1> QED
  BY <1>1, BankInvHolds, PTL

\* The interest counted as owed covers what open loans and unsold lots owe.
THEOREM InterestIsAlwaysMinted == BankSpec => []InterestIsMinted
<1>1. BankInv => InterestIsMinted
  BY SumsAreBooks DEF BankInv, Balanced, InterestIsMinted
<1> QED
  BY <1>1, BankInvHolds, PTL

\* The contract holds the UNIT of its loan records, less what winners have taken.
THEOREM MortgagesAreAlwaysHeld == BankSpec => []MortgagesAreHeld
<1>1. BankInv => MortgagesAreHeld
  BY SumsAreBooks DEF BankInv, Balanced, MortgagesAreHeld
<1> QED
  BY <1>1, BankInvHolds, PTL

\* What accounts hold, deposits are worth and depositors are still to get is
\* part of the supply, but for what direct calls did to balances and supply.
THEOREM SupplyAlwaysCoversClaims == BankSpec => []SupplyCoversClaims
<1>1. BankInv => SupplyCoversClaims
  <2> SUFFICES ASSUME BankInv PROVE SupplyCoversClaims
    OBVIOUS
  <2>1. DOMAIN balance = Accounts /\ DOMAIN userDepositBalances = Depositors
    BY DEF BankInv, BankSound, USTNTypes, DepositBooks
  <2>2. SumFunction(balance) = Balances /\ SumFunction(userDepositBalances) = Deposits
    BY <2>1 DEF SumFunction, Balances, Deposits
  <2> QED
    BY <2>2 DEF BankInv, SupplyCoversClaims, Claims, Cover
<1> QED
  BY <1>1, BankInvHolds, PTL

-----------------------------------------------------------------------------
(***************************************************************************)
(* The auctions of the bank implement Sale.  A liquidation offers its lots *)
(* at once; a bid raises; the deadlines that the clock passes are the      *)
(* hammer; getAuction hands over.  What is needed beside the types is that *)
(* a sold lot is over for good.                                            *)
(***************************************************************************)

SaleInv == BankSound /\ SoldIsOver

\* What a step that keeps the mapped state is to Sale: a stutter.
StageMap == [n \in AuctionIds |-> Stage(n)]
PriceMap == [n \in AuctionIds |-> Price(n)]
SameSale == UNCHANGED <<StageMap, bider, PriceMap>>
PricesTyped == PriceMap \in [AuctionIds -> Nat]

\* Only these steps touch lots, leaders or the clock.
LotsStand == UNCHANGED <<auctionList, bider, now>>

LEMMA LotTypes ==
  ASSUME LotBooks
  PROVE  /\ Len(auctionList) \in Nat /\ Listed \subseteq AuctionIds
         /\ \A n \in Listed : /\ auctionList[n] \in Auction
                              /\ auctionList[n].nowValue \in Nat
                              /\ auctionList[n].timeOver \in Nat
<1>1. auctionList \in Seq(SoundLot) /\ Len(auctionList) <= MaxAuctions /\ Len(auctionList) \in Nat
  BY DEF LotBooks
<1>2. Listed \subseteq AuctionIds
  BY <1>1, USTNAuctionAssumption DEF Listed, AuctionIds
<1>3. ASSUME NEW n \in Listed
      PROVE  auctionList[n] \in Auction
  <2>1. auctionList[n] \in SoundLot
    BY <1>1, <1>3 DEF Listed
  <2> QED
    BY <2>1 DEF SoundLot
<1> QED
  BY <1>1, <1>2, <1>3 DEF Auction

LEMMA PriceTyping == LotBooks => PricesTyped
<1> SUFFICES ASSUME LotBooks PROVE PricesTyped
  OBVIOUS
<1>1. \A n \in AuctionIds : Price(n) \in Nat
  BY LotTypes DEF Price
<1> QED
  BY <1>1 DEF PriceMap, PricesTyped

LEMMA PriceTypingNext == LotBooks' => PricesTyped'
BY PriceTyping, PTL

ListedTyped == Listed \subseteq AuctionIds

LEMMA ListedTypingNext == LotBooks' => ListedTyped'
<1>1. LotBooks => ListedTyped
  BY LotTypes DEF ListedTyped
<1> QED
  BY <1>1, PTL

LEMMA SaleInitImplied == BankInit => SaleOf!SaleInit /\ SoldIsOver
<1> SUFFICES ASSUME BankInit PROVE SaleOf!SaleInit /\ SoldIsOver
  OBVIOUS
<1>1. Listed = {} /\ bider = [n \in AuctionIds |-> NoOne]
  BY DEF BankInit, AuctionInit, Listed
<1> QED
  BY <1>1 DEF SaleOf!SaleInit, Stage, Price, SoldIsOver

\* How the lots change, in the five ways the sale can see.
LEMMA StandingLots ==
  ASSUME SaleInv, LotsStand
  PROVE  SameSale /\ SoldIsOver'
<1>1. UNCHANGED <<auctionList, bider, now>> /\ Listed' = Listed
  BY DEF LotsStand, Listed
<1>2. \A n \in AuctionIds : Stage(n)' = Stage(n) /\ Price(n)' = Price(n)
  BY <1>1 DEF Stage, Price
<1>3. SoldIsOver'
  BY <1>1 DEF SaleInv, SoldIsOver
<1> QED
  BY <1>1, <1>2, <1>3 DEF SameSale, StageMap, PriceMap

LEMMA ListingIsOffer ==
  ASSUME SaleInv, NEW lost \in Seq(PastLoan), AuctionStart(lost), LotBooks', now' = now
  PROVE  SaleOf!SaleNext /\ SoldIsOver'
<1> DEFINE lots == [i \in DOMAIN lost |-> Lot(lost[i])]
           S == Listed' \ Listed
<1>1. /\ auctionList \in Seq(SoundLot) /\ Len(auctionList) \in Nat /\ now \in Nat
      /\ LotBooks
  BY DEF SaleInv, BankSound, LotBooks, ClockTypes
<1>2. auctionList' = auctionList \o lots /\ UNCHANGED bider
  BY DEF AuctionStart
<1>3. \A i \in DOMAIN lost : lost[i] \in Loan
  BY DEF PastLoan, SoundLoan
<1>4. lots \in Seq(Auction) /\ DOMAIN lots = 1..Len(lost) /\ Len(lots) = Len(lost) /\ Len(lost) \in Nat
  <2>1. DOMAIN lost = 1..Len(lost) /\ Len(lost) \in Nat
    OBVIOUS
  <2>2. \A i \in DOMAIN lost : Lot(lost[i]) \in Auction
    BY <1>1, <1>3, USTNAuctionAssumption DEF Lot, Loan, Auction
  <2>3. lots \in [1..Len(lost) -> Auction]
    BY <2>1, <2>2
  <2> HIDE DEF lots
  <2> QED
    BY <2>1, <2>3
<1>5. \A i \in DOMAIN lots : lots[i].state = 1 /\ lots[i].timeOver = now + BidDuration
  BY <1>4 DEF Lot
<1> HIDE DEF lots
<1>6. /\ Listed' = 1..(Len(auctionList) + Len(lost))
      /\ \A n \in Listed : n \in Listed' /\ auctionList'[n] = auctionList[n]
      /\ \A n \in S : auctionList'[n] = lots[n - Len(auctionList)]
                      /\ n - Len(auctionList) \in DOMAIN lots
  <2> DEFINE k == Len(auctionList)
  <2>1. auctionList \in Seq(Auction) /\ k \in Nat
    BY <1>1 DEF SoundLot
  <2>2. /\ Len(auctionList') = k + Len(lost)
        /\ \A n \in 1..(k + Len(lost)) :
             auctionList'[n] = IF n <= k THEN auctionList[n] ELSE lots[n - k]
    <3>1. Len(lots) = Len(lost) /\ lots \in Seq(Auction)
      BY <1>4
    <3> HIDE DEF k
    <3>2. Len(auctionList) = k
      BY DEF k
    <3>3. Len(auctionList \o lots) = k + Len(lost)
      <4>1. Len(auctionList \o lots) = Len(auctionList) + Len(lots)
        BY <2>1, <3>1, ConcatProperties
      <4> QED
        BY <3>1, <3>2, <4>1
    <3>4. \A n \in 1..(k + Len(lost)) :
            (auctionList \o lots)[n] = IF n <= k THEN auctionList[n] ELSE lots[n - k]
      BY ONLY <2>1, <3>1, <3>2, ConcatProperties
    <3> QED
      BY <1>2, <3>3, <3>4
  <2>3. Listed = 1..k /\ Listed' = 1..(k + Len(lost))
    BY <2>2 DEF Listed
  <2> HIDE DEF k
  <2>4. \A n \in Listed : n \in Listed' /\ n \in 1..(k + Len(lost)) /\ n <= k
    BY <1>4, <2>1, <2>3
  <2>5. \A n \in S : n \in 1..(k + Len(lost)) /\ ~(n <= k) /\ n - k \in 1..Len(lost)
    BY <1>4, <2>1, <2>3
  <2> QED
    BY <1>4, <2>2, <2>3, <2>4, <2>5 DEF k
<1>7. \A n \in S : auctionList'[n].state = 1 /\ auctionList'[n].timeOver > now
                   /\ auctionList'[n].timeOver \in Nat /\ n \in AuctionIds
                   /\ n \notin Listed
  <2>1. \A n \in S : auctionList'[n].state = 1 /\ auctionList'[n].timeOver = now + BidDuration
    BY <1>5, <1>6
  <2>2. Listed' \subseteq AuctionIds
    BY ListedTypingNext DEF ListedTyped
  <2> QED
    BY <1>1, <2>1, <2>2, USTNAuctionAssumption
<1>8. SoldIsOver'
  <2> SUFFICES ASSUME NEW n \in Listed', auctionList'[n].state = 2
               PROVE  bider'[n] # NoOne /\ auctionList'[n].timeOver < now'
    BY DEF SoldIsOver
  <2>1. n \in Listed
    BY <1>7
  <2>2. bider' = bider /\ auctionList'[n] = auctionList[n]
    BY <1>2, <1>6, <2>1
  <2>3. SoldIsOver
    BY DEF SaleInv
  <2> QED
    BY <2>1, <2>2, <2>3 DEF SoldIsOver
<1>9. \A n \in S : Stage(n) = "unlisted" /\ Stage(n)' = "open"
  BY <1>1, <1>7 DEF Stage
<1>10. \A n \in AuctionIds \ S : Stage(n)' = Stage(n) /\ Price(n)' = Price(n)
  <2> SUFFICES ASSUME NEW n \in AuctionIds \ S
               PROVE  Stage(n)' = Stage(n) /\ Price(n)' = Price(n)
    OBVIOUS
  <2>1. (n \in Listed') = (n \in Listed)
    BY <1>6
  <2> QED
    BY <1>2, <1>6, <2>1 DEF Stage, Price
<1> HIDE DEF S
<1>11. StageMap' = [n \in AuctionIds |-> IF n \in S THEN "open" ELSE StageMap[n]]
  BY <1>9, <1>10 DEF StageMap
<1>12. PriceMap' \in [AuctionIds -> Nat] /\ \A n \in AuctionIds \ S : PriceMap'[n] = PriceMap[n]
  BY <1>10, PriceTypingNext DEF PriceMap, PricesTyped
<1>13. S \in SUBSET AuctionIds /\ \A n \in S : StageMap[n] = "unlisted"
  <2>1. S \subseteq AuctionIds
    BY <1>7
  <2> QED
    BY <1>9, <2>1 DEF StageMap
<1>14. SaleOf!Offer(S)
  BY <1>2, <1>11, <1>12, <1>13 DEF SaleOf!Offer, SaleOf!MovePrices, StageMap, PriceMap
<1> QED
  BY <1>8, <1>13, <1>14 DEF SaleOf!SaleNext

LEMMA RestartIsStutter ==
  ASSUME SaleInv, UpgradeState, LotBooks', now' = now
  PROVE  SameSale /\ SoldIsOver'
<1>1. Len(auctionList) \in Nat /\ LotBooks
  BY LotTypes DEF SaleInv, BankSound
<1>2. auctionList' = [n \in Listed |->
        IF auctionList[n].timeOver < now /\ bider[n] = NoOne
        THEN [auctionList[n] EXCEPT !.timeOver = now + BidDuration]
        ELSE auctionList[n]] /\ UNCHANGED bider
  BY DEF UpgradeState
<1>3. Listed' = Listed
  <2>1. Listed = 1..Len(auctionList)
    BY DEF Listed
  <2>2. DOMAIN auctionList' = 1..Len(auctionList)
    BY <1>2, <2>1
  <2>3. DOMAIN auctionList' = 1..Len(auctionList')
    BY DEF LotBooks
  <2> QED
    BY <2>1, <2>2, <2>3 DEF Listed
<1>4. \A n \in Listed :
        /\ auctionList'[n].state = auctionList[n].state
        /\ auctionList'[n].nowValue = auctionList[n].nowValue
        /\ bider[n] # NoOne => auctionList'[n].timeOver = auctionList[n].timeOver
  BY <1>1, <1>2, LotTypes DEF Auction
<1>5. \A n \in AuctionIds : Stage(n)' = Stage(n) /\ Price(n)' = Price(n)
  <2> SUFFICES ASSUME NEW n \in AuctionIds PROVE Stage(n)' = Stage(n) /\ Price(n)' = Price(n)
    OBVIOUS
  <2> QED
    BY <1>2, <1>3, <1>4 DEF Stage, Price
<1>6. SoldIsOver'
  BY <1>2, <1>3, <1>4 DEF SaleInv, SoldIsOver
<1> QED
  BY <1>2, <1>5, <1>6 DEF SameSale, StageMap, PriceMap

LEMMA BidIsRaise ==
  ASSUME SaleInv, NEW n \in Listed, NEW u \in Bidders, NEW amount \in BidAmounts,
         Bid(n, u, amount), LotBooks', now' = now
  PROVE  SaleOf!SaleNext /\ SoldIsOver'
<1>1. /\ n \in AuctionIds /\ auctionList[n] \in Auction /\ now \in Nat /\ amount \in Nat
      /\ auctionList \in Seq(SoundLot) /\ auctionList[n].timeOver \in Nat
      /\ bidValue[n][u] + amount \in Nat /\ bider \in [AuctionIds -> Bidders \cup {NoOne}]
  <2>1. LotBooks /\ now \in Nat
    BY DEF SaleInv, BankSound, ClockTypes
  <2>2. n \in AuctionIds /\ auctionList[n] \in Auction /\ auctionList[n].timeOver \in Nat
    BY <2>1, LotTypes
  <2>3. amount \in Nat /\ bidValue[n][u] \in Nat
    BY <2>1, <2>2, FinanceAssumption DEF LotBooks
  <2> QED
    BY <2>1, <2>2, <2>3 DEF LotBooks
<1>2. /\ auctionList[n].timeOver > now
      /\ auctionList[n].nowValue < bidValue[n][u] + amount
      /\ bider' = [bider EXCEPT ![n] = u]
      /\ auctionList' = [auctionList EXCEPT ![n].nowValue = bidValue[n][u] + amount]
  BY DEF Bid
<1>3. auctionList[n].state # 2
  BY <1>1, <1>2 DEF SaleInv, SoldIsOver
<1>4. Listed' = Listed
  <2>1. Len(auctionList') = Len(auctionList)
    BY <1>1, <1>2
  <2> QED
    BY <2>1 DEF Listed
<1>5. \A i \in Listed \ {n} : auctionList'[i] = auctionList[i]
  BY <1>1, <1>2 DEF Listed
<1>6. /\ auctionList'[n].state = auctionList[n].state
      /\ auctionList'[n].timeOver = auctionList[n].timeOver
      /\ auctionList'[n].nowValue = bidValue[n][u] + amount
  <2>1. auctionList'[n] = [auctionList[n] EXCEPT !.nowValue = bidValue[n][u] + amount]
    BY <1>1, <1>2 DEF Listed
  <2> QED
    BY <1>1, <2>1 DEF Auction
<1>7. Stage(n) = "open" /\ Stage(n)' = "open"
  BY <1>1, <1>2, <1>3, <1>4, <1>6 DEF Stage
<1>8. \A i \in AuctionIds \ {n} : Stage(i)' = Stage(i) /\ Price(i)' = Price(i) /\ bider'[i] = bider[i]
  <2> SUFFICES ASSUME NEW i \in AuctionIds \ {n}
               PROVE  Stage(i)' = Stage(i) /\ Price(i)' = Price(i) /\ bider'[i] = bider[i]
    OBVIOUS
  <2>1. bider'[i] = bider[i]
    BY <1>1, <1>2
  <2> QED
    BY <1>4, <1>5, <2>1 DEF Stage, Price
<1>9. Price(n) = auctionList[n].nowValue /\ Price(n)' = bidValue[n][u] + amount
  BY <1>4, <1>6 DEF Price
<1>10. PriceMap' \in [AuctionIds -> Nat]
  BY PriceTypingNext DEF PricesTyped
<1>11. SaleOf!Raise(n)
  <2>1. UNCHANGED StageMap /\ StageMap[n] = "open"
    BY <1>1, <1>7, <1>8 DEF StageMap
  <2>2. PriceMap'[n] > PriceMap[n] /\ \A i \in AuctionIds \ {n} : PriceMap'[i] = PriceMap[i]
    BY <1>1, <1>2, <1>8, <1>9 DEF PriceMap
  <2> QED
    BY <1>1, <1>2, <1>10, <2>1, <2>2
    DEF SaleOf!Raise, SaleOf!MovePrices, StageMap, PriceMap
<1>12. SoldIsOver'
  <2>1. \A i \in Listed : auctionList'[i].state = 2 => i # n /\ i \in AuctionIds
    BY <1>3, <1>6, LotTypes DEF SaleInv, BankSound
  <2> QED
    BY <1>4, <1>5, <1>8, <2>1 DEF SaleInv, SoldIsOver
<1> QED
  BY <1>1, <1>11, <1>12 DEF SaleOf!SaleNext

LEMMA CollectIsHand ==
  ASSUME SaleInv, NEW n \in Listed, NEW u \in Bidders, GetAuction(n, u), now' = now
  PROVE  SaleOf!SaleNext /\ SoldIsOver'
<1>1. n \in AuctionIds /\ auctionList[n] \in Auction /\ now \in Nat
      /\ auctionList \in Seq(SoundLot) /\ auctionList[n].timeOver \in Nat
  <2>1. LotBooks /\ now \in Nat
    BY DEF SaleInv, BankSound, ClockTypes
  <2> QED
    BY <2>1, LotTypes DEF LotBooks
<1>2. /\ auctionList[n].state # 2
      /\ auctionList[n].timeOver < now
      /\ bider[n] # NoOne
      /\ UNCHANGED bider
      /\ auctionList' = [auctionList EXCEPT ![n].state = 2]
  BY USTNAuctionAssumption DEF GetAuction
<1>3. Listed' = Listed
  <2>1. Len(auctionList') = Len(auctionList)
    BY <1>1, <1>2
  <2> QED
    BY <2>1 DEF Listed
<1>4. \A i \in Listed \ {n} : auctionList'[i] = auctionList[i]
  BY <1>1, <1>2 DEF Listed
<1>5. /\ auctionList'[n].state = 2 /\ auctionList'[n].nowValue = auctionList[n].nowValue
      /\ auctionList'[n].timeOver = auctionList[n].timeOver
  <2>1. auctionList'[n] = [auctionList[n] EXCEPT !.state = 2]
    BY <1>1, <1>2 DEF Listed
  <2> QED
    BY <1>1, <2>1 DEF Auction
<1>6. Stage(n) = "fallen" /\ Stage(n)' = "sold"
  BY <1>1, <1>2, <1>3, <1>5 DEF Stage
<1>7. \A i \in AuctionIds : Price(i)' = Price(i) /\ (i # n => Stage(i)' = Stage(i))
  BY <1>2, <1>3, <1>4, <1>5 DEF Stage, Price
<1>8. SaleOf!Hand(n)
  <2>1. StageMap' = [StageMap EXCEPT ![n] = "sold"] /\ UNCHANGED PriceMap
    BY <1>1, <1>6, <1>7 DEF StageMap, PriceMap
  <2> QED
    BY <1>1, <1>2, <1>6, <2>1 DEF SaleOf!Hand, StageMap, PriceMap
<1>9. SoldIsOver'
  BY <1>2, <1>3, <1>4, <1>5 DEF SaleInv, SoldIsOver
<1> QED
  BY <1>1, <1>8, <1>9 DEF SaleOf!SaleNext

LEMMA TickIsHammer ==
  ASSUME SaleInv, Tick, UNCHANGED auctionVars
  PROVE  SaleOf!SaleNext /\ SoldIsOver'
<1>1. now \in Nat /\ now' = now + 1 /\ UNCHANGED <<auctionList, bider>> /\ Listed' = Listed
  BY DEF Tick, SaleInv, BankSound, ClockTypes, auctionVars, Listed
<1>2. \A n \in Listed : auctionList[n].timeOver \in Nat
  BY LotTypes DEF SaleInv, BankSound
<1>3. PICK S \in SUBSET AuctionIds :
        S = {n \in AuctionIds : Stage(n) = "open" /\ Stage(n)' = "fallen"}
  OBVIOUS
<1>4. \A n \in AuctionIds \ S : Stage(n)' = Stage(n)
  BY <1>1, <1>2, <1>3 DEF Stage
<1>5. \A n \in S : Stage(n) = "open" /\ bider[n] # NoOne
  BY <1>1, <1>3 DEF Stage
<1>6. \A n \in AuctionIds : Price(n)' = Price(n)
  BY <1>1 DEF Price
<1>7. StageMap' = [n \in AuctionIds |-> IF n \in S THEN "fallen" ELSE StageMap[n]]
  BY <1>3, <1>4 DEF StageMap
<1>8. UNCHANGED PriceMap
  BY <1>6 DEF PriceMap
<1>9. SaleOf!Hammer(S)
  BY <1>1, <1>5, <1>7, <1>8 DEF SaleOf!Hammer, StageMap, PriceMap
<1>10. SoldIsOver'
  BY <1>1, <1>2 DEF SaleInv, SoldIsOver
<1> QED
  BY <1>9, <1>10 DEF SaleOf!SaleNext

\* A step of the sale, or none, and sold lots stay over.
SaleGoesOn == (SaleOf!SaleNext \/ SameSale) /\ SoldIsOver'

LEMMA SaleStep ==
  ASSUME SaleInv, BankSound', [BankNext]_bankVars
  PROVE  SaleGoesOn
<1>0. LotBooks' /\ BankSound
  BY DEF BankSound, SaleInv
<1>1. LotsStand => SaleGoesOn
  BY StandingLots DEF SaleGoesOn
<1>2. CASE Liquidation /\ now' = now
  <2>1. \E lost \in Seq(PastLoan) : AuctionStart(lost)
    BY <1>0, <1>2, LiquidationLists
  <2> QED
    BY <1>0, <1>2, <2>1, ListingIsOffer DEF SaleGoesOn
<1>3. ASSUME NEW n \in Listed, NEW u \in Bidders, Collect(n, u), now' = now
      PROVE  SaleGoesOn
  <2>1. GetAuction(n, u)
    BY <1>3 DEF Collect
  <2> QED
    BY <1>3, <2>1, CollectIsHand DEF SaleGoesOn
<1>4. CASE AuctionStep /\ now' = now
  <2>1. ASSUME NEW n \in Listed, NEW u \in Bidders, NEW amount \in BidAmounts, Bid(n, u, amount)
        PROVE  SaleGoesOn
    BY <1>0, <1>4, <2>1, BidIsRaise DEF SaleGoesOn
  <2>2. ASSUME NEW n \in Listed, NEW u \in Bidders, BidWithdrawal(n, u)
        PROVE  SaleGoesOn
    <3>1. LotsStand
      BY <1>4, <2>2 DEF LotsStand, BidWithdrawal
    <3> QED
      BY <1>1, <3>1
  <2>3. CASE UpgradeState
    BY <1>0, <1>4, <2>3, RestartIsStutter DEF SaleGoesOn
  <2> QED
    BY <1>4, <2>1, <2>2, <2>3 DEF AuctionStep
<1>5. CASE Tick /\ UNCHANGED auctionVars
  BY <1>5, TickIsHammer DEF SaleGoesOn
<1>6. CASE UNCHANGED <<auctionVars, now>>
  BY <1>1, <1>6 DEF auctionVars, LotsStand
<1>7. CASE UNCHANGED bankVars
  BY <1>6, <1>7 DEF bankVars
<1>8. CASE BankNext
  BY <1>2, <1>3, <1>4, <1>5, <1>6, <1>8 DEF BankNext
<1> QED
  BY <1>7, <1>8

\* The auctions of the bank are ascending auctions, for any accounts, loans and
\* number of lots, whatever else the bank does: a lot is sold once, to the leader
\* of its deadline, at a price that only rose (liquidation, bid, bidWithdrawal,
\* getAuction, upgradeState).
THEOREM BankImplementsSale == BankSpec => IsUSTNSale
<1>1. BankInit => SaleOf!SaleInit /\ SoldIsOver
  BY SaleInitImplied
<1>2. BankSound /\ SoldIsOver /\ BankSound' /\ [BankNext]_bankVars
        => [SaleOf!SaleNext]_SaleOf!saleVars /\ SoldIsOver'
  BY SaleStep DEF SaleGoesOn, SaleInv, SameSale, StageMap, PriceMap, SaleOf!saleVars
<1>3. BankInv => BankSound
  BY DEF BankInv
<1> QED
  BY <1>1, <1>2, <1>3, BankInvHolds, PTL DEF BankSpec, IsUSTNSale, SaleOf!SaleSpec
=============================================================================
