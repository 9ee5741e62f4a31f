-------------------------- MODULE TokenLockerProofs --------------------------
(***************************************************************************)
(* Proofs about TokenLocker.  The accounts a plan lists and the positions  *)
(* it keeps for them never drift apart, although the positions themselves  *)
(* may point at other records; what a plan has allocated covers the        *)
(* records that name it; what was locked is held or paid; a claim pays     *)
(* exactly the records it removes.                                         *)
(***************************************************************************)
EXTENDS TokenLocker, Sums, SequenceTheorems, TLAPS

\* A sequence, of whatever.  The positions are lengths of arrays that claims have
\* swapped, and their type does not matter here.
IsList(s) == \E S : s \in Seq(S)

\* The inductive invariant.
PositionsInv ==
  /\ planAccounts \in [PlanIDs -> SUBSET Accounts]
  /\ \E L : planRecordIndices \in [PlanIDs -> [Accounts -> L]]
  /\ \A p \in PlanIDs, a \in Accounts : IsList(planRecordIndices[p][a])
  /\ AccountsHavePositions

LEMMA EmptyIsList == IsList(<<>>)
<1>1. <<>> \in Seq({})
  OBVIOUS
<1>2. QED
  BY <1>1 DEF IsList

LEMMA AppendIsList ==
  ASSUME NEW s, IsList(s), NEW e
  PROVE  IsList(Append(s, e)) /\ Append(s, e) # <<>>
<1>1. PICK S : s \in Seq(S)
  BY DEF IsList
<1>2. s \in Seq(S \cup {e})
  BY <1>1
<1>3. Append(s, e) \in Seq(S \cup {e}) /\ Len(Append(s, e)) = Len(s) + 1 /\ Len(s) \in Nat
  BY <1>2
<1>4. QED
  BY <1>3 DEF IsList

\* SwapPop leaves a sequence, whichever position is deleted.
LEMMA SwapPopIsList ==
  ASSUME NEW s, IsList(s), s # <<>>, NEW k
  PROVE  IsList(SwapPop(s, k))
<1>1. PICK S : s \in Seq(S)
  BY DEF IsList
<1>2. Len(s) \in Nat /\ Len(s) >= 1 /\ \A n \in 1..Len(s) : s[n] \in S
  BY <1>1
<1>3. Len(s) - 1 \in Nat /\ SwapPop(s, k) \in [1..(Len(s) - 1) -> S]
  BY <1>2 DEF SwapPop
<1>4. SwapPop(s, k) \in Seq(S)
  BY <1>3
<1>5. QED
  BY <1>4 DEF IsList

\* Any change to the positions of one account in one plan that lists the account
\* when some are left, and only then.
LEMMA ChangePositions ==
  ASSUME PositionsInv,
         NEW p \in PlanIDs, NEW a \in Accounts, NEW left, IsList(left),
         NEW listed, listed = {b \in Accounts : IF b = a THEN left # <<>> ELSE b \in planAccounts[p]},
         planRecordIndices' = [planRecordIndices EXCEPT ![p][a] = left],
         planAccounts' = [planAccounts EXCEPT ![p] = listed]
  PROVE  PositionsInv'
<1>1. PICK L : planRecordIndices \in [PlanIDs -> [Accounts -> L]]
  BY DEF PositionsInv
<1>2. planRecordIndices' = [planRecordIndices EXCEPT ![p] = [planRecordIndices[p] EXCEPT ![a] = left]]
  BY <1>1
<1>3. /\ planRecordIndices' \in [PlanIDs -> [Accounts -> L \cup {left}]]
      /\ \A q \in PlanIDs, b \in Accounts :
           planRecordIndices'[q][b] = IF q = p /\ b = a THEN left ELSE planRecordIndices[q][b]
  BY <1>1, <1>2
<1>4. /\ planAccounts' \in [PlanIDs -> SUBSET Accounts]
      /\ \A q \in PlanIDs : planAccounts'[q] = IF q = p THEN listed ELSE planAccounts[q]
  BY DEF PositionsInv
<1>5. \A q \in PlanIDs, b \in Accounts : IsList(planRecordIndices'[q][b])
  BY <1>3 DEF PositionsInv
<1>6. \A q \in PlanIDs, b \in Accounts :
        b \in planAccounts'[q] <=> planRecordIndices'[q][b] # <<>>
  BY <1>3, <1>4 DEF PositionsInv, AccountsHavePositions
<1>7. AccountsHavePositions'
  BY <1>4, <1>6 DEF AccountsHavePositions
<1>8. QED
  BY <1>3, <1>4, <1>5, <1>7 DEF PositionsInv

LEMMA SetLockedRecordKeepsPositions ==
  ASSUME PositionsInv, NEW lockedID, NEW p \in PlanIDs, NEW a \in Accounts, NEW amount, NEW time,
         SetLockedRecord(lockedID, p, a, amount, time)
  PROVE  PositionsInv'
<1> DEFINE left == Append(planRecordIndices[p][a], Len(lockedRecords[a]) + 1)
           listed == planAccounts[p] \cup {a}
<1>1. PICK L : planRecordIndices \in [PlanIDs -> [Accounts -> L]]
  BY DEF PositionsInv
<1>2. planRecordIndices' = [planRecordIndices EXCEPT ![p][a] = left]
  BY <1>1 DEF SetLockedRecord
<1>3. planAccounts' = [planAccounts EXCEPT ![p] = listed]
  BY DEF SetLockedRecord, PositionsInv
<1>4. IsList(left) /\ left # <<>>
  BY AppendIsList DEF PositionsInv
<1>5. listed = {b \in Accounts : IF b = a THEN left # <<>> ELSE b \in planAccounts[p]}
  BY <1>4 DEF PositionsInv
<1> HIDE DEF left, listed
<1>6. QED
  BY <1>2, <1>3, <1>4, <1>5, ChangePositions

LEMMA DeleteLockedRecordKeepsPositions ==
  ASSUME PositionsInv, NEW lockedID, NEW p \in PlanIDs, NEW a \in Accounts,
         DeleteLockedRecord(lockedID, p, a)
  PROVE  PositionsInv'
<1> DEFINE indices == planRecordIndices[p][a]
           records == lockedRecords[a]
           j  == Min({i \in DOMAIN records : /\ records[i].lockedID = lockedID
                                             /\ records[i].planID = p
                                             /\ records[i].isActive})
           ks == {k \in DOMAIN indices : indices[k] = j}
           left == IF ks = {} THEN indices ELSE SwapPop(indices, Min(ks))
           listed == IF left = <<>> THEN planAccounts[p] \ {a} ELSE planAccounts[p]
<1>1. PICK L : planRecordIndices \in [PlanIDs -> [Accounts -> L]]
  BY DEF PositionsInv
<1>2. planRecordIndices' = [planRecordIndices EXCEPT ![p][a] = left]
  BY <1>1 DEF DeleteLockedRecord
<1>3. planAccounts' = [planAccounts EXCEPT ![p] = listed] /\ a \in planAccounts[p]
  BY DEF DeleteLockedRecord, PositionsInv
<1>4. IsList(indices)
  BY DEF PositionsInv
<1> HIDE DEF indices, j
<1>5. ks # {} => indices # <<>>
  OBVIOUS
<1>6. IsList(left)
  BY <1>4, <1>5, SwapPopIsList
<1> HIDE DEF left
<1>7. listed = {b \in Accounts : IF b = a THEN left # <<>> ELSE b \in planAccounts[p]}
  BY <1>3 DEF PositionsInv
<1> HIDE DEF listed
<1>8. QED
  BY <1>2, <1>3, <1>6, <1>7, ChangePositions

LEMMA DelPlanKeepsPositions ==
  ASSUME PositionsInv, NEW p \in PlanIDs, DelPlan(p)
  PROVE  PositionsInv'
<1> DEFINE emptied == [a \in Accounts |-> IF a \in planAccounts[p] THEN <<>>
                                          ELSE planRecordIndices[p][a]]
<1>1. PICK L : planRecordIndices \in [PlanIDs -> [Accounts -> L]]
  BY DEF PositionsInv
<1>2. /\ planRecordIndices' = [planRecordIndices EXCEPT ![p] = emptied]
      /\ planAccounts' = [planAccounts EXCEPT ![p] = {}]
  BY <1>1 DEF DelPlan
<1>3. \A a \in Accounts : emptied[a] = <<>>
  BY DEF PositionsInv, AccountsHavePositions
<1>4. emptied \in [Accounts -> L \cup {<<>>}]
  BY <1>1
<1> HIDE DEF emptied
<1>5. /\ planRecordIndices' \in [PlanIDs -> [Accounts -> L \cup {<<>>}]]
      /\ \A q \in PlanIDs, b \in Accounts :
           planRecordIndices'[q][b] = IF q = p THEN <<>> ELSE planRecordIndices[q][b]
  BY <1>1, <1>2, <1>3, <1>4
<1>6. /\ planAccounts' \in [PlanIDs -> SUBSET Accounts]
      /\ \A q \in PlanIDs : planAccounts'[q] = IF q = p THEN {} ELSE planAccounts[q]
  BY <1>2 DEF PositionsInv
<1>7. \A q \in PlanIDs, b \in Accounts : IsList(planRecordIndices'[q][b])
  BY <1>5, EmptyIsList DEF PositionsInv
<1>8. \A q \in PlanIDs, b \in Accounts :
        b \in planAccounts'[q] <=> planRecordIndices'[q][b] # <<>>
  BY <1>5, <1>6 DEF PositionsInv, AccountsHavePositions
<1>9. QED
  BY <1>5, <1>6, <1>7, <1>8 DEF PositionsInv, AccountsHavePositions

LEMMA PositionsInductive == PositionsInv /\ [LockerNext]_lockerVars => PositionsInv'
<1> SUFFICES ASSUME PositionsInv, [LockerNext]_lockerVars PROVE PositionsInv'
  OBVIOUS
<1>1. CASE UNCHANGED <<planAccounts, planRecordIndices>>
  BY <1>1 DEF PositionsInv, AccountsHavePositions
<1>2. CASE UNCHANGED lockerVars
  BY <1>1, <1>2 DEF lockerVars
<1>3. CASE Tick /\ UNCHANGED <<managers, totalLockedAmount, totalAvailableAmount, recordVars,
                               funds, received>>
  BY <1>1, <1>3 DEF recordVars
<1>4. ASSUME NEW a \in Accounts, SetManagerAccount(a) \/ DelManagerAccount(a)
      PROVE  PositionsInv'
  BY <1>1, <1>4 DEF SetManagerAccount, DelManagerAccount, recordVars
<1>5. ASSUME NEW amount \in Amounts, AddLockedToken(amount) \/ WithdrawLockedToken(amount)
      PROVE  PositionsInv'
  BY <1>1, <1>5 DEF AddLockedToken, WithdrawLockedToken, recordVars
<1>6. ASSUME NEW p \in PlanIDs, NEW amount \in Amounts, NEW claimMethod \in ClaimMethods,
             SetPlan(p, amount, claimMethod)
      PROVE  PositionsInv'
  BY <1>1, <1>6 DEF SetPlan
<1>7. ASSUME NEW sender \in Accounts, NEW a \in Accounts, ClaimToken(sender, a)
      PROVE  PositionsInv'
  BY <1>1, <1>7 DEF ClaimToken
<1>8. QED
  BY <1>2, <1>3, <1>4, <1>5, <1>6, <1>7, DelPlanKeepsPositions, SetLockedRecordKeepsPositions,
     DeleteLockedRecordKeepsPositions, LockerAssumption DEF LockerNext

-----------------------------------------------------------------------------

\* A plan lists exactly the accounts it keeps positions for, for any accounts,
\* plans and amounts, and any number of records: what delPlan walks over and
\* deleteLockedRecord asks for is never out of step with the positions.
THEOREM PlansListTheirAccounts == LockerSpec => []AccountsHavePositions
<1>1. LockerInit => PositionsInv
  <2> SUFFICES ASSUME LockerInit PROVE PositionsInv
    OBVIOUS
  <2>1. planRecordIndices \in [PlanIDs -> [Accounts -> {<<>>}]]
    BY DEF LockerInit
  <2>2. \A p \in PlanIDs : /\ planAccounts[p] = {}
                           /\ \A a \in Accounts : planRecordIndices[p][a] = <<>>
    BY DEF LockerInit
  <2>3. planAccounts \in [PlanIDs -> SUBSET Accounts]
    BY DEF LockerInit
  <2>4. QED
    BY <2>1, <2>2, <2>3, EmptyIsList DEF PositionsInv, AccountsHavePositions
<1>2. PositionsInv => AccountsHavePositions
  BY DEF PositionsInv
<1>3. QED
  BY <1>1, <1>2, PositionsInductive, PTL DEF LockerSpec
-----------------------------------------------------------------------------
(***************************************************************************)
(* What records are worth.  R picks the records that count.                *)
(***************************************************************************)

LockedRecord == [lockedID : LockedIDs, planID : PlanIDs, amount : Nat,
                 claimMethod : ClaimMethods, time : Nat, isActive : BOOLEAN]
Actives == {r \in LockedRecord : r.isActive}
ActivesOf(p) == {r \in LockedRecord : r.isActive /\ r.planID = p}

Value(r, R) == IF r \in R THEN r.amount ELSE 0
Values(records, R) == [j \in DOMAIN records |-> Value(records[j], R)]
Worth(records, R) == SumFunctionOnSet(Values(records, R), DOMAIN records)

LEMMA ValueIsNat ==
  ASSUME NEW r \in LockedRecord, NEW R
  PROVE  Value(r, R) \in Nat
<1>1. r.amount \in Nat
  BY DEF LockedRecord
<1> QED
  BY <1>1 DEF Value

\* The positions of records, and what lies there.
LEMMA Positions ==
  ASSUME NEW records \in Seq(LockedRecord), NEW R
  PROVE  /\ Len(records) \in Nat /\ DOMAIN records = 1..Len(records)
         /\ IsFiniteSet(DOMAIN records)
         /\ \A j \in DOMAIN records : /\ records[j] \in LockedRecord
                                      /\ Values(records, R)[j] = Value(records[j], R)
                                      /\ Values(records, R)[j] \in Nat
<1>1. Len(records) \in Nat /\ DOMAIN records = 1..Len(records)
  OBVIOUS
<1>2. IsFiniteSet(1..Len(records))
  BY <1>1, FS_Interval
<1>3. \A j \in DOMAIN records : records[j] \in LockedRecord
  OBVIOUS
<1> QED
  BY <1>1, <1>2, <1>3, ValueIsNat DEF Values

LEMMA WorthIsNat ==
  ASSUME NEW records \in Seq(LockedRecord), NEW R
  PROVE  Worth(records, R) \in Nat
  BY Positions, SumIsNat DEF Worth

\* A record at the end adds its value.
LEMMA WorthOfAppend ==
  ASSUME NEW records \in Seq(LockedRecord), NEW r \in LockedRecord, NEW R
  PROVE  /\ Append(records, r) \in Seq(LockedRecord)
         /\ Worth(Append(records, r), R) = Worth(records, R) + Value(r, R)
<1> DEFINE more == Append(records, r)
           n == Len(records)
<1>1. /\ more \in Seq(LockedRecord) /\ n \in Nat
      /\ DOMAIN more = 1..(n + 1) /\ DOMAIN records = 1..n
      /\ more[n + 1] = r /\ \A j \in 1..n : more[j] = records[j]
  OBVIOUS
<1> HIDE DEF more, n
<1>2. /\ \A j \in 1..n : /\ Values(records, R)[j] \in Int
                         /\ Values(more, R)[j] = Values(records, R)[j]
      /\ Values(more, R)[n + 1] = Value(r, R)
  BY <1>1, Positions DEF Values
<1>3. Value(r, R) \in Int
  BY ValueIsNat
<1>4. SumFunctionOnSet(Values(more, R), 1..(n + 1))
        = SumFunctionOnSet(Values(records, R), 1..n) + Value(r, R)
  <2>1. \A j \in 1..n : Values(records, R)[j] \in Int /\ Values(more, R)[j] = Values(records, R)[j]
    BY <1>2
  <2>2. Values(more, R)[n + 1] \in Int
    BY <1>2, <1>3
  <2>3. SumFunctionOnSet(Values(more, R), 1..(n + 1))
          = SumFunctionOnSet(Values(records, R), 1..n) + Values(more, R)[n + 1]
    BY <1>1, <2>1, <2>2, SumOfOneMore
  <2> QED
    BY <2>3, <1>2
<1> QED
  BY <1>1, <1>4 DEF Worth, more

\* Deleting by swap and pop takes away the value of the deleted record and no other.
LEMMA WorthOfSwapPop ==
  ASSUME NEW records \in Seq(LockedRecord), NEW k \in DOMAIN records, NEW R
  PROVE  /\ SwapPop(records, k) \in Seq(LockedRecord)
         /\ Len(SwapPop(records, k)) = Len(records) - 1
         /\ Worth(records, R) = Worth(SwapPop(records, k), R) + Value(records[k], R)
<1> DEFINE less == SwapPop(records, k)
           n == Len(records) - 1
           v == Values(records, R)
           w == Values(less, R)
<1>1. n \in Nat /\ DOMAIN records = 1..(n + 1) /\ Len(records) = n + 1 /\ k \in 1..(n + 1)
      /\ \A j \in 1..(n + 1) : records[j] \in LockedRecord
  OBVIOUS
<1>2. /\ less = [j \in 1..n |-> IF j = k THEN records[n + 1] ELSE records[j]]
      /\ DOMAIN less = 1..n
  BY DEF SwapPop
<1>3. /\ less \in Seq(LockedRecord) /\ Len(less) = n
  BY <1>1, <1>2
<1>4. /\ \A j \in 1..(n + 1) : v[j] \in Nat /\ v[j] = Value(records[j], R)
      /\ \A j \in 1..n : w[j] \in Nat /\ w[j] = IF j = k THEN v[n + 1] ELSE v[j]
  <2>1. \A j \in 1..(n + 1) : v[j] \in Nat /\ v[j] = Value(records[j], R)
    BY <1>1, Positions
  <2>2. \A j \in 1..n : w[j] \in Nat /\ w[j] = Value(less[j], R)
    BY <1>2, <1>3, Positions
  <2>3. n + 1 \in 1..(n + 1) /\ \A j \in 1..n : j \in 1..(n + 1)
    BY <1>1
  <2> HIDE DEF v, w, less
  <2> QED
    BY <1>2, <2>1, <2>2, <2>3
<1> HIDE DEF less, n, v, w
<1>5. IsFiniteSet(1..n)
  BY <1>1, FS_Interval
<1>6. SumFunctionOnSet(v, 1..(n + 1)) = SumFunctionOnSet(v, 1..n) + v[n + 1]
  <2>1. \A j \in 1..n : v[j] \in Int /\ v[j] = v[j]
    BY <1>1, <1>4
  <2>2. v[n + 1] \in Int
    BY <1>1, <1>4
  <2> QED
    BY <1>1, <2>1, <2>2, SumOfOneMore
<1>7. SumFunctionOnSet(v, 1..n) \in Int /\ v[n + 1] \in Int /\ v[k] \in Int
  <2>1. \A j \in 1..n : v[j] \in Int
    BY <1>1, <1>4
  <2>2. v[n + 1] \in Int /\ v[k] \in Int
    BY <1>1, <1>4
  <2> QED
    BY <1>5, <2>1, <2>2, SumIsInt
<1>8. SumFunctionOnSet(v, 1..(n + 1)) = SumFunctionOnSet(w, 1..n) + v[k]
  <2>1. CASE k \in 1..n
    <3>1. /\ \A j \in 1..n : v[j] \in Int /\ w[j] \in Int
          /\ \A j \in 1..n \ {k} : v[j] = w[j]
          /\ w[k] = v[n + 1]
      BY <1>1, <1>4, <2>1
    <3>2. SumFunctionOnSet(w, 1..n) = SumFunctionOnSet(v, 1..n) + w[k] - v[k]
      BY <1>5, <2>1, <3>1, SumChange
    <3> QED
      BY <1>6, <1>7, <3>1, <3>2
  <2>2. CASE k = n + 1
    <3>1. \A j \in 1..n : v[j] = w[j]
      BY <1>1, <1>4, <2>2
    <3>2. SumFunctionOnSet(v, 1..n) = SumFunctionOnSet(w, 1..n)
      BY <1>5, <3>1, SumSame
    <3> QED
      BY <1>6, <2>2, <3>2
  <2> QED
    BY <1>1, <2>1, <2>2
<1>9. v[k] = Value(records[k], R)
  BY <1>1, <1>4
<1> QED
  BY <1>1, <1>2, <1>3, <1>8, <1>9 DEF Worth, less, n, v, w

\* The amounts at the positions of some records are what these are worth.
LEMMA AmountIsWorth ==
  ASSUME NEW records \in Seq(LockedRecord), NEW R
  PROVE  AmountAt(records, {j \in DOMAIN records : records[j] \in R}) = Worth(records, R)
<1> DEFINE f == [j \in DOMAIN records |-> IF j \in {i \in DOMAIN records : records[i] \in R}
                                          THEN records[j].amount ELSE 0]
<1>1. f = Values(records, R)
  BY DEF Values, Value
<1> QED
  BY <1>1 DEF AmountAt, Worth, SumFunction, Values

-----------------------------------------------------------------------------
(***************************************************************************)
(* The loop of claimToken.                                                 *)
(***************************************************************************)

Start(records) == [records |-> records, total |-> 0, processed |-> 0]
Walking(g, records, claimMethod, last) ==
  g = [n \in 0..last |-> IF n = 0 THEN Start(records)
                         ELSE ClaimAt(claimMethod, g[n - 1], Len(records) + 1 - n)]

LEMMA ClaimIsWalk ==
  \A records, claimMethod :
    Claim(records, claimMethod)
      = (CHOOSE g : Walking(g, records, claimMethod, Len(records)))[Len(records)]
BY DEF Claim, Walking, Start

\* The loop can be walked as far as one likes.
LEMMA WalkExists ==
  ASSUME NEW records, NEW claimMethod, NEW last \in Nat
  PROVE  \E g : Walking(g, records, claimMethod, last)
<1> DEFINE B == {n \in 0..last : ~ \E g : Walking(g, records, claimMethod, n)}
<1>1. ASSUME B # {} PROVE FALSE
  <2>1. PICK n \in B : \A m \in B : n <= m
    <3>1. IsFiniteSet(0..last)
      BY FS_Interval
    <3>2. IsFiniteSet(B)
      BY <3>1, FS_Subset
    <3>3. B \subseteq Int
      OBVIOUS
    <3> HIDE DEF B
    <3> QED
      BY <1>1, <3>2, <3>3, LeastOfFinite
  <2>2. CASE n = 0
    <3> DEFINE g == [m \in 0..0 |-> Start(records)]
    <3>1. \A m \in 0..0 : m = 0
      OBVIOUS
    <3>2. Walking(g, records, claimMethod, 0)
      BY <3>1 DEF Walking
    <3> QED
      BY <2>2, <3>2
  <2>3. CASE n # 0
    <3>1. n - 1 \in 0..last /\ n - 1 \notin B /\ n \in Nat
      BY <2>1, <2>3
    <3>2. PICK h : Walking(h, records, claimMethod, n - 1)
      BY <3>1
    <3> DEFINE g == [m \in 0..n |-> IF m = n THEN ClaimAt(claimMethod, h[n - 1], Len(records) + 1 - n)
                                    ELSE h[m]]
    <3>3. ASSUME NEW m \in 0..n
          PROVE  g[m] = IF m = 0 THEN Start(records)
                        ELSE ClaimAt(claimMethod, g[m - 1], Len(records) + 1 - m)
      <4>1. CASE m = n
        <5>1. m - 1 \in 0..n /\ m - 1 # n
          BY <3>1, <4>1, <2>3
        <5>2. g[m] = ClaimAt(claimMethod, h[n - 1], Len(records) + 1 - n) /\ g[m - 1] = h[n - 1]
          BY <4>1, <5>1
        <5> HIDE DEF g
        <5> QED
          BY <4>1, <5>2, <2>3
      <4>2. CASE m # n
        <5>1. m \in 0..(n - 1) /\ (m # 0 => m - 1 \in 0..n /\ m - 1 # n)
          BY <3>1, <4>2
        <5>2. g[m] = h[m] /\ (m # 0 => g[m - 1] = h[m - 1])
          BY <4>2, <5>1
        <5> HIDE DEF g
        <5>3. h[m] = IF m = 0 THEN Start(records)
                     ELSE ClaimAt(claimMethod, h[m - 1], Len(records) + 1 - m)
          BY <3>2, <5>1 DEF Walking
        <5> QED
          BY <5>2, <5>3
      <4> QED
        BY <4>1, <4>2
    <3>4. g = [m \in 0..n |-> g[m]]
      OBVIOUS
    <3> HIDE DEF g
    <3>5. Walking(g, records, claimMethod, n)
      BY <3>3, <3>4 DEF Walking
    <3> QED
      BY <3>5
  <2> QED
    BY <2>2, <2>3
<1>2. last \notin B /\ last \in 0..last
  BY <1>1
<1> QED
  BY <1>2

\* The records that a claim of this method may take.
Dues(claimMethod) == {r \in LockedRecord : Due(r, claimMethod)}

\* What the loop keeps after n positions.
WalkKeeps(sofar, records, claimMethod, R, n) ==
  /\ sofar.records \in Seq(LockedRecord) /\ sofar.total \in Nat
  /\ Len(sofar.records) >= Len(records) - n
  /\ Worth(sofar.records, R) <= Worth(records, R)
  /\ R \cap Dues(claimMethod) = {} => Worth(sofar.records, R) = Worth(records, R)
  /\ Worth(records, Actives) = Worth(sofar.records, Actives) + sofar.total

LEMMA BodyKeeps ==
  ASSUME NEW records \in Seq(LockedRecord), NEW claimMethod, NEW R, NEW sofar,
         NEW n \in Nat, n # 0, n <= Len(records),
         WalkKeeps(sofar, records, claimMethod, R, n - 1)
  PROVE  WalkKeeps(ClaimAt(claimMethod, sofar, Len(records) + 1 - n), records, claimMethod, R, n)
<1> DEFINE idx == Len(records) + 1 - n
           next == ClaimAt(claimMethod, sofar, idx)
           left == sofar.records
           r == left[idx]
<1>1. /\ left \in Seq(LockedRecord) /\ sofar.total \in Nat
      /\ Len(left) >= idx /\ idx \in Nat \ {0} /\ Len(left) \in Nat /\ Len(records) \in Nat
  BY DEF WalkKeeps
<1>2. idx \in DOMAIN left /\ r \in LockedRecord
  BY <1>1
<1>3. CASE sofar.processed < ClaimBatch /\ Due(r, claimMethod)
  <2>1. next.records = SwapPop(left, idx) /\ next.total = sofar.total + r.amount
    BY <1>3 DEF ClaimAt
  <2>2. r \in Actives /\ r \in Dues(claimMethod) /\ r.amount \in Nat
    BY <1>2, <1>3 DEF Actives, Dues, Due, LockedRecord
  <2>3. Value(r, Actives) = r.amount
    BY <2>2 DEF Value
  <2>4. R \cap Dues(claimMethod) = {} => Value(r, R) = 0
    BY <2>2 DEF Value
  <2>5. Value(r, R) \in Nat
    BY <1>2, ValueIsNat
  <2> HIDE DEF idx, next, left, r
  <2>6. /\ next.records \in Seq(LockedRecord) /\ Len(next.records) = Len(left) - 1
        /\ Worth(left, R) = Worth(next.records, R) + Value(r, R)
    BY <1>1, <1>2, <2>1, WorthOfSwapPop DEF r
  <2>7. Worth(left, Actives) = Worth(next.records, Actives) + r.amount
    BY <1>1, <1>2, <2>1, <2>3, WorthOfSwapPop DEF r
  <2>8. Worth(next.records, R) \in Nat /\ Worth(next.records, Actives) \in Nat
    BY <2>6, WorthIsNat
  <2>9. Worth(records, R) \in Nat /\ Worth(left, R) \in Nat
    BY <1>1, WorthIsNat
  <2>10. /\ Worth(left, R) <= Worth(records, R)
         /\ R \cap Dues(claimMethod) = {} => Worth(left, R) = Worth(records, R)
         /\ Worth(records, Actives) = Worth(left, Actives) + sofar.total
         /\ Len(left) >= Len(records) - (n - 1)
    BY DEF WalkKeeps, left
  <2>11. next.total \in Nat
    BY <1>1, <2>1, <2>2
  <2>12. Len(next.records) >= Len(records) - n
    BY <1>1, <2>6, <2>10
  <2>13. Worth(next.records, R) <= Worth(records, R)
    BY <2>5, <2>6, <2>8, <2>9, <2>10
  <2>14. R \cap Dues(claimMethod) = {} => Worth(next.records, R) = Worth(records, R)
    BY <2>4, <2>6, <2>8, <2>9, <2>10
  <2>15. Worth(records, Actives) = Worth(next.records, Actives) + next.total
    BY <1>1, <2>1, <2>2, <2>7, <2>8, <2>10
  <2> QED
    BY <2>6, <2>11, <2>12, <2>13, <2>14, <2>15 DEF WalkKeeps, next, idx
<1>4. CASE ~(sofar.processed < ClaimBatch /\ Due(r, claimMethod))
  <2>1. next = sofar
    BY <1>4 DEF ClaimAt
  <2>2. Len(left) >= Len(records) - n
    BY <1>1 DEF WalkKeeps
  <2> QED
    BY <2>1, <2>2 DEF WalkKeeps
<1> QED
  BY <1>3, <1>4

\* A claim pays the active records it takes, and takes none that is not due.
LEMMA ClaimKeeps ==
  ASSUME NEW records \in Seq(LockedRecord), NEW claimMethod, NEW R
  PROVE  WalkKeeps(Claim(records, claimMethod), records, claimMethod, R, Len(records))
<1> DEFINE last == Len(records)
           walk == CHOOSE g : Walking(g, records, claimMethod, last)
           B == {n \in 0..last : ~WalkKeeps(walk[n], records, claimMethod, R, n)}
<1>1. last \in Nat
  OBVIOUS
<1>2. Walking(walk, records, claimMethod, last)
  <2>1. \E g : Walking(g, records, claimMethod, last)
    BY <1>1, WalkExists
  <2> HIDE DEF last
  <2> QED
    BY <2>1, Zenon
<1>3. Claim(records, claimMethod) = walk[last]
  BY ClaimIsWalk
<1> HIDE DEF walk
<1>4. ASSUME B # {} PROVE FALSE
  <2>1. PICK n \in B : \A m \in B : n <= m
    <3>1. IsFiniteSet(0..last)
      BY <1>1, FS_Interval
    <3>2. IsFiniteSet(B)
      BY <3>1, FS_Subset
    <3>3. B \subseteq Int
      BY <1>1
    <3> HIDE DEF B
    <3> QED
      BY <1>4, <3>2, <3>3, LeastOfFinite
  <2>2. n \in 0..last /\ n \in Nat /\ ~WalkKeeps(walk[n], records, claimMethod, R, n)
    BY <1>1, <2>1
  <2>3. CASE n = 0
    <3>1. walk[n] = Start(records)
      BY <1>2, <2>2, <2>3 DEF Walking
    <3>2. Worth(records, R) \in Nat /\ Worth(records, Actives) \in Nat
      BY WorthIsNat
    <3>3. WalkKeeps(Start(records), records, claimMethod, R, 0)
      BY <1>1, <3>2 DEF WalkKeeps, Start
    <3> QED
      BY <2>2, <2>3, <3>1, <3>3
  <2>4. CASE n # 0
    <3>1. n - 1 \in 0..last /\ n <= Len(records)
      BY <1>1, <2>2, <2>4
    <3>2. walk[n] = ClaimAt(claimMethod, walk[n - 1], Len(records) + 1 - n)
      BY <1>2, <2>2, <2>4 DEF Walking
    <3>3. n - 1 \notin B
      BY <2>1, <2>2, <3>1
    <3>4. WalkKeeps(walk[n - 1], records, claimMethod, R, n - 1)
      BY <3>1, <3>3
    <3>5. WalkKeeps(ClaimAt(claimMethod, walk[n - 1], Len(records) + 1 - n),
                    records, claimMethod, R, n)
      BY <2>2, <2>4, <3>1, <3>4, BodyKeeps
    <3> QED
      BY <2>2, <3>2, <3>5
  <2> QED
    BY <2>3, <2>4
<1>5. last \in 0..last /\ last \notin B
  BY <1>1, <1>4
<1> QED
  BY <1>3, <1>5

-----------------------------------------------------------------------------
(***************************************************************************)
(* What plans have allocated, and what the contract holds.                 *)
(***************************************************************************)

Plan == [planAmount : Nat, allocatedAmount : Nat, claimMethod : ClaimMethods, isActive : BOOLEAN]

LockerTypes ==
  /\ lockedRecords \in [Accounts -> Seq(LockedRecord)]
  /\ plans \in [PlanIDs -> Plan]
  /\ received \in [Accounts -> Nat]
  /\ totalLockedAmount \in Nat /\ funds \in Nat

Worths(recs, p) == SumFunctionOnSet([a \in Accounts |-> Worth(recs[a], ActivesOf(p))], Accounts)
Covered(recs, ps) ==
  \A p \in PlanIDs : /\ ps[p].allocatedAmount <= ps[p].planAmount
                     /\ Worths(recs, p) <= ps[p].allocatedAmount

\* The inductive invariant.
LockerInv == LockerTypes /\ Covered(lockedRecords, plans) /\ LockedIsHeldOrPaid

\* Counting by positions or by records is the same.
LEMMA CoverMeans ==
  LockerTypes => (Covered(lockedRecords, plans) <=> AllocationCoversRecords)
<1> SUFFICES ASSUME LockerTypes
             PROVE  Covered(lockedRecords, plans) <=> AllocationCoversRecords
  OBVIOUS
<1>1. ASSUME NEW p \in PlanIDs
      PROVE  Worths(lockedRecords, p)
               = SumFunction([a \in Accounts |-> AmountAt(lockedRecords[a], ActiveOf(p, a))])
  <2>1. ASSUME NEW a \in Accounts
        PROVE  AmountAt(lockedRecords[a], ActiveOf(p, a)) = Worth(lockedRecords[a], ActivesOf(p))
    <3>1. lockedRecords[a] \in Seq(LockedRecord)
      BY DEF LockerTypes
    <3>2. \A j \in DOMAIN lockedRecords[a] : lockedRecords[a][j] \in LockedRecord
      BY <3>1
    <3>3. ActiveOf(p, a) = {j \in DOMAIN lockedRecords[a] : lockedRecords[a][j] \in ActivesOf(p)}
      BY <3>2 DEF ActiveOf, ActiveAt, ActivesOf
    <3> QED
      BY <3>1, <3>3, AmountIsWorth
  <2>2. [a \in Accounts |-> AmountAt(lockedRecords[a], ActiveOf(p, a))]
          = [a \in Accounts |-> Worth(lockedRecords[a], ActivesOf(p))]
    BY <2>1
  <2> QED
    BY <2>2 DEF Worths, SumFunction
<1> QED
  BY <1>1 DEF Covered, AllocationCoversRecords

\* The records of one account change.
LEMMA WorthsChange ==
  ASSUME NEW recs \in [Accounts -> Seq(LockedRecord)],
         NEW new \in [Accounts -> Seq(LockedRecord)], NEW a \in Accounts,
         \A b \in Accounts \ {a} : new[b] = recs[b], NEW p
  PROVE  /\ Worths(new, p)
              = Worths(recs, p) + Worth(new[a], ActivesOf(p)) - Worth(recs[a], ActivesOf(p))
         /\ Worth(new[a], ActivesOf(p)) \in Nat
         /\ Worth(recs[a], ActivesOf(p)) \in Nat
         /\ Worths(recs, p) \in Nat /\ Worths(new, p) \in Nat
<1> DEFINE f == [b \in Accounts |-> Worth(recs[b], ActivesOf(p))]
           g == [b \in Accounts |-> Worth(new[b], ActivesOf(p))]
<1>1. \A b \in Accounts : new[b] \in Seq(LockedRecord) /\ recs[b] \in Seq(LockedRecord)
  OBVIOUS
<1>2. \A b \in Accounts : f[b] \in Nat /\ g[b] \in Nat
  BY <1>1, WorthIsNat
<1>3. /\ f[a] = Worth(recs[a], ActivesOf(p)) /\ g[a] = Worth(new[a], ActivesOf(p))
      /\ \A b \in Accounts \ {a} : f[b] = g[b]
  BY <1>1
<1>4. Worths(recs, p) = SumFunctionOnSet(f, Accounts) /\ Worths(new, p) = SumFunctionOnSet(g, Accounts)
  BY DEF Worths
<1> HIDE DEF f, g
<1>5. IsFiniteSet(Accounts)
  BY LockerAssumption
<1>6. SumFunctionOnSet(f, Accounts) \in Nat
  BY <1>2, <1>5, SumIsNat
<1>9. SumFunctionOnSet(g, Accounts) \in Nat
  BY <1>2, <1>5, SumIsNat
<1>7. \A b \in Accounts : f[b] \in Int /\ g[b] \in Int
  BY <1>2
<1>8. SumFunctionOnSet(g, Accounts) = SumFunctionOnSet(f, Accounts) + g[a] - f[a]
  BY <1>3, <1>5, <1>7, SumChange
<1> QED
  BY <1>1, <1>2, <1>3, <1>4, <1>6, <1>8, <1>9

LEMMA SetPlanKeepsLocker ==
  ASSUME LockerInv, NEW p \in PlanIDs, NEW amount \in Amounts, NEW claimMethod \in ClaimMethods,
         SetPlan(p, amount, claimMethod)
  PROVE  LockerInv'
<1> DEFINE new == [planAmount |-> amount, allocatedAmount |-> 0, claimMethod |-> claimMethod,
                   isActive |-> TRUE]
<1>1. new \in Plan /\ new.allocatedAmount = 0 /\ new.planAmount \in Nat
  BY LockerAssumption DEF Plan
<1>2. /\ plans' = [plans EXCEPT ![p] = new] /\ plans[p].planAmount = 0
      /\ UNCHANGED <<totalLockedAmount, lockedRecords, funds, received>>
  BY DEF SetPlan
<1> HIDE DEF new
<1>3. /\ plans' \in [PlanIDs -> Plan]
      /\ \A q \in PlanIDs : plans'[q] = IF q = p THEN new ELSE plans[q]
  BY <1>1, <1>2 DEF LockerInv, LockerTypes
<1>4. plans[p].allocatedAmount \in Nat
  BY DEF LockerInv, LockerTypes, Plan
<1>5. plans[p].allocatedAmount = 0 /\ Worths(lockedRecords, p) <= 0
  BY <1>2, <1>4 DEF LockerInv, Covered
<1>6. Covered(lockedRecords, plans')
  BY <1>1, <1>3, <1>5 DEF LockerInv, Covered
<1> QED
  BY <1>2, <1>3, <1>6 DEF LockerInv, LockerTypes, LockedIsHeldOrPaid

LEMMA SetLockedRecordKeepsLocker ==
  ASSUME LockerInv, NEW lockedID \in LockedIDs, NEW p \in PlanIDs, NEW a \in Accounts,
         NEW amount \in Amounts, NEW time \in Times,
         SetLockedRecord(lockedID, p, a, amount, time)
  PROVE  LockerInv'
<1> DEFINE r == [lockedID |-> lockedID, planID |-> p, amount |-> amount,
                 claimMethod |-> plans[p].claimMethod, time |-> time, isActive |-> TRUE]
           more == Append(lockedRecords[a], r)
           plan == [plans[p] EXCEPT !.allocatedAmount = @ + amount]
<1>1. /\ amount \in Nat /\ time \in Nat
      /\ plans[p] \in Plan /\ lockedRecords \in [Accounts -> Seq(LockedRecord)]
      /\ plans[p].allocatedAmount \in Nat /\ plans[p].planAmount \in Nat
      /\ plans[p].claimMethod \in ClaimMethods
  BY LockerAssumption DEF LockerInv, LockerTypes, Plan
<1>2. r \in LockedRecord /\ r.amount = amount /\ r.planID = p /\ r.isActive
  BY <1>1 DEF LockedRecord
<1>3. /\ lockedRecords' = [lockedRecords EXCEPT ![a] = more]
      /\ plans' = [plans EXCEPT ![p] = plan]
      /\ plans[p].allocatedAmount + amount <= plans[p].planAmount
      /\ UNCHANGED <<totalLockedAmount, funds, received>>
  BY DEF SetLockedRecord
<1>4. /\ plan \in Plan /\ plan.allocatedAmount = plans[p].allocatedAmount + amount
      /\ plan.planAmount = plans[p].planAmount
  BY <1>1 DEF Plan
<1> HIDE DEF r
<1>5. ASSUME NEW q \in PlanIDs
      PROVE  /\ more \in Seq(LockedRecord)
             /\ Worth(more, ActivesOf(q)) = Worth(lockedRecords[a], ActivesOf(q))
                                             + Value(r, ActivesOf(q))
  BY <1>1, <1>2, WorthOfAppend
<1> HIDE DEF more, plan
<1>6. more \in Seq(LockedRecord)
  BY <1>5
<1>7. /\ lockedRecords' \in [Accounts -> Seq(LockedRecord)]
      /\ plans' \in [PlanIDs -> Plan]
      /\ \A q \in PlanIDs : plans'[q] = IF q = p THEN plan ELSE plans[q]
  BY <1>1, <1>3, <1>4, <1>6 DEF LockerInv, LockerTypes
<1>8. ASSUME NEW q \in PlanIDs
      PROVE  /\ plans'[q].allocatedAmount <= plans'[q].planAmount
             /\ Worths(lockedRecords', q) <= plans'[q].allocatedAmount
  <2>1. /\ Worths(lockedRecords', q) = Worths(lockedRecords, q) + Worth(more, ActivesOf(q))
                                         - Worth(lockedRecords[a], ActivesOf(q))
        /\ Worth(lockedRecords[a], ActivesOf(q)) \in Nat /\ Worths(lockedRecords, q) \in Nat
    <3>1. lockedRecords'[a] = more /\ \A b \in Accounts \ {a} : lockedRecords'[b] = lockedRecords[b]
      BY <1>1, <1>3
    <3> QED
      BY <1>1, <1>7, <3>1, WorthsChange
  <2>2. Worth(more, ActivesOf(q)) = Worth(lockedRecords[a], ActivesOf(q)) + Value(r, ActivesOf(q))
    BY <1>5
  <2>3. /\ plans[q].allocatedAmount <= plans[q].planAmount
        /\ Worths(lockedRecords, q) <= plans[q].allocatedAmount
    BY DEF LockerInv, Covered
  <2>4. plans[q].allocatedAmount \in Nat
    BY DEF LockerInv, LockerTypes, Plan
  <2>5. CASE q = p
    <3>1. Value(r, ActivesOf(q)) = amount
      BY <1>2, <2>5 DEF Value, ActivesOf
    <3> QED
      BY <1>1, <1>3, <1>4, <1>7, <2>1, <2>2, <2>3, <2>4, <2>5, <3>1
  <2>6. CASE q # p
    <3>1. Value(r, ActivesOf(q)) = 0
      BY <1>2, <2>6 DEF Value, ActivesOf
    <3>2. plans'[q] = plans[q]
      BY <1>7, <2>6
    <3>3. Worths(lockedRecords', q) = Worths(lockedRecords, q)
      BY <2>1, <2>2, <3>1
    <3> QED
      BY <2>3, <3>2, <3>3
  <2> QED
    BY <2>5, <2>6
<1> QED
  BY <1>3, <1>7, <1>8 DEF LockerInv, LockerTypes, Covered, LockedIsHeldOrPaid

\* The amount that leaves the sum is what the plan takes back.
LEMMA DeleteLockedRecordKeepsLocker ==
  ASSUME LockerInv, NEW lockedID \in LockedIDs, NEW p \in PlanIDs, NEW a \in Accounts,
         DeleteLockedRecord(lockedID, p, a)
  PROVE  LockerInv'
<1> DEFINE records == lockedRecords[a]
           matches == {i \in DOMAIN records : /\ records[i].lockedID = lockedID
                                              /\ records[i].planID = p
                                              /\ records[i].isActive}
           j == Min(matches)
           r == records[j]
           left == SwapPop(records, j)
           plan == [plans[p] EXCEPT !.allocatedAmount = IF @ >= r.amount THEN @ - r.amount ELSE 0]
<1>1. /\ plans[p] \in Plan /\ lockedRecords \in [Accounts -> Seq(LockedRecord)]
      /\ plans[p].allocatedAmount \in Nat
  BY DEF LockerInv, LockerTypes, Plan
<1>2. /\ lockedRecords' = [lockedRecords EXCEPT ![a] = left]
      /\ plans' = [plans EXCEPT ![p] = plan]
      /\ matches # {}
      /\ UNCHANGED <<totalLockedAmount, funds, received>>
  BY DEF DeleteLockedRecord
<1>3. records \in Seq(LockedRecord)
  BY <1>1
<1>4. j \in matches
  <2>1. IsFiniteSet(DOMAIN records) /\ DOMAIN records \subseteq Int
    <3>1. DOMAIN records = 1..Len(records) /\ Len(records) \in Nat
      BY <1>3
    <3> QED
      BY <3>1, FS_Interval
  <2>2. IsFiniteSet(matches) /\ matches \subseteq Int
    BY <2>1, FS_Subset
  <2> HIDE DEF matches
  <2>3. \E x \in matches : \A y \in matches : x <= y
    BY <1>2, <2>2, LeastOfFinite
  <2> QED
    BY <2>3 DEF Min
<1>5. j \in DOMAIN records /\ r.planID = p /\ r.isActive
  BY <1>4
<1> HIDE DEF matches, j
<1>6. r \in LockedRecord /\ r.amount \in Nat
  <2>1. r \in LockedRecord
    BY <1>3, <1>5
  <2> HIDE DEF r
  <2> QED
    BY <2>1 DEF LockedRecord
<1> HIDE DEF r, left, records
<1>7. ASSUME NEW q \in PlanIDs
      PROVE  /\ left \in Seq(LockedRecord)
             /\ Worth(records, ActivesOf(q)) = Worth(left, ActivesOf(q)) + Value(r, ActivesOf(q))
  BY <1>3, <1>5, WorthOfSwapPop DEF left, r
<1>8. left \in Seq(LockedRecord)
  BY <1>7
<1>9. /\ plan \in Plan /\ plan.planAmount = plans[p].planAmount
      /\ plan.allocatedAmount = IF plans[p].allocatedAmount >= r.amount
                                THEN plans[p].allocatedAmount - r.amount ELSE 0
  <2> DEFINE rest == IF plans[p].allocatedAmount >= r.amount
                     THEN plans[p].allocatedAmount - r.amount ELSE 0
  <2>1. rest \in Nat
    BY <1>1, <1>6
  <2>2. plan = [plans[p] EXCEPT !.allocatedAmount = rest]
    BY <1>1
  <2> HIDE DEF rest, plan
  <2>3. /\ plan \in Plan /\ plan.planAmount = plans[p].planAmount
        /\ plan.allocatedAmount = rest
    BY <1>1, <2>1, <2>2 DEF Plan
  <2> QED
    BY <2>3 DEF rest
<1> HIDE DEF plan
<1>10. /\ lockedRecords' \in [Accounts -> Seq(LockedRecord)]
       /\ plans' \in [PlanIDs -> Plan]
       /\ \A q \in PlanIDs : plans'[q] = IF q = p THEN plan ELSE plans[q]
  BY <1>1, <1>2, <1>8, <1>9 DEF LockerInv, LockerTypes
<1>11. ASSUME NEW q \in PlanIDs
       PROVE  /\ plans'[q].allocatedAmount <= plans'[q].planAmount
              /\ Worths(lockedRecords', q) <= plans'[q].allocatedAmount
  <2>1. /\ Worths(lockedRecords', q) = Worths(lockedRecords, q) + Worth(left, ActivesOf(q))
                                         - Worth(records, ActivesOf(q))
        /\ Worths(lockedRecords', q) \in Nat
        /\ Worth(left, ActivesOf(q)) \in Nat
        /\ Worth(records, ActivesOf(q)) \in Nat /\ Worths(lockedRecords, q) \in Nat
    <3>1. lockedRecords'[a] = left /\ \A b \in Accounts \ {a} : lockedRecords'[b] = lockedRecords[b]
      BY <1>1, <1>2
    <3> QED
      BY <1>1, <1>10, <3>1, WorthsChange DEF records
  <2>2. Worth(records, ActivesOf(q)) = Worth(left, ActivesOf(q)) + Value(r, ActivesOf(q))
    BY <1>7
  <2>3. /\ plans[q].allocatedAmount <= plans[q].planAmount
        /\ Worths(lockedRecords, q) <= plans[q].allocatedAmount
    BY DEF LockerInv, Covered
  <2>4. plans[q].allocatedAmount \in Nat /\ plans[q].planAmount \in Nat
    BY DEF LockerInv, LockerTypes, Plan
  <2>5. CASE q = p
    <3>1. Value(r, ActivesOf(q)) = r.amount
      BY <1>5, <1>6, <2>5 DEF Value, ActivesOf, r
    <3>2. Worths(lockedRecords', q) = Worths(lockedRecords, q) - r.amount
      BY <1>6, <2>1, <2>2, <3>1
    <3>3. plans[p].allocatedAmount >= r.amount
      BY <1>6, <2>1, <2>3, <2>4, <2>5, <3>2
    <3>4. plan.allocatedAmount = plans[q].allocatedAmount - r.amount
      BY <1>9, <2>5, <3>3
    <3>5. plans'[q] = plan /\ plan.planAmount = plans[q].planAmount
      BY <1>9, <1>10, <2>5
    <3> QED
      BY <1>6, <2>1, <2>3, <2>4, <3>2, <3>4, <3>5
  <2>6. CASE q # p
    <3>1. Value(r, ActivesOf(q)) = 0
      BY <1>5, <2>6 DEF Value, ActivesOf, r
    <3>2. plans'[q] = plans[q]
      BY <1>10, <2>6
    <3>3. Worths(lockedRecords', q) = Worths(lockedRecords, q)
      BY <2>1, <2>2, <3>1
    <3> QED
      BY <2>3, <3>2, <3>3
  <2> QED
    BY <2>5, <2>6
<1> QED
  BY <1>2, <1>10, <1>11 DEF LockerInv, LockerTypes, Covered, LockedIsHeldOrPaid

\* Deleting a plan only takes records out of the sums, of whatever plan.
LEMMA DelPlanKeepsLocker ==
  ASSUME LockerInv, NEW p \in PlanIDs, DelPlan(p)
  PROVE  LockerInv'
<1>1. /\ plans \in [PlanIDs -> Plan] /\ lockedRecords \in [Accounts -> Seq(LockedRecord)]
  BY DEF LockerInv, LockerTypes
<1>2. /\ plans' = [plans EXCEPT ![p].isActive = FALSE]
      /\ lockedRecords' =
           [a \in Accounts |->
              [j \in DOMAIN lockedRecords[a] |->
                 IF a \in planAccounts[p] /\ j \in Cancelled(p, a)
                 THEN [lockedRecords[a][j] EXCEPT !.isActive = FALSE] ELSE lockedRecords[a][j]]]
      /\ UNCHANGED <<totalLockedAmount, funds, received>>
  BY DEF DelPlan
<1>3. /\ plans' \in [PlanIDs -> Plan]
      /\ \A q \in PlanIDs : /\ plans'[q].allocatedAmount = plans[q].allocatedAmount
                            /\ plans'[q].planAmount = plans[q].planAmount
  BY <1>1, <1>2 DEF Plan
<1>4. ASSUME NEW a \in Accounts
      PROVE  /\ lockedRecords'[a] \in Seq(LockedRecord)
             /\ DOMAIN lockedRecords'[a] = DOMAIN lockedRecords[a]
             /\ \A j \in DOMAIN lockedRecords[a] :
                  lockedRecords'[a][j] \in {lockedRecords[a][j],
                                            [lockedRecords[a][j] EXCEPT !.isActive = FALSE]}
  <2> DEFINE records == lockedRecords[a]
             left == lockedRecords'[a]
  <2>1. records \in Seq(LockedRecord)
    BY <1>1
  <2>2. left = [j \in DOMAIN records |->
                  IF a \in planAccounts[p] /\ j \in Cancelled(p, a)
                  THEN [records[j] EXCEPT !.isActive = FALSE] ELSE records[j]]
    BY <1>2
  <2> HIDE DEF records, left
  <2>3. /\ DOMAIN left = DOMAIN records
        /\ \A j \in DOMAIN records : left[j] \in {records[j], [records[j] EXCEPT !.isActive = FALSE]}
    BY <2>2
  <2>4. \A j \in DOMAIN records : /\ records[j] \in LockedRecord
                                  /\ [records[j] EXCEPT !.isActive = FALSE] \in LockedRecord
    <3>1. ASSUME NEW r \in LockedRecord
          PROVE  [r EXCEPT !.isActive = FALSE] \in LockedRecord
      BY DEF LockedRecord
    <3>2. \A j \in DOMAIN records : records[j] \in LockedRecord
      BY <2>1
    <3> QED
      BY <3>1, <3>2
  <2>5. left \in [1..Len(records) -> LockedRecord] /\ Len(records) \in Nat
    BY <2>1, <2>2, <2>3, <2>4
  <2>6. left \in Seq(LockedRecord)
    BY <2>5
  <2> QED
    BY <2>3, <2>6 DEF records, left
<1>5. lockedRecords' \in [Accounts -> Seq(LockedRecord)]
  BY <1>2, <1>4
<1>6. ASSUME NEW q \in PlanIDs, NEW a \in Accounts
      PROVE  Worth(lockedRecords'[a], ActivesOf(q)) <= Worth(lockedRecords[a], ActivesOf(q))
  <2> DEFINE v == Values(lockedRecords[a], ActivesOf(q))
             w == Values(lockedRecords'[a], ActivesOf(q))
             S == DOMAIN lockedRecords[a]
  <2>1. lockedRecords[a] \in Seq(LockedRecord)
    BY <1>1
  <2>2. IsFiniteSet(S)
    BY <2>1, Positions
  <2>3. ASSUME NEW j \in S
        PROVE  v[j] \in Int /\ w[j] \in Int /\ w[j] <= v[j]
    <3> DEFINE r == lockedRecords[a][j]
               s == lockedRecords'[a][j]
    <3>1. v[j] = Value(r, ActivesOf(q)) /\ w[j] = Value(s, ActivesOf(q))
      BY <1>4 DEF Values
    <3>2. r \in LockedRecord /\ s \in LockedRecord
      BY <1>4, <2>1
    <3>3. Value(r, ActivesOf(q)) \in Nat /\ Value(s, ActivesOf(q)) \in Nat
      BY <3>2, ValueIsNat
    <3>4. s = r \/ ~s.isActive
      BY <1>4, <3>2 DEF LockedRecord
    <3>5. ~s.isActive => Value(s, ActivesOf(q)) = 0
      BY DEF Value, ActivesOf
    <3> HIDE DEF r, s, v, w
    <3> QED
      BY <3>1, <3>3, <3>4, <3>5
  <2>4. Worth(lockedRecords[a], ActivesOf(q)) = SumFunctionOnSet(v, S)
    BY DEF Worth
  <2>5. Worth(lockedRecords'[a], ActivesOf(q)) = SumFunctionOnSet(w, S)
    BY <1>4 DEF Worth
  <2> HIDE DEF v, w, S
  <2>6. SumFunctionOnSet(w, S) <= SumFunctionOnSet(v, S)
    BY <2>2, <2>3, SumAtMost
  <2> QED
    BY <2>4, <2>5, <2>6
<1>7. ASSUME NEW q \in PlanIDs
      PROVE  /\ Worths(lockedRecords', q) <= Worths(lockedRecords, q)
             /\ Worths(lockedRecords', q) \in Int /\ Worths(lockedRecords, q) \in Int
  <2> DEFINE f == [a \in Accounts |-> Worth(lockedRecords[a], ActivesOf(q))]
             g == [a \in Accounts |-> Worth(lockedRecords'[a], ActivesOf(q))]
  <2>1. IsFiniteSet(Accounts)
    BY LockerAssumption
  <2>2. \A a \in Accounts : f[a] \in Nat /\ g[a] \in Nat
    BY <1>1, <1>4, WorthIsNat
  <2>3. \A a \in Accounts : f[a] \in Int /\ g[a] \in Int /\ g[a] <= f[a]
    BY <1>6, <2>2
  <2>4. Worths(lockedRecords, q) = SumFunctionOnSet(f, Accounts)
    BY DEF Worths
  <2>5. Worths(lockedRecords', q) = SumFunctionOnSet(g, Accounts)
    BY DEF Worths
  <2> HIDE DEF f, g
  <2>6. SumFunctionOnSet(g, Accounts) <= SumFunctionOnSet(f, Accounts)
    BY <2>1, <2>3, SumAtMost
  <2>7. SumFunctionOnSet(g, Accounts) \in Int
    BY <2>1, <2>3, SumIsInt
  <2>8. SumFunctionOnSet(f, Accounts) \in Int
    BY <2>1, <2>3, SumIsInt
  <2> QED
    BY <2>4, <2>5, <2>6, <2>7, <2>8
<1>8. \A q \in PlanIDs : /\ plans[q].allocatedAmount \in Int
                         /\ plans[q].allocatedAmount <= plans[q].planAmount
                         /\ Worths(lockedRecords, q) <= plans[q].allocatedAmount
  BY <1>1 DEF LockerInv, Covered, Plan
<1>9. Covered(lockedRecords', plans')
  <2> SUFFICES ASSUME NEW q \in PlanIDs
               PROVE  /\ plans'[q].allocatedAmount <= plans'[q].planAmount
                      /\ Worths(lockedRecords', q) <= plans'[q].allocatedAmount
    BY DEF Covered
  <2> QED
    BY <1>3, <1>7, <1>8
<1> QED
  BY <1>2, <1>3, <1>5, <1>9 DEF LockerInv, LockerTypes, LockedIsHeldOrPaid

\* A claim takes records, and moves what they pay from the contract to the account.
LEMMA ClaimKeepsLocker ==
  ASSUME LockerInv, NEW sender \in Accounts, NEW a \in Accounts, ClaimToken(sender, a)
  PROVE  LockerInv'
<1> DEFINE method == IF sender \in managers THEN 0 ELSE 1
           records == lockedRecords[a]
           claim == Claim(records, method)
<1>1. /\ lockedRecords \in [Accounts -> Seq(LockedRecord)] /\ records \in Seq(LockedRecord)
      /\ received \in [Accounts -> Nat] /\ funds \in Nat /\ totalLockedAmount \in Nat
  BY DEF LockerInv, LockerTypes
<1>2. /\ lockedRecords' = [lockedRecords EXCEPT ![a] = claim.records]
      /\ claim.total <= funds /\ funds' = funds - claim.total
      /\ received' = [received EXCEPT ![a] = @ + claim.total]
      /\ UNCHANGED <<totalLockedAmount, plans>>
  BY DEF ClaimToken
<1>3. /\ claim.records \in Seq(LockedRecord) /\ claim.total \in Nat
      /\ \A q \in PlanIDs : Worth(claim.records, ActivesOf(q)) <= Worth(records, ActivesOf(q))
  <2>1. \A R : WalkKeeps(claim, records, method, R, Len(records))
    <3> HIDE DEF method
    <3> QED
      BY <1>1, ClaimKeeps
  <2> HIDE DEF claim
  <2> QED
    BY <2>1 DEF WalkKeeps
<1> HIDE DEF method, claim
<1>4. /\ received' \in [Accounts -> Nat] /\ received'[a] = received[a] + claim.total
      /\ \A b \in Accounts \ {a} : received[b] = received'[b]
      /\ funds' \in Nat
  BY <1>1, <1>2, <1>3
<1>5. LockedIsHeldOrPaid'
  <2>1. IsFiniteSet(Accounts)
    BY LockerAssumption
  <2>2. \A b \in Accounts : received[b] \in Int /\ received'[b] \in Int
    BY <1>1, <1>4
  <2>3. SumFunctionOnSet(received', Accounts)
          = SumFunctionOnSet(received, Accounts) + received'[a] - received[a]
    BY <1>4, <2>1, <2>2, SumChange
  <2>4. SumFunctionOnSet(received, Accounts) \in Int
    BY <2>1, <2>2, SumIsInt
  <2>5. /\ SumFunction(received) = SumFunctionOnSet(received, Accounts)
        /\ SumFunction(received') = SumFunctionOnSet(received', Accounts)
    BY <1>1, <1>4 DEF SumFunction
  <2>6. totalLockedAmount = funds + SumFunctionOnSet(received, Accounts)
    BY <2>5 DEF LockerInv, LockedIsHeldOrPaid
  <2>7. received[a] \in Int
    BY <2>2
  <2>8. totalLockedAmount' = funds' + SumFunctionOnSet(received', Accounts)
    <3>1. totalLockedAmount' = totalLockedAmount /\ funds' = funds - claim.total
      BY <1>2
    <3>2. funds \in Int /\ claim.total \in Int
      BY <1>1, <1>3
    <3> QED
      BY ONLY <1>4, <2>3, <2>4, <2>6, <2>7, <3>1, <3>2
  <2> QED
    BY <2>5, <2>8 DEF LockedIsHeldOrPaid
<1>6. lockedRecords' \in [Accounts -> Seq(LockedRecord)]
  BY <1>1, <1>2, <1>3
<1>7. ASSUME NEW q \in PlanIDs
      PROVE  Worths(lockedRecords', q) <= plans[q].allocatedAmount
  <2>1. /\ Worths(lockedRecords', q) = Worths(lockedRecords, q) + Worth(claim.records, ActivesOf(q))
                                         - Worth(records, ActivesOf(q))
        /\ Worth(claim.records, ActivesOf(q)) \in Nat
        /\ Worth(records, ActivesOf(q)) \in Nat /\ Worths(lockedRecords, q) \in Nat
    <3>1. /\ lockedRecords'[a] = claim.records
          /\ \A b \in Accounts \ {a} : lockedRecords'[b] = lockedRecords[b]
      BY <1>1, <1>2
    <3>2. /\ Worths(lockedRecords', q) = Worths(lockedRecords, q)
                                           + Worth(lockedRecords'[a], ActivesOf(q))
                                           - Worth(lockedRecords[a], ActivesOf(q))
          /\ Worth(lockedRecords'[a], ActivesOf(q)) \in Nat
          /\ Worth(lockedRecords[a], ActivesOf(q)) \in Nat /\ Worths(lockedRecords, q) \in Nat
      <4>1. \A b \in Accounts \ {a} : lockedRecords'[b] = lockedRecords[b]
        BY <3>1
      <4>2. lockedRecords \in [Accounts -> Seq(LockedRecord)]
        BY <1>1
      <4> QED
        BY ONLY <1>6, <4>1, <4>2, a \in Accounts, q \in PlanIDs, WorthsChange
    <3> QED
      BY <3>1, <3>2
  <2>2. Worths(lockedRecords, q) <= plans[q].allocatedAmount /\ plans[q].allocatedAmount \in Nat
    BY DEF LockerInv, LockerTypes, Plan, Covered
  <2>3. Worth(claim.records, ActivesOf(q)) <= Worth(records, ActivesOf(q))
    BY <1>3
  <2> QED
    BY <2>1, <2>2, <2>3
<1>8. Covered(lockedRecords', plans')
  BY <1>2, <1>7 DEF LockerInv, Covered
<1> QED
  BY <1>1, <1>2, <1>4, <1>5, <1>6, <1>8 DEF LockerInv, LockerTypes

\* Funds come and go together with the total, which is never less.
LEMMA MoneyKeepsLocker ==
  ASSUME LockerInv, NEW amount \in Amounts,
         AddLockedToken(amount) \/ WithdrawLockedToken(amount)
  PROVE  LockerInv'
<1>1. amount \in Nat /\ funds \in Nat /\ totalLockedAmount \in Nat
  BY LockerAssumption DEF LockerInv, LockerTypes
<1>2. SumFunction(received) \in Nat
  <2>1. IsFiniteSet(Accounts) /\ received \in [Accounts -> Nat]
    BY LockerAssumption DEF LockerInv, LockerTypes
  <2>2. \A b \in Accounts : received[b] \in Nat
    BY <2>1
  <2>3. SumFunctionOnSet(received, Accounts) \in Nat
    BY <2>1, <2>2, SumIsNat
  <2> QED
    BY <2>1, <2>3 DEF SumFunction
<1>3. totalLockedAmount = funds + SumFunction(received)
  BY DEF LockerInv, LockedIsHeldOrPaid
<1>4. UNCHANGED <<lockedRecords, plans, received>>
  BY DEF AddLockedToken, WithdrawLockedToken, recordVars
<1>5. /\ funds' \in Nat /\ totalLockedAmount' \in Nat
      /\ totalLockedAmount' = funds' + SumFunction(received)
  <2>1. CASE AddLockedToken(amount)
    BY <1>1, <1>2, <1>3, <2>1 DEF AddLockedToken
  <2>2. CASE WithdrawLockedToken(amount)
    BY <1>1, <1>2, <1>3, <2>2 DEF WithdrawLockedToken
  <2> QED
    BY <2>1, <2>2
<1> QED
  BY <1>4, <1>5 DEF LockerInv, LockerTypes, LockedIsHeldOrPaid

LEMMA LockerStep ==
  ASSUME LockerInv, [LockerNext]_lockerVars
  PROVE  LockerInv'
<1>1. CASE UNCHANGED <<lockedRecords, plans, received, totalLockedAmount, funds>>
  BY <1>1 DEF LockerInv, LockerTypes, LockedIsHeldOrPaid
<1>2. CASE UNCHANGED lockerVars
  BY <1>1, <1>2 DEF lockerVars
<1>3. CASE Tick /\ UNCHANGED <<managers, totalLockedAmount, totalAvailableAmount, recordVars,
                               funds, received>>
  BY <1>1, <1>3 DEF recordVars
<1>4. ASSUME NEW a \in Accounts, SetManagerAccount(a) \/ DelManagerAccount(a)
      PROVE  LockerInv'
  BY <1>1, <1>4 DEF SetManagerAccount, DelManagerAccount, recordVars
<1>5. \A a \in Beneficiaries : a \in Accounts
  BY LockerAssumption
<1>6. QED
  BY <1>2, <1>3, <1>4, <1>5, MoneyKeepsLocker, SetPlanKeepsLocker, DelPlanKeepsLocker,
     SetLockedRecordKeepsLocker, DeleteLockedRecordKeepsLocker, ClaimKeepsLocker DEF LockerNext

\* Nothing is recorded and nothing held at first.
LEMMA LockerStarts == LockerInit => LockerInv
<1> SUFFICES ASSUME LockerInit PROVE LockerInv
  OBVIOUS
<1>1. <<>> \in Seq(LockedRecord) /\ NoPlan \in Plan
  BY DEF NoPlan, Plan, ClaimMethods
<1>2. LockerTypes
  BY <1>1 DEF LockerInit, LockerTypes
<1>3. IsFiniteSet(Accounts)
  BY LockerAssumption
<1>4. LockedIsHeldOrPaid
  <2>1. \A a \in Accounts : received[a] = 0
    BY DEF LockerInit
  <2>2. SumFunctionOnSet(received, Accounts) = 0
    BY <1>3, <2>1, SumOfZeros
  <2>3. SumFunction(received) = 0
    BY <2>2 DEF LockerInit, SumFunction
  <2> QED
    BY <2>3 DEF LockerInit, LockedIsHeldOrPaid
<1>5. ASSUME NEW p \in PlanIDs PROVE Worths(lockedRecords, p) = 0
  <2> DEFINE f == [a \in Accounts |-> Worth(lockedRecords[a], ActivesOf(p))]
  <2>1. \A a \in Accounts : f[a] = 0
    <3>1. \A a \in Accounts : lockedRecords[a] = <<>>
      BY DEF LockerInit
    <3>2. DOMAIN <<>> = {}
      OBVIOUS
    <3>3. Worth(<<>>, ActivesOf(p)) = 0
      BY <3>2, SumOfNone DEF Worth
    <3> QED
      BY <3>1, <3>3
  <2>2. Worths(lockedRecords, p) = SumFunctionOnSet(f, Accounts)
    BY DEF Worths
  <2> HIDE DEF f
  <2> QED
    BY <1>3, <2>1, <2>2, SumOfZeros
<1>6. Covered(lockedRecords, plans)
  BY <1>5 DEF Covered, LockerInit, NoPlan
<1> QED
  BY <1>2, <1>4, <1>6 DEF LockerInv

LEMMA LockerAlways == LockerSpec => []LockerInv
  BY LockerStarts, LockerStep, PTL DEF LockerSpec

\* What a plan has allocated covers its records that can still be claimed, and
\* stays within the plan: for any accounts, plans and amounts, however claims and
\* deletions have moved the records, and though the positions kept for them may
\* be those of others (setLockedRecord, deleteLockedRecord, delPlan, claimToken).
THEOREM AllocationAlwaysCovers == LockerSpec => []AllocationCoversRecords
<1>1. LockerInv => AllocationCoversRecords
  BY CoverMeans DEF LockerInv
<1> QED
  BY <1>1, LockerAlways, PTL

\* The total of locked funds is what the contract holds and what it has paid on
\* claims, so that a withdrawal never cuts it off (addLockedToken,
\* withdrawLockedToken, claimToken).
THEOREM LockedIsAlwaysHeldOrPaid == LockerSpec => []LockedIsHeldOrPaid
<1>1. LockerInv => LockedIsHeldOrPaid
  BY DEF LockerInv
<1> QED
  BY <1>1, LockerAlways, PTL

ClockTypes == now \in Nat

LEMMA ClockIsNat == LockerSpec => []ClockTypes
<1>1. LockerInit => ClockTypes
  BY DEF LockerInit, BlockTimeInit, ClockTypes
<1>2. ClockTypes /\ [LockerNext]_lockerVars => ClockTypes'
  <2> SUFFICES ASSUME now \in Nat, [LockerNext]_lockerVars PROVE now' \in Nat
    BY DEF ClockTypes
  <2>1. CASE UNCHANGED lockerVars
    BY <2>1 DEF lockerVars
  <2>2. CASE Tick
    BY <2>2 DEF Tick
  <2>3. CASE UNCHANGED now
    BY <2>3
  <2>4. ASSUME NEW p \in PlanIDs, NEW a, NEW b, NEW c, NEW d,
               \/ SetPlan(p, a, b) \/ DelPlan(p) \/ DeleteLockedRecord(a, p, b)
               \/ SetLockedRecord(a, p, b, c, d)
        PROVE  UNCHANGED now
    BY <2>4 DEF SetPlan, DelPlan, DeleteLockedRecord, SetLockedRecord
  <2>5. ASSUME NEW a, NEW b, \/ SetManagerAccount(a) \/ DelManagerAccount(a)
                             \/ AddLockedToken(a) \/ WithdrawLockedToken(a) \/ ClaimToken(a, b)
        PROVE  UNCHANGED now
    BY <2>5 DEF SetManagerAccount, DelManagerAccount, AddLockedToken, WithdrawLockedToken, ClaimToken
  <2> QED
    BY <2>1, <2>2, <2>3, <2>4, <2>5 DEF LockerNext
<1> QED
  BY <1>1, <1>2, PTL DEF LockerSpec

\* A step that pays an account is a claim for it, which pays the active records
\* it removes, and removes none that is not due.
LEMMA ClaimsPay ==
  ASSUME LockerInv, now \in Nat, [LockerNext]_lockerVars,
         NEW a \in Accounts, received'[a] # received[a]
  PROVE  /\ received'[a] - received[a] = AmountAt(lockedRecords[a], ActiveAt(a))
                                         - AmountAt(lockedRecords[a], ActiveAt(a))'
         /\ AmountAt(lockedRecords[a], NotDueAt(a))' = AmountAt(lockedRecords[a], NotDueAt(a))
<1>1. PICK sender \in Accounts : ClaimToken(sender, a)
  <2>1. PICK sender \in Accounts, b \in Accounts : ClaimToken(sender, b)
    <3>1. ASSUME UNCHANGED received PROVE FALSE
      BY <3>1
    <3>2. ASSUME NEW p \in PlanIDs, NEW amount, NEW m, SetPlan(p, amount, m) PROVE FALSE
      BY <3>1, <3>2 DEF SetPlan
    <3>3. ASSUME NEW p \in PlanIDs, DelPlan(p) PROVE FALSE
      BY <3>1, <3>3 DEF DelPlan
    <3>4. ASSUME NEW lockedID, NEW p \in PlanIDs, NEW b, DeleteLockedRecord(lockedID, p, b)
          PROVE  FALSE
      BY <3>1, <3>4 DEF DeleteLockedRecord
    <3>5. ASSUME NEW lockedID, NEW p \in PlanIDs, NEW b, NEW amount, NEW time,
                 SetLockedRecord(lockedID, p, b, amount, time)
          PROVE  FALSE
      BY <3>1, <3>5 DEF SetLockedRecord
    <3>6. ASSUME NEW b, SetManagerAccount(b) \/ DelManagerAccount(b)
                        \/ AddLockedToken(b) \/ WithdrawLockedToken(b)
          PROVE  FALSE
      BY <3>1, <3>6 DEF SetManagerAccount, DelManagerAccount, AddLockedToken, WithdrawLockedToken
    <3>7. ~UNCHANGED lockerVars
      BY <3>1 DEF lockerVars
    <3> QED
      BY <3>1, <3>2, <3>3, <3>4, <3>5, <3>6, <3>7 DEF LockerNext
  <2>2. b = a
    BY <2>1 DEF ClaimToken, LockerInv, LockerTypes
  <2> QED
    BY <2>1, <2>2
<1> DEFINE method == IF sender \in managers THEN 0 ELSE 1
           records == lockedRecords[a]
           claim == Claim(records, method)
           Later == {r \in LockedRecord : r.isActive /\ r.time > now}
<1>2. /\ records \in Seq(LockedRecord)
      /\ lockedRecords \in [Accounts -> Seq(LockedRecord)]
      /\ received \in [Accounts -> Nat]
  BY DEF LockerInv, LockerTypes
<1>3. /\ lockedRecords'[a] = claim.records /\ received'[a] = received[a] + claim.total
      /\ now' = now
  BY <1>1, <1>2 DEF ClaimToken
<1>4. \A R : WalkKeeps(claim, records, method, R, Len(records))
  <2> HIDE DEF method
  <2> QED
    BY <1>2, ClaimKeeps
<1>5. Later \cap Dues(method) = {}
  BY DEF Dues, Due, LockedRecord
<1> HIDE DEF method, claim
<1>6. /\ claim.records \in Seq(LockedRecord) /\ claim.total \in Nat
      /\ Worth(claim.records, Later) = Worth(records, Later)
      /\ Worth(records, Actives) = Worth(claim.records, Actives) + claim.total
  BY <1>4, <1>5 DEF WalkKeeps
<1>7. \A j \in DOMAIN records : records[j] \in LockedRecord
  BY <1>2
<1>8. \A j \in DOMAIN lockedRecords'[a] : lockedRecords'[a][j] \in LockedRecord
  BY <1>3, <1>6
<1>9. /\ ActiveAt(a) = {j \in DOMAIN records : records[j] \in Actives}
      /\ NotDueAt(a) = {j \in DOMAIN records : records[j] \in Later}
  BY <1>7 DEF ActiveAt, NotDueAt, Actives
<1>10. /\ ActiveAt(a)' = {j \in DOMAIN lockedRecords'[a] : lockedRecords'[a][j] \in Actives}
       /\ NotDueAt(a)' = {j \in DOMAIN lockedRecords'[a] : lockedRecords'[a][j] \in Later}
  BY <1>3, <1>8 DEF ActiveAt, NotDueAt, Actives
<1> HIDE DEF Later
<1>11. /\ AmountAt(records, ActiveAt(a)) = Worth(records, Actives)
       /\ AmountAt(records, NotDueAt(a)) = Worth(records, Later)
  BY <1>2, <1>9, AmountIsWorth
<1>12. /\ AmountAt(lockedRecords[a], ActiveAt(a))' = Worth(claim.records, Actives)
       /\ AmountAt(lockedRecords[a], NotDueAt(a))' = Worth(claim.records, Later)
  BY <1>3, <1>6, <1>10, AmountIsWorth
<1>13. /\ Worth(records, Actives) \in Nat /\ Worth(claim.records, Actives) \in Nat
       /\ received[a] \in Nat
  BY <1>2, <1>6, WorthIsNat
<1> QED
  BY <1>3, <1>6, <1>11, <1>12, <1>13

\* claimToken's loop, which deletes while it walks, pays every record it removes
\* once and leaves those that are not due, for arrays of any length and any
\* number of records per claim.
THEOREM ClaimsAlwaysPayWhatTheyRemove == LockerSpec => ClaimPaysWhatItRemoves
<1> DEFINE Pays ==
      \A a \in Accounts : received'[a] # received[a] =>
        /\ received'[a] - received[a] = AmountAt(lockedRecords[a], ActiveAt(a))
                                        - AmountAt(lockedRecords[a], ActiveAt(a))'
        /\ AmountAt(lockedRecords[a], NotDueAt(a))' = AmountAt(lockedRecords[a], NotDueAt(a))
<1>1. LockerInv /\ ClockTypes /\ [LockerNext]_lockerVars => [Pays]_lockerVars
  BY ClaimsPay DEF ClockTypes
<1> QED
  BY <1>1, LockerAlways, ClockIsNat, PTL DEF LockerSpec, ClaimPaysWhatItRemoves
=============================================================================
