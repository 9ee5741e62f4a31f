----------------------------- MODULE TCashProofs -----------------------------
(***************************************************************************)
(* Proofs about TCash lending, for any accounts, borrowers, bidders,       *)
(* prices, rates, amounts and lots: the auctions (TCashAuction) and their  *)
(* refinement of Sale, the loan book (TCashLoan) with and without the      *)
(* foundation manager's overrides, and the two calling each other          *)
(* (TCashLending).                                                         *)
(***************************************************************************)
EXTENDS TCashLending, TCashAuctionSale, Sums, SequenceTheorems, TLAPS

-----------------------------------------------------------------------------
(***************************************************************************)
(* PART 1: THE AUCTIONS                                                    *)
(***************************************************************************)

-----------------------------------------------------------------------------
(***************************************************************************)
(* Type correctness.  One lemma for the token's operators, which other     *)
(* contracts call too.                                                     *)
(***************************************************************************)

\* What the token's operations do to balances and locks keeps them natural: the
\* checked subtractions of TCash.sol.
LEMMA TokenTyping ==
  ASSUME TCashTypeOK, NEW u \in Accounts, NEW v \in Accounts, NEW amount \in Nat,
         BidCost(u, amount) \/ BidBack(u, amount) \/ Transfer(u, v, amount)
           \/ Mint(u, amount) \/ Burn(u, amount) \/ BurnFrom(u, amount)
  PROVE  TCashTypeOK'
<1> USE DEF TCashTypeOK
<1>1. CASE BidCost(u, amount)
  BY <1>1 DEF BidCost
<1>2. CASE BidBack(u, amount)
  BY <1>2 DEF BidBack
<1>3. CASE Transfer(u, v, amount)
  BY <1>3 DEF Transfer, Transferable
<1>4. CASE Mint(u, amount)
  BY <1>4 DEF Mint
<1>5. CASE Burn(u, amount) \/ BurnFrom(u, amount)
  BY <1>5 DEF Burn, BurnFrom
<1>6. QED
  BY <1>1, <1>2, <1>3, <1>4, <1>5

LEMMA TokenStepTyping ==
  ASSUME TypeOK, TokenStep
  PROVE  TCashTypeOK' /\ UNCHANGED auctionVars
<1>1. PICK u \in Accounts, amount \in TokenAmounts :
        \/ \E v \in Accounts : balance[v] + amount <= MaxBalance /\ Transfer(u, v, amount)
        \/ Burn(u, amount)
        \/ BurnFrom(u, amount)
        \/ balance[u] + amount <= MaxBalance /\ Mint(u, amount)
  BY DEF TokenStep
<1>2. amount \in Nat
  BY AuctionAssumption
<1>3. TCashTypeOK'
  BY <1>1, <1>2, TokenTyping DEF TypeOK
<1>4. QED
  BY <1>3 DEF TokenStep

\* The auctions after one of them is changed.
LEMMA AuctionExcept ==
  ASSUME AuctionTypeOK, NEW n \in Listed, NEW a \in Auction,
         auctionList' = [auctionList EXCEPT ![n] = a]
  PROVE  /\ auctionList' \in Seq(Auction)
         /\ Len(auctionList') = Len(auctionList)
         /\ \A i \in Listed : auctionList'[i] = IF i = n THEN a ELSE auctionList[i]
BY ExceptSeq DEF AuctionTypeOK, Listed

LEMMA ListedTyping ==
  ASSUME AuctionTypeOK
  PROVE  /\ Listed \subseteq AuctionIds
         /\ \A n \in Listed : auctionList[n] \in Auction
<1>1. Len(auctionList) \in Nat /\ Len(auctionList) <= MaxAuctions
  BY DEF AuctionTypeOK
<1>2. Listed \subseteq AuctionIds
  BY <1>1, AuctionAssumption DEF Listed, AuctionIds
<1>3. \A n \in Listed : auctionList[n] \in Auction
  BY ElementOfSeq DEF AuctionTypeOK, Listed
<1>4. QED
  BY <1>2, <1>3

\* What auctionStart is called with.
LotRecord == [mortgage : Nat, debt : Nat, interest : Nat]

LEMMA LotsAreRecords == Lots \subseteq LotRecord
BY LotsAssumption DEF LotRecord

LEMMA StartTyping ==
  ASSUME TypeOK, NEW lot \in LotRecord, AuctionStart(lot.mortgage, lot.debt, lot.interest)
  PROVE  /\ AuctionTypeOK'
         /\ Len(auctionList') = Len(auctionList) + 1
         /\ \A n \in Listed : auctionList'[n] = auctionList[n]
         /\ auctionList'[Len(auctionList) + 1] =
              [sales |-> lot.mortgage, startValue |-> lot.debt, nowValue |-> lot.debt,
               timeOver |-> now + bidDuration, state |-> 1, debt |-> lot.interest]
<1> DEFINE a == [sales |-> lot.mortgage, startValue |-> lot.debt, nowValue |-> lot.debt,
                 timeOver |-> now + bidDuration, state |-> 1, debt |-> lot.interest]
<1>1. a \in Auction
  <2>1. lot.mortgage \in Nat /\ lot.debt \in Nat /\ lot.interest \in Nat
    BY DEF LotRecord
  <2>2. now + bidDuration \in Nat
    BY AuctionAssumption DEF TypeOK, AuctionTypeOK
  <2>3. QED
    BY <2>1, <2>2 DEF Auction
<1>2. auctionList' = Append(auctionList, a) /\ UNCHANGED <<bider, bidValue, bidDuration>>
  BY DEF AuctionStart
<1>3. /\ auctionList' \in Seq(Auction)
      /\ Len(auctionList') = Len(auctionList) + 1
      /\ \A n \in Listed : auctionList'[n] = auctionList[n]
      /\ auctionList'[Len(auctionList) + 1] = a
  BY <1>1, <1>2, AppendProperties DEF TypeOK, AuctionTypeOK, Listed
<1>4. Len(auctionList) < MaxAuctions /\ Len(auctionList) \in Nat
  BY DEF AuctionStart, TypeOK, AuctionTypeOK
<1>5. AuctionTypeOK'
  BY <1>2, <1>3, <1>4, AuctionAssumption DEF TypeOK, AuctionTypeOK
<1>6. QED
  BY <1>3, <1>5

LEMMA UpgradeTyping ==
  ASSUME TypeOK, UpgradeState
  PROVE  AuctionTypeOK' /\ Len(auctionList') = Len(auctionList)
<1>1. /\ Len(auctionList) \in Nat
      /\ Len(auctionList) <= MaxAuctions
      /\ now + bidDuration \in Nat
  BY AuctionAssumption DEF TypeOK, AuctionTypeOK
<1>2. \A n \in Listed : auctionList[n] \in Auction
  BY ListedTyping DEF TypeOK
<1>3. auctionList' \in [1..Len(auctionList) -> Auction]
  BY <1>1, <1>2 DEF UpgradeState, Auction, Listed
<1>4. auctionList' \in Seq(Auction) /\ Len(auctionList') = Len(auctionList)
  BY <1>1, <1>3, IsASeq, LenProperties
<1>5. QED
  BY <1>1, <1>4 DEF UpgradeState, TypeOK, AuctionTypeOK

LEMMA BidTyping ==
  ASSUME TypeOK, NEW n \in Listed, NEW u \in Bidders, NEW amount \in Amounts,
         Bid(n, u, amount)
  PROVE  /\ TCashTypeOK' /\ AuctionTypeOK'
         /\ Len(auctionList') = Len(auctionList)
         /\ \A i \in Listed : auctionList'[i] =
              IF i = n THEN [auctionList[n] EXCEPT !.nowValue = bidValue[n][u] + amount]
                       ELSE auctionList[i]
<1>1. n \in AuctionIds /\ auctionList[n] \in Auction /\ amount \in Nat /\ u \in Accounts
  BY ListedTyping, AuctionAssumption DEF TypeOK
<1>2. bidValue[n][u] + amount \in Nat
  BY <1>1 DEF TypeOK, AuctionTypeOK
<1>3. TCashTypeOK'
  BY <1>1, TokenTyping DEF TypeOK, Bid
<1> DEFINE a == [auctionList[n] EXCEPT !.nowValue = bidValue[n][u] + amount]
<1>4. a \in Auction
  BY <1>1, <1>2 DEF Auction
<1>5. auctionList' = [auctionList EXCEPT ![n] = a]
  BY DEF Bid
<1>6. /\ auctionList' \in Seq(Auction)
      /\ Len(auctionList') = Len(auctionList)
      /\ \A i \in Listed : auctionList'[i] = IF i = n THEN a ELSE auctionList[i]
  BY <1>4, <1>5, AuctionExcept DEF TypeOK
<1>7. bider' \in [AuctionIds -> Bidders \cup {NoOne}]
  BY <1>1 DEF Bid, TypeOK, AuctionTypeOK
<1>8. bidValue' \in [AuctionIds -> [Bidders -> Nat]]
  BY <1>1, <1>2 DEF Bid, TypeOK, AuctionTypeOK
<1>9. QED
  BY <1>3, <1>6, <1>7, <1>8 DEF Bid, TypeOK, AuctionTypeOK

LEMMA WithdrawalTyping ==
  ASSUME TypeOK, NEW n \in Listed, NEW u \in Bidders, BidWithdrawal(n, u)
  PROVE  TCashTypeOK' /\ AuctionTypeOK'
<1>1. n \in AuctionIds /\ u \in Accounts
  BY ListedTyping, AuctionAssumption DEF TypeOK
<1>2. bidValue[n][u] \in Nat
  BY <1>1 DEF TypeOK, AuctionTypeOK
<1>3. TCashTypeOK'
  BY <1>1, <1>2, TokenTyping DEF TypeOK, BidWithdrawal
<1>4. AuctionTypeOK'
  BY <1>1 DEF BidWithdrawal, TypeOK, AuctionTypeOK
<1>5. QED
  BY <1>3, <1>4

LEMMA GetAuctionTyping ==
  ASSUME TypeOK, NEW n \in Listed, NEW u \in Bidders, GetAuction(n, u)
  PROVE  /\ TCashTypeOK' /\ AuctionTypeOK'
         /\ Len(auctionList') = Len(auctionList)
         /\ \A i \in Listed : auctionList'[i] =
              IF i = n THEN [auctionList[n] EXCEPT !.state = 2] ELSE auctionList[i]
<1>1. n \in AuctionIds /\ auctionList[n] \in Auction
  BY ListedTyping DEF TypeOK
<1>2. auctionList[n].startValue \in Nat
  BY <1>1 DEF Auction
<1>3. TCashTypeOK'
  BY <1>2, TokenTyping, AuctionAssumption DEF TypeOK, GetAuction
<1> DEFINE a == [auctionList[n] EXCEPT !.state = 2]
<1>4. a \in Auction
  BY <1>1 DEF Auction
<1>5. auctionList' = [auctionList EXCEPT ![n] = a]
  BY DEF GetAuction
<1>6. /\ auctionList' \in Seq(Auction)
      /\ Len(auctionList') = Len(auctionList)
      /\ \A i \in Listed : auctionList'[i] = IF i = n THEN a ELSE auctionList[i]
  BY <1>4, <1>5, AuctionExcept DEF TypeOK
<1>7. QED
  BY <1>3, <1>6 DEF GetAuction, TypeOK, AuctionTypeOK

-----------------------------------------------------------------------------
(***************************************************************************)
(* The inductive invariant.                                                *)
(***************************************************************************)

Inv == TypeOK /\ LeaderHoldsPrice /\ SoldIsOver

LEMMA InvInit == AuctionSpecInit => Inv
<1> SUFFICES ASSUME AuctionSpecInit PROVE Inv
  OBVIOUS
<1> USE DEF AuctionSpecInit, AuctionInit, BlockTimeInit
<1>1. auctionList = <<>> /\ Listed = {}
  BY DEF Listed
<1>2. TypeOK
  BY <1>1, AuctionAssumption DEF TypeOK, TCashTypeOK, AuctionTypeOK
<1>3. LeaderHoldsPrice /\ SoldIsOver
  BY <1>1 DEF LeaderHoldsPrice, SoldIsOver
<1>4. QED
  BY <1>2, <1>3 DEF Inv

LEMMA StartInv ==
  ASSUME Inv, UNCHANGED <<tcashVars, now>>,
         NEW lot \in LotRecord, AuctionStart(lot.mortgage, lot.debt, lot.interest)
  PROVE  Inv'
<1> DEFINE k == Len(auctionList) + 1
<1>1. TypeOK'
  BY StartTyping DEF Inv, TypeOK, TCashTypeOK, tcashVars
<1>2. Listed' = Listed \cup {k} /\ k \notin Listed /\ k \in AuctionIds
  <2>1. Len(auctionList) \in Nat
    BY DEF Inv, TypeOK, AuctionTypeOK
  <2>2. QED
    BY <2>1, StartTyping, AuctionAssumption DEF Inv, Listed, AuctionStart, AuctionIds
<1>3. \A n \in Listed : auctionList'[n] = auctionList[n]
  BY StartTyping DEF Inv
<1>4. /\ auctionList'[k].nowValue = auctionList'[k].startValue
      /\ auctionList'[k].state = 1
  <2>1. auctionList'[k] =
          [sales |-> lot.mortgage, startValue |-> lot.debt, nowValue |-> lot.debt,
           timeOver |-> now + bidDuration, state |-> 1, debt |-> lot.interest]
    BY StartTyping DEF Inv
  <2>2. QED
    BY <2>1
<1>5. UNCHANGED <<bider, bidValue>>
  BY DEF AuctionStart
<1>6. LeaderHoldsPrice'
  BY <1>2, <1>3, <1>4, <1>5 DEF Inv, LeaderHoldsPrice
<1>7. SoldIsOver'
  BY <1>2, <1>3, <1>4, <1>5 DEF Inv, SoldIsOver
<1>8. QED
  BY <1>1, <1>6, <1>7 DEF Inv

LEMMA UpgradeInv ==
  ASSUME Inv, UpgradeState, UNCHANGED <<tcashVars, now>>
  PROVE  Inv'
<1>1. TypeOK' /\ Len(auctionList') = Len(auctionList)
  BY UpgradeTyping DEF Inv, TypeOK, TCashTypeOK, tcashVars
<1>2. Listed' = Listed
  BY <1>1 DEF Listed
<1>3. \A n \in Listed :
        /\ auctionList'[n].nowValue = auctionList[n].nowValue
        /\ auctionList'[n].startValue = auctionList[n].startValue
        /\ auctionList'[n].state = auctionList[n].state
        /\ bider[n] # NoOne => auctionList'[n].timeOver = auctionList[n].timeOver
  <2> SUFFICES ASSUME NEW n \in Listed
               PROVE /\ auctionList'[n].nowValue = auctionList[n].nowValue
                     /\ auctionList'[n].startValue = auctionList[n].startValue
                     /\ auctionList'[n].state = auctionList[n].state
                     /\ bider[n] # NoOne => auctionList'[n].timeOver = auctionList[n].timeOver
    OBVIOUS
  <2>1. auctionList[n] \in Auction
    BY ListedTyping DEF Inv, TypeOK
  <2>2. auctionList'[n] = IF auctionList[n].timeOver < now /\ bider[n] = NoOne
                          THEN [auctionList[n] EXCEPT !.timeOver = now + bidDuration]
                          ELSE auctionList[n]
    BY DEF UpgradeState
  <2>3. QED
    BY <2>1, <2>2 DEF Auction
<1>4. UNCHANGED <<bider, bidValue>>
  BY DEF UpgradeState
<1>5. LeaderHoldsPrice'
  BY <1>2, <1>3, <1>4 DEF Inv, LeaderHoldsPrice
<1>6. SoldIsOver'
  BY <1>2, <1>3, <1>4 DEF Inv, SoldIsOver
<1>7. QED
  BY <1>1, <1>5, <1>6 DEF Inv

LEMMA BidInv ==
  ASSUME Inv, NEW n \in Listed, NEW u \in Bidders, NEW amount \in Amounts,
         Bid(n, u, amount), UNCHANGED now
  PROVE  Inv'
<1> DEFINE p == bidValue[n][u] + amount
<1>1. TypeOK' /\ Len(auctionList') = Len(auctionList)
  BY BidTyping DEF Inv, TypeOK
<1>2. Listed' = Listed /\ Listed \subseteq AuctionIds
  BY <1>1, ListedTyping DEF Listed, Inv, TypeOK
<1>3. \A i \in Listed \ {n} : auctionList'[i] = auctionList[i]
  BY BidTyping DEF Inv
<1>4. /\ auctionList'[n].nowValue = p
      /\ auctionList'[n].startValue = auctionList[n].startValue
      /\ auctionList'[n].state = auctionList[n].state
      /\ auctionList'[n].timeOver = auctionList[n].timeOver
  <2>1. auctionList'[n] = [auctionList[n] EXCEPT !.nowValue = p] /\ auctionList[n] \in Auction
    BY BidTyping, ListedTyping DEF Inv, TypeOK
  <2>2. QED
    BY <2>1 DEF Auction
<1>5. /\ \A i \in AuctionIds \ {n} : bider'[i] = bider[i] /\ bidValue'[i] = bidValue[i]
      /\ bider'[n] = u /\ u # NoOne
      /\ bidValue'[n][u] = p
      /\ \A v \in Bidders \ {u} : bidValue'[n][v] = bidValue[n][v]
  BY <1>2, AuctionAssumption DEF Bid, Inv, TypeOK, AuctionTypeOK
<1>6. /\ auctionList[n] \in Auction /\ p \in Nat
      /\ \A v \in Bidders : bidValue[n][v] \in Nat
      /\ auctionList[n].nowValue < p
      /\ auctionList[n].timeOver > now
  BY <1>2, ListedTyping, AuctionAssumption DEF Bid, Inv, TypeOK, AuctionTypeOK
<1>7. LeaderHoldsPrice'
  <2>1. auctionList[n].nowValue \in Nat /\ auctionList[n].startValue \in Nat
    BY <1>6 DEF Auction
  <2>2. \A v \in Bidders : bidValue[n][v] <= auctionList[n].nowValue
    <3> SUFFICES ASSUME NEW v \in Bidders PROVE bidValue[n][v] <= auctionList[n].nowValue
      OBVIOUS
    <3>1. bidValue[n][v] \in Nat
      BY <1>6
    <3>2. CASE bider[n] = NoOne
      BY <1>2, <2>1, <3>1, <3>2 DEF Inv, LeaderHoldsPrice
    <3>3. CASE bider[n] # NoOne
      BY <1>2, <2>1, <3>1, <3>3 DEF Inv, LeaderHoldsPrice
    <3>4. QED
      BY <3>2, <3>3
  <2>3. auctionList[n].startValue <= auctionList[n].nowValue
    BY <1>2, <2>1 DEF Inv, LeaderHoldsPrice
  <2>4. \A v \in Bidders \ {u} : bidValue'[n][v] < p
    BY <1>5, <1>6, <2>1, <2>2
  <2>5. QED
    BY <1>2, <1>3, <1>4, <1>5, <1>6, <2>1, <2>3, <2>4 DEF Inv, LeaderHoldsPrice
<1>8. SoldIsOver'
  <2>1. auctionList[n].timeOver \in Nat /\ now \in Nat
    BY <1>6 DEF Auction, Inv, TypeOK
  <2>2. auctionList[n].state # 2
    BY <1>6, <2>1 DEF Inv, SoldIsOver
  <2>3. QED
    BY <1>2, <1>3, <1>4, <1>5, <2>2 DEF Inv, SoldIsOver
<1>9. QED
  BY <1>1, <1>7, <1>8 DEF Inv

LEMMA WithdrawalInv ==
  ASSUME Inv, NEW n \in Listed, NEW u \in Bidders, BidWithdrawal(n, u), UNCHANGED now
  PROVE  Inv'
<1>1. TypeOK'
  BY WithdrawalTyping DEF Inv, TypeOK
<1>2. UNCHANGED <<auctionList, bider>> /\ Listed' = Listed
  BY DEF BidWithdrawal, Listed
<1>3. /\ \A i \in AuctionIds \ {n} : bidValue'[i] = bidValue[i]
      /\ bidValue'[n][u] = 0
      /\ \A v \in Bidders \ {u} : bidValue'[n][v] = bidValue[n][v]
      /\ n \in AuctionIds /\ bider[n] # u
      /\ bidValue[n][u] > 0
  BY ListedTyping DEF BidWithdrawal, Inv, TypeOK, AuctionTypeOK
<1>4. bider[n] # NoOne
  BY <1>3 DEF Inv, LeaderHoldsPrice
<1>5. bider[n] \in Bidders
  BY <1>3, <1>4 DEF Inv, TypeOK, AuctionTypeOK
<1>6. LeaderHoldsPrice'
  <2> SUFFICES ASSUME NEW i \in AuctionIds
               PROVE  IF i \in Listed /\ bider[i] # NoOne
                      THEN /\ auctionList[i].nowValue = bidValue'[i][bider[i]]
                           /\ auctionList[i].nowValue > auctionList[i].startValue
                           /\ \A v \in Bidders \ {bider[i]} :
                                bidValue'[i][v] < auctionList[i].nowValue
                      ELSE /\ bider[i] = NoOne
                           /\ \A v \in Bidders : bidValue'[i][v] = 0
                           /\ i \in Listed => auctionList[i].nowValue = auctionList[i].startValue
    BY <1>2 DEF LeaderHoldsPrice
  <2>1. CASE i # n
    BY <1>3, <2>1 DEF Inv, LeaderHoldsPrice
  <2>2. CASE i = n
    <3>1. /\ auctionList[n].nowValue = bidValue[n][bider[n]]
          /\ auctionList[n].nowValue > auctionList[n].startValue
          /\ \A v \in Bidders \ {bider[n]} : bidValue[n][v] < auctionList[n].nowValue
      BY <1>3, <1>4 DEF Inv, LeaderHoldsPrice
    <3>2. bidValue'[n][bider[n]] = bidValue[n][bider[n]]
      BY <1>3, <1>5
    <3>3. 0 < auctionList[n].nowValue
      <4>1. auctionList[n].nowValue \in Nat /\ auctionList[n].startValue \in Nat
        BY ListedTyping DEF Inv, TypeOK, Auction
      <4>2. QED
        BY <3>1, <4>1
    <3>4. QED
      BY <1>3, <1>4, <2>2, <3>1, <3>2, <3>3
  <2>3. QED
    BY <2>1, <2>2
<1>7. SoldIsOver'
  BY <1>2 DEF Inv, SoldIsOver
<1>8. QED
  BY <1>1, <1>6, <1>7 DEF Inv

LEMMA GetAuctionInv ==
  ASSUME Inv, NEW n \in Listed, NEW u \in Bidders, GetAuction(n, u), UNCHANGED now
  PROVE  Inv'
<1>1. TypeOK' /\ Len(auctionList') = Len(auctionList)
  BY GetAuctionTyping DEF Inv, TypeOK
<1>2. Listed' = Listed
  BY <1>1 DEF Listed
<1>3. \A i \in Listed :
        /\ auctionList'[i].nowValue = auctionList[i].nowValue
        /\ auctionList'[i].startValue = auctionList[i].startValue
        /\ auctionList'[i].timeOver = auctionList[i].timeOver
        /\ i # n => auctionList'[i].state = auctionList[i].state
  <2>1. \A i \in Listed : auctionList'[i] =
          IF i = n THEN [auctionList[n] EXCEPT !.state = 2] ELSE auctionList[i]
    BY GetAuctionTyping DEF Inv
  <2>2. auctionList[n] \in Auction
    BY ListedTyping DEF Inv, TypeOK
  <2>3. QED
    BY <2>1, <2>2 DEF Auction
<1>4. /\ UNCHANGED <<bider, bidValue>>
      /\ bider[n] = u /\ u # NoOne
      /\ auctionList[n].timeOver < now
  BY AuctionAssumption DEF GetAuction
<1>5. LeaderHoldsPrice'
  BY <1>2, <1>3, <1>4 DEF Inv, LeaderHoldsPrice
<1>6. SoldIsOver'
  BY <1>2, <1>3, <1>4 DEF Inv, SoldIsOver
<1>7. QED
  BY <1>1, <1>5, <1>6 DEF Inv

LEMMA InvStep == Inv /\ [AuctionNext]_allAuctionVars => Inv'
<1> SUFFICES ASSUME Inv, [AuctionNext]_allAuctionVars PROVE Inv'
  OBVIOUS
<1>1. ASSUME NEW lot \in Lots, AuctionStart(lot.mortgage, lot.debt, lot.interest),
             UNCHANGED <<tcashVars, now>>
      PROVE  Inv'
  BY <1>1, StartInv, LotsAreRecords
<1>2. CASE UpgradeState /\ UNCHANGED <<tcashVars, now>>
  BY <1>2, UpgradeInv
<1>3. ASSUME NEW d \in 1..MaxDuration, UpdateBidDuration(d), UNCHANGED <<tcashVars, now>>
      PROVE  Inv'
  BY <1>3 DEF UpdateBidDuration, Inv, TypeOK, TCashTypeOK, AuctionTypeOK, tcashVars,
              LeaderHoldsPrice, SoldIsOver, Listed
<1>4. ASSUME NEW n \in Listed, NEW u \in Bidders, NEW amount \in Amounts,
             Bid(n, u, amount), UNCHANGED now
      PROVE  Inv'
  BY <1>4, BidInv
<1>5. ASSUME NEW n \in Listed, NEW u \in Bidders,
             BidWithdrawal(n, u) \/ GetAuction(n, u), UNCHANGED now
      PROVE  Inv'
  BY <1>5, WithdrawalInv, GetAuctionInv
<1>6. CASE TokenStep /\ UNCHANGED now
  BY <1>6, TokenStepTyping DEF Inv, TypeOK, AuctionTypeOK, auctionVars,
                               LeaderHoldsPrice, SoldIsOver, Listed
<1>7. CASE Tick /\ UNCHANGED <<tcashVars, auctionVars>>
  <2>1. now' = now + 1 /\ now \in Nat
    BY <1>7 DEF Tick, Inv, TypeOK
  <2>2. TypeOK' /\ LeaderHoldsPrice'
    BY <1>7, <2>1 DEF Inv, TypeOK, TCashTypeOK, AuctionTypeOK, tcashVars, auctionVars,
                      LeaderHoldsPrice, Listed
  <2>3. \A n \in Listed : auctionList[n].timeOver \in Nat
    BY ListedTyping DEF Inv, TypeOK, Auction
  <2>4. SoldIsOver'
    BY <1>7, <2>1, <2>3 DEF Inv, SoldIsOver, Listed, auctionVars
  <2>5. QED
    BY <2>2, <2>4 DEF Inv
<1>8. CASE UNCHANGED allAuctionVars
  BY <1>8 DEF Inv, TypeOK, TCashTypeOK, AuctionTypeOK, allAuctionVars, tcashVars, auctionVars,
              LeaderHoldsPrice, SoldIsOver, Listed
<1>9. CASE AuctionStep /\ UNCHANGED now
  BY <1>1, <1>2, <1>3, <1>4, <1>5, <1>9 DEF AuctionStep
<1>10. QED
  BY <1>6, <1>7, <1>8, <1>9 DEF AuctionNext

-----------------------------------------------------------------------------
(***************************************************************************)
(* Locks and bids: one bid changes one summand of one account's bids.      *)
(***************************************************************************)

BidsOf(u) == [n \in AuctionIds |-> bidValue[n][u]]

LEMMA AuctionIdsAreFinite == IsFiniteSet(AuctionIds)
BY FS_Interval, AuctionAssumption DEF AuctionIds

\* A bid that is set moves the lock by what it changes (bidCost, bidBack).
LEMMA ChangedBidKeepsLocks ==
  ASSUME TypeOK, TypeOK', LocksAreBids, NEW n \in AuctionIds, NEW u \in Bidders, NEW b \in Nat,
         bidValue' = [bidValue EXCEPT ![n][u] = b],
         lockedBalances'[u] = lockedBalances[u] + b - bidValue[n][u],
         \A v \in Bidders \ {u} : lockedBalances'[v] = lockedBalances[v]
  PROVE  LocksAreBids'
<1>1. bidValue \in [AuctionIds -> [Bidders -> Nat]]
  BY DEF TypeOK, AuctionTypeOK
<1>2. \A v \in Bidders : DOMAIN BidsOf(v) = AuctionIds /\ DOMAIN BidsOf(v)' = AuctionIds
  BY DEF BidsOf
<1>3. \A v \in Bidders : lockedBalances[v] = SumFunctionOnSet(BidsOf(v), AuctionIds)
  BY <1>2 DEF LocksAreBids, BidsOf, SumFunction
<1>4. SumFunctionOnSet(BidsOf(u)', AuctionIds) = lockedBalances'[u]
  <2>1. \A i \in AuctionIds : /\ BidsOf(u)[i] \in Int /\ BidsOf(u)'[i] \in Int
                              /\ i # n => BidsOf(u)[i] = BidsOf(u)'[i]
    BY <1>1 DEF BidsOf
  <2>2. BidsOf(u)'[n] = b /\ BidsOf(u)[n] = bidValue[n][u]
    BY <1>1 DEF BidsOf
  <2>3. SumFunctionOnSet(BidsOf(u)', AuctionIds)
          = SumFunctionOnSet(BidsOf(u), AuctionIds) + BidsOf(u)'[n] - BidsOf(u)[n]
    BY <2>1, AuctionIdsAreFinite, SumChange
  <2>4. QED
    BY <1>3, <2>2, <2>3
<1>5. ASSUME NEW v \in Bidders, v # u
      PROVE  SumFunctionOnSet(BidsOf(v)', AuctionIds) = lockedBalances'[v]
  <2>1. \A i \in AuctionIds : bidValue'[i][v] = bidValue[i][v]
    BY <1>1, <1>5
  <2>2. BidsOf(v)' = BidsOf(v)
    BY <2>1 DEF BidsOf
  <2>3. QED
    BY <1>3, <1>5, <2>2
<1>6. \A v \in Bidders : lockedBalances'[v] = SumFunctionOnSet(BidsOf(v)', AuctionIds)
  BY <1>4, <1>5
<1>7. QED
  BY <1>2, <1>6 DEF LocksAreBids, BidsOf, SumFunction

LEMMA LocksInit == AuctionSpecInit => LocksAreBids
<1> SUFFICES ASSUME AuctionSpecInit, NEW u \in Bidders
             PROVE  lockedBalances[u] = SumFunction(BidsOf(u))
  BY DEF LocksAreBids, BidsOf
<1>1. DOMAIN BidsOf(u) = AuctionIds /\ \A n \in AuctionIds : BidsOf(u)[n] = 0
  BY DEF BidsOf, AuctionSpecInit, AuctionInit
<1>2. SumFunctionOnSet(BidsOf(u), AuctionIds) = 0
  BY <1>1, AuctionIdsAreFinite, SumOfZeros
<1>3. lockedBalances[u] = 0
  BY AuctionAssumption DEF AuctionSpecInit
<1>4. QED
  BY <1>1, <1>2, <1>3 DEF SumFunction

LEMMA LocksStep == Inv /\ LocksAreBids /\ [AuctionNext]_allAuctionVars => LocksAreBids'
<1> SUFFICES ASSUME Inv, LocksAreBids, [AuctionNext]_allAuctionVars PROVE LocksAreBids'
  OBVIOUS
<1>1. TypeOK /\ TypeOK'
  BY InvStep DEF Inv
<1>2. /\ lockedBalances \in [Accounts -> Nat] /\ Bidders \subseteq Accounts
      /\ bidValue \in [AuctionIds -> [Bidders -> Nat]]
      /\ Listed \subseteq AuctionIds
  BY <1>1, ListedTyping, AuctionAssumption DEF TypeOK, TCashTypeOK, AuctionTypeOK
<1>3. ASSUME NEW n \in Listed, NEW u \in Bidders, NEW amount \in Amounts, Bid(n, u, amount)
      PROVE  LocksAreBids'
  <2> DEFINE b == bidValue[n][u] + amount
  <2>1. n \in AuctionIds /\ amount \in Nat /\ bidValue[n][u] \in Nat
    BY <1>2, AuctionAssumption
  <2>2. b \in Nat /\ bidValue' = [bidValue EXCEPT ![n][u] = b]
    BY <1>2, <1>3, <2>1 DEF Bid
  <2>3. /\ lockedBalances'[u] = lockedBalances[u] + b - bidValue[n][u]
        /\ \A v \in Bidders \ {u} : lockedBalances'[v] = lockedBalances[v]
    BY <1>2, <1>3, <2>1 DEF Bid, BidCost
  <2> HIDE DEF b
  <2>4. QED
    BY <1>1, <2>1, <2>2, <2>3, ChangedBidKeepsLocks
<1>4. ASSUME NEW n \in Listed, NEW u \in Bidders, BidWithdrawal(n, u)
      PROVE  LocksAreBids'
  <2>1. n \in AuctionIds /\ bidValue[n][u] \in Nat /\ 0 \in Nat
    BY <1>2
  <2>2. bidValue' = [bidValue EXCEPT ![n][u] = 0]
    BY <1>4 DEF BidWithdrawal
  <2>3. /\ lockedBalances'[u] = lockedBalances[u] + 0 - bidValue[n][u]
        /\ \A v \in Bidders \ {u} : lockedBalances'[v] = lockedBalances[v]
    BY <1>2, <1>4, <2>1 DEF BidWithdrawal, BidBack
  <2>4. QED
    BY <1>1, <2>1, <2>2, <2>3, ChangedBidKeepsLocks
<1>5. CASE UNCHANGED <<bidValue, lockedBalances>>
  BY <1>5 DEF LocksAreBids
<1>6. ASSUME NEW n \in Listed, NEW u \in Bidders, GetAuction(n, u)
      PROVE  UNCHANGED <<bidValue, lockedBalances>>
  BY <1>6 DEF GetAuction, BurnFrom, Burn
<1>7. CASE TokenStep
  BY <1>7 DEF TokenStep, auctionVars, Transfer, Burn, BurnFrom, Mint, LocksAreBids
<1>8. CASE AuctionStep
  <2>1. CASE /\ \/ \E lot \in Lots : AuctionStart(lot.mortgage, lot.debt, lot.interest)
                \/ UpgradeState
                \/ \E d \in 1..MaxDuration : UpdateBidDuration(d)
             /\ UNCHANGED tcashVars
    BY <2>1, <1>5 DEF AuctionStart, UpgradeState, UpdateBidDuration, tcashVars
  <2>2. QED
    BY <1>3, <1>4, <1>5, <1>6, <1>8, <2>1 DEF AuctionStep
<1>9. QED
  BY <1>5, <1>7, <1>8 DEF AuctionNext, allAuctionVars, tcashVars, auctionVars

\* The invariant of the auctions, for every number of accounts and auctions.
THEOREM AuctionInvariant == AuctionSpec => []Inv
BY InvInit, InvStep, PTL DEF AuctionSpec

\* Type correctness of the auctions and the token (bid, bidWithdrawal, getAuction
\* and the token's transfers, mints and burns): no subtraction goes below zero.
THEOREM AuctionTypeCorrect == AuctionSpec => []TypeOK
BY AuctionInvariant, PTL DEF Inv

\* The price of an auction is its leader's whole bid, above all others' and above
\* the starting price (bid, bidWithdrawal, upgradeState).
THEOREM LeaderAlwaysHoldsPrice == AuctionSpec => []LeaderHoldsPrice
BY AuctionInvariant, PTL DEF Inv

\* What is locked of an account is what it has bid and not taken back, over all
\* auctions, for any number of them (bidCost, bidBack, bid, bidWithdrawal).
THEOREM LocksAreAlwaysBids == AuctionSpec => []LocksAreBids
BY AuctionInvariant, LocksInit, LocksStep, PTL DEF AuctionSpec

-----------------------------------------------------------------------------
(***************************************************************************)
(* The refinement.  Every step of the auctions is a step of Sale or leaves *)
(* stages, leaders and prices alone.                                       *)
(***************************************************************************)

StageMap == [n \in AuctionIds |-> Stage(n)]
PriceMap == [n \in AuctionIds |-> Price(n)]

\* What a step that keeps the mapped state is to Sale: a stutter.
SameSale == UNCHANGED <<StageMap, bider, PriceMap>>

LEMMA PriceTyping == TypeOK => PriceMap \in [AuctionIds -> Nat]
<1> SUFFICES ASSUME TypeOK PROVE PriceMap \in [AuctionIds -> Nat]
  OBVIOUS
<1>1. \A n \in AuctionIds : Price(n) \in Nat
  BY ListedTyping DEF Price, TypeOK, Auction
<1>2. QED
  BY <1>1 DEF PriceMap

PricesTyped == PriceMap \in [AuctionIds -> Nat]

LEMMA PriceTypingNext == TypeOK' => PricesTyped'
<1>1. TypeOK => PricesTyped
  BY PriceTyping DEF PricesTyped
<1>2. QED
  BY <1>1, PTL

LEMMA SaleInitImplied == AuctionSpecInit => SaleOf!SaleInit
<1> SUFFICES ASSUME AuctionSpecInit PROVE SaleOf!SaleInit
  OBVIOUS
<1>1. Listed = {} /\ bider = [n \in AuctionIds |-> NoOne]
  BY DEF AuctionSpecInit, AuctionInit, Listed
<1>2. QED
  BY <1>1 DEF SaleOf!SaleInit, Stage, Price

LEMMA StartIsOffer ==
  ASSUME Inv, UNCHANGED <<tcashVars, now>>,
         NEW lot \in LotRecord, AuctionStart(lot.mortgage, lot.debt, lot.interest)
  PROVE  SaleOf!SaleNext
<1>0. Len(auctionList) \in Nat /\ Len(auctionList) < MaxAuctions
  BY DEF Inv, TypeOK, AuctionTypeOK, AuctionStart
<1>1. PICK k \in AuctionIds : k = Len(auctionList) + 1
  BY <1>0, AuctionAssumption DEF AuctionIds
<1>2. Listed' = Listed \cup {k} /\ k \notin Listed /\ k \in AuctionIds
  <2>1. Len(auctionList') = k
    BY <1>1, StartTyping DEF Inv
  <2>2. QED
    BY <1>0, <1>1, <2>1 DEF Listed
<1>3. \A n \in Listed : auctionList'[n] = auctionList[n]
  BY StartTyping DEF Inv
<1>4. auctionList'[k].state = 1
  <2>1. auctionList'[k] =
          [sales |-> lot.mortgage, startValue |-> lot.debt, nowValue |-> lot.debt,
           timeOver |-> now + bidDuration, state |-> 1, debt |-> lot.interest]
    BY <1>1, StartTyping DEF Inv
  <2>2. QED
    BY <2>1
<1>5. UNCHANGED bider /\ bider[k] = NoOne
  BY <1>2 DEF AuctionStart, Inv, LeaderHoldsPrice
<1>6. Stage(k) = "unlisted" /\ Stage(k)' = "open"
  BY <1>2, <1>4, <1>5 DEF Stage
<1>7. \A n \in AuctionIds \ {k} : Stage(n)' = Stage(n) /\ Price(n)' = Price(n)
  <2> SUFFICES ASSUME NEW n \in AuctionIds \ {k}
               PROVE  Stage(n)' = Stage(n) /\ Price(n)' = Price(n)
    OBVIOUS
  <2>1. (n \in Listed') = (n \in Listed) /\ bider'[n] = bider[n] /\ now' = now
    BY <1>2, <1>5
  <2>2. QED
    BY <1>3, <2>1 DEF Stage, Price
<1>8. TypeOK'
  BY StartInv DEF Inv
<1>9. QED
  <2>1. StageMap' = [n \in AuctionIds |-> IF n \in {k} THEN "open" ELSE StageMap[n]]
    BY <1>2, <1>6, <1>7 DEF StageMap
  <2>2. PriceMap' \in [AuctionIds -> Nat]
    BY <1>8, PriceTypingNext DEF PricesTyped
  <2>3. \A n \in AuctionIds \ {k} : PriceMap'[n] = PriceMap[n]
    BY <1>7 DEF PriceMap
  <2>4. SaleOf!Offer({k})
    BY <1>2, <1>5, <1>6, <2>1, <2>2, <2>3
    DEF SaleOf!Offer, SaleOf!MovePrices, StageMap, PriceMap
  <2>5. QED
    BY <1>2, <2>4 DEF SaleOf!SaleNext

LEMMA UpgradeIsStutter ==
  ASSUME Inv, UpgradeState, UNCHANGED now
  PROVE  SameSale
<1>1. Len(auctionList') = Len(auctionList) /\ Listed' = Listed
  BY UpgradeTyping DEF Inv, Listed
<1>2. ASSUME NEW n \in AuctionIds
      PROVE  Stage(n)' = Stage(n) /\ Price(n)' = Price(n)
  <2>1. CASE n \notin Listed
    BY <1>1, <2>1 DEF Stage, Price
  <2>2. CASE n \in Listed
    <3>1. auctionList[n] \in Auction
      BY <2>2, ListedTyping DEF Inv, TypeOK
    <3>2. /\ auctionList'[n] = IF auctionList[n].timeOver < now /\ bider[n] = NoOne
                               THEN [auctionList[n] EXCEPT !.timeOver = now + bidDuration]
                               ELSE auctionList[n]
          /\ UNCHANGED bider
      BY <2>2 DEF UpgradeState
    <3>3. /\ auctionList'[n].state = auctionList[n].state
          /\ auctionList'[n].nowValue = auctionList[n].nowValue
          /\ bider[n] # NoOne => auctionList'[n].timeOver = auctionList[n].timeOver
      BY <3>1, <3>2 DEF Auction
    <3>4. QED
      BY <1>1, <2>2, <3>2, <3>3 DEF Stage, Price
  <2>3. QED
    BY <2>1, <2>2
<1>3. UNCHANGED bider
  BY DEF UpgradeState
<1>4. QED
  BY <1>2, <1>3 DEF SameSale, StageMap, PriceMap

LEMMA BidIsRaise ==
  ASSUME Inv, NEW n \in Listed, NEW u \in Bidders, NEW amount \in Amounts,
         Bid(n, u, amount), UNCHANGED now
  PROVE  SaleOf!SaleNext
<1>1. n \in AuctionIds /\ auctionList[n] \in Auction /\ now \in Nat /\ amount \in Nat
  BY ListedTyping, AuctionAssumption DEF Inv, TypeOK
<1>2. /\ auctionList[n].timeOver > now
      /\ auctionList[n].nowValue < bidValue[n][u] + amount
      /\ bider' = [bider EXCEPT ![n] = u]
  BY DEF Bid
<1>3. auctionList[n].state # 2
  BY <1>1, <1>2 DEF Inv, SoldIsOver, Auction
<1>4. Len(auctionList') = Len(auctionList) /\ Listed' = Listed
  BY BidTyping DEF Inv, Listed
<1>5. \A i \in Listed \ {n} : auctionList'[i] = auctionList[i]
  BY BidTyping DEF Inv
<1>6. /\ auctionList'[n].state = auctionList[n].state
      /\ auctionList'[n].timeOver = auctionList[n].timeOver
      /\ auctionList'[n].nowValue = bidValue[n][u] + amount
  <2>1. auctionList'[n] = [auctionList[n] EXCEPT !.nowValue = bidValue[n][u] + amount]
    BY BidTyping DEF Inv
  <2>2. QED
    BY <1>1, <2>1 DEF Auction
<1>7. Stage(n) = "open" /\ Stage(n)' = "open"
  BY <1>1, <1>2, <1>3, <1>4, <1>6 DEF Stage, Auction
<1>8. \A i \in AuctionIds \ {n} : Stage(i)' = Stage(i) /\ Price(i)' = Price(i)
  <2> SUFFICES ASSUME NEW i \in AuctionIds \ {n}
               PROVE  Stage(i)' = Stage(i) /\ Price(i)' = Price(i)
    OBVIOUS
  <2>1. bider'[i] = bider[i] /\ now' = now
    BY <1>2 DEF Inv, TypeOK, AuctionTypeOK
  <2>2. QED
    BY <1>4, <1>5, <2>1 DEF Stage, Price
<1>9. Price(n) = auctionList[n].nowValue /\ Price(n)' = bidValue[n][u] + amount
  BY <1>4, <1>6 DEF Price
<1>10. PriceMap' \in [AuctionIds -> Nat]
  BY BidInv, PriceTypingNext DEF Inv, PricesTyped
<1>11. SaleOf!Raise(n)
  <2>1. UNCHANGED StageMap
    BY <1>7, <1>8 DEF StageMap
  <2>2. PriceMap'[n] > PriceMap[n] /\ \A i \in AuctionIds \ {n} : PriceMap'[i] = PriceMap[i]
    BY <1>1, <1>2, <1>8, <1>9 DEF PriceMap
  <2>3. QED
    BY <1>1, <1>2, <1>7, <1>10, <2>1, <2>2
    DEF SaleOf!Raise, SaleOf!MovePrices, StageMap, PriceMap
<1>12. QED
  BY <1>1, <1>11 DEF SaleOf!SaleNext

LEMMA GetAuctionIsHand ==
  ASSUME Inv, NEW n \in Listed, NEW u \in Bidders, GetAuction(n, u), UNCHANGED now
  PROVE  SaleOf!SaleNext
<1>1. n \in AuctionIds /\ auctionList[n] \in Auction /\ now \in Nat
  BY ListedTyping DEF Inv, TypeOK
<1>2. /\ auctionList[n].state # 2
      /\ auctionList[n].timeOver < now
      /\ bider[n] # NoOne
      /\ UNCHANGED bider
  BY AuctionAssumption DEF GetAuction
<1>3. Len(auctionList') = Len(auctionList) /\ Listed' = Listed
  BY GetAuctionTyping DEF Inv, Listed
<1>4. \A i \in Listed \ {n} : auctionList'[i] = auctionList[i]
  BY GetAuctionTyping DEF Inv
<1>5. auctionList'[n].state = 2 /\ auctionList'[n].nowValue = auctionList[n].nowValue
  <2>1. auctionList'[n] = [auctionList[n] EXCEPT !.state = 2]
    BY GetAuctionTyping DEF Inv
  <2>2. QED
    BY <1>1, <2>1 DEF Auction
<1>6. Stage(n) = "fallen" /\ Stage(n)' = "sold"
  BY <1>1, <1>2, <1>3, <1>5 DEF Stage, Auction
<1>7. \A i \in AuctionIds : Price(i)' = Price(i) /\ (i # n => Stage(i)' = Stage(i))
  BY <1>2, <1>3, <1>4, <1>5 DEF Stage, Price
<1>8. SaleOf!Hand(n)
  <2>1. StageMap' = [StageMap EXCEPT ![n] = "sold"] /\ UNCHANGED PriceMap
    BY <1>1, <1>6, <1>7 DEF StageMap, PriceMap
  <2>2. QED
    BY <1>1, <1>2, <1>6, <2>1 DEF SaleOf!Hand, StageMap, PriceMap
<1>9. QED
  BY <1>1, <1>8 DEF SaleOf!SaleNext

LEMMA TickIsHammer ==
  ASSUME Inv, Tick, UNCHANGED auctionVars
  PROVE  SaleOf!SaleNext
<1>1. now \in Nat /\ now' = now + 1 /\ UNCHANGED <<auctionList, bider>> /\ Listed' = Listed
  BY DEF Tick, Inv, TypeOK, auctionVars, Listed
<1>2. \A n \in Listed : auctionList[n].timeOver \in Nat
  BY ListedTyping DEF Inv, TypeOK, Auction
<1>3. PICK S \in SUBSET AuctionIds :
        S = {n \in AuctionIds : Stage(n) = "open" /\ Stage(n)' = "fallen"}
  OBVIOUS
<1>4. \A n \in AuctionIds \ S : Stage(n)' = Stage(n)
  BY <1>1, <1>2, <1>3 DEF Stage
<1>5. \A n \in S : Stage(n) = "open" /\ bider[n] # NoOne
  BY <1>1, <1>3 DEF Stage
<1>6. \A n \in AuctionIds : Price(n)' = Price(n)
  BY <1>1 DEF Price
<1>7. StageMap' = [n \in AuctionIds |-> IF n \in S THEN "fallen" ELSE StageMap[n]]
  BY <1>3, <1>4 DEF StageMap
<1>8. UNCHANGED PriceMap
  BY <1>6 DEF PriceMap
<1>9. SaleOf!Hammer(S)
  BY <1>1, <1>5, <1>7, <1>8 DEF SaleOf!Hammer, StageMap, PriceMap
<1>10. QED
  BY <1>9 DEF SaleOf!SaleNext

LEMMA SaleStep == Inv /\ [AuctionNext]_allAuctionVars => [SaleOf!SaleNext]_SaleOf!saleVars
<1> SUFFICES ASSUME Inv, [AuctionNext]_allAuctionVars
             PROVE  SaleOf!SaleNext \/ SameSale
  BY DEF SameSale, StageMap, PriceMap, SaleOf!saleVars
<1>1. ASSUME UNCHANGED <<auctionList, bider, now>>
      PROVE  SameSale
  <2>1. \A n \in AuctionIds : Stage(n)' = Stage(n) /\ Price(n)' = Price(n)
    BY <1>1 DEF Stage, Price, Listed
  <2>2. QED
    BY <1>1, <2>1 DEF SameSale, StageMap, PriceMap
<1>2. ASSUME NEW lot \in Lots, AuctionStart(lot.mortgage, lot.debt, lot.interest),
             UNCHANGED <<tcashVars, now>>
      PROVE  SaleOf!SaleNext
  BY <1>2, StartIsOffer, LotsAreRecords
<1>3. CASE UpgradeState /\ UNCHANGED now
  BY <1>3, UpgradeIsStutter
<1>4. ASSUME NEW d \in 1..MaxDuration, UpdateBidDuration(d), UNCHANGED now
      PROVE  SameSale
  BY <1>1, <1>4 DEF UpdateBidDuration
<1>5. ASSUME NEW n \in Listed, NEW u \in Bidders, NEW amount \in Amounts,
             Bid(n, u, amount), UNCHANGED now
      PROVE  SaleOf!SaleNext
  BY <1>5, BidIsRaise
<1>6. ASSUME NEW n \in Listed, NEW u \in Bidders, BidWithdrawal(n, u), UNCHANGED now
      PROVE  SameSale
  BY <1>1, <1>6 DEF BidWithdrawal
<1>7. ASSUME NEW n \in Listed, NEW u \in Bidders, GetAuction(n, u), UNCHANGED now
      PROVE  SaleOf!SaleNext
  BY <1>7, GetAuctionIsHand
<1>8. CASE TokenStep /\ UNCHANGED now
  BY <1>1, <1>8 DEF TokenStep, auctionVars
<1>9. CASE Tick /\ UNCHANGED <<tcashVars, auctionVars>>
  BY <1>9, TickIsHammer
<1>10. CASE UNCHANGED allAuctionVars
  BY <1>1, <1>10 DEF allAuctionVars, auctionVars
<1>11. CASE AuctionStep /\ UNCHANGED now
  BY <1>2, <1>3, <1>4, <1>5, <1>6, <1>7, <1>11 DEF AuctionStep
<1>12. QED
  BY <1>8, <1>9, <1>10, <1>11 DEF AuctionNext

\* The TCash auctions are ascending auctions: listing is an offer, a bid raises
\* the price, the deadlines the clock passes are the hammer, getAuction hands the
\* lot over, and withdrawals, restarts and the token's other uses do not show.
THEOREM AuctionImplementsSale == AuctionSpec => IsSale
<1>1. AuctionSpecInit => SaleOf!SaleInit
  BY SaleInitImplied
<1>2. Inv /\ [AuctionNext]_allAuctionVars => [SaleOf!SaleNext]_SaleOf!saleVars
  BY SaleStep
<1>3. QED
  BY <1>1, <1>2, AuctionInvariant, PTL DEF AuctionSpec, IsSale, SaleOf!SaleSpec

-----------------------------------------------------------------------------
(***************************************************************************)
(* PART 2: THE LOAN BOOK                                                   *)
(***************************************************************************)

-----------------------------------------------------------------------------
(***************************************************************************)
(* Arithmetic: what the division of a repayment releases.                  *)
(***************************************************************************)

\* calculateUnitToRelease: a repayment of at most the debt frees at most the
\* collateral, and one of the whole debt frees all of it.
LEMMA ReleaseWithinCollateral ==
  ASSUME NEW loan \in Loan, NEW amount \in Nat, loan.debt > 0, amount <= loan.debt
  PROVE  /\ UnitToRelease(loan, amount) \in 0..loan.collateral
         /\ amount = loan.debt => UnitToRelease(loan, amount) = loan.collateral
<1>1. loan.debt \in Nat \ {0} /\ loan.collateral \in Nat
  BY DEF Loan
<1>2. amount * loan.collateral \in Nat /\ amount * loan.collateral <= loan.debt * loan.collateral
  BY <1>1, ProductIsNat, ProductMonotone
<1>3. QED
  BY <1>1, <1>2, QuotientIsNat, QuotientBound DEF UnitToRelease

LEMMA InterestIsNat == \A debt \in Nat : DailyInterest(debt) \in Nat
BY LoanAssumption, ProductIsNat, QuotientIsNat DEF DailyInterest

LEMMA NoInterestOnNothing == DailyInterest(0) = 0
BY LoanAssumption DEF DailyInterest

-----------------------------------------------------------------------------
(***************************************************************************)
(* Credit and risk factors.                                                *)
(***************************************************************************)

\* The rows and columns of the tables of PRF and SRF exist.
LEMMA RowExists ==
  ASSUME NEW n \in Nat, NEW S \in SUBSET (1..n)
  PROVE  1 + Cardinality(S) \in 1..n + 1
<1>1. IsFiniteSet(1..n) /\ Cardinality(1..n) = n
  BY FS_Interval
<1>2. IsFiniteSet(S) /\ Cardinality(S) <= n
  BY <1>1, FS_Subset
<1>3. QED
  BY <1>2, FS_CardinalityType

LEMMA BandIsNat ==
  ASSUME NEW n \in Nat, NEW bounds, DOMAIN bounds = 1..n,
         NEW values, \A i \in 1..n + 1 : values[i] \in Nat, NEW x
  PROVE  Band(x, bounds, values) \in Nat
<1> DEFINE S == {i \in DOMAIN bounds : x > bounds[i]}
<1>1. S \in SUBSET (1..n)
  OBVIOUS
<1> HIDE DEF S
<1>2. values[1 + Cardinality(S)] \in Nat
  BY <1>1, RowExists
<1>3. QED
  BY <1>2 DEF Band, S

LEMMA SRFIsNat == SRF \in Nat
<1> DEFINE lent == (sys.OLB * 10000) \div totalSupply
           repaid == (sys.RA * 10000) \div sys.TLD
           Rows == {i \in 1..4 : lent >= <<6000, 7000, 8000, 9000>>[i]}
           Cols == {i \in 1..4 : repaid <= <<3000, 2000, 1000, 500>>[i]}
<1> HIDE DEF lent, repaid
<1>1. Rows \in SUBSET (1..4) /\ Cols \in SUBSET (1..4)
  OBVIOUS
<1> HIDE DEF Rows, Cols
<1>2. 1 + Cardinality(Rows) \in 1..5 /\ 1 + Cardinality(Cols) \in 1..5
  <2>1. 4 \in Nat /\ 4 + 1 = 5
    OBVIOUS
  <2>2. QED
    BY <1>1, <2>1, RowExists
<1>3. \A row, col \in 1..5 : SRFTable[row][col] \in Nat
  BY DEF SRFTable
<1>4. SRFTable[1 + Cardinality(Rows)][1 + Cardinality(Cols)] \in Nat
  BY <1>2, <1>3
<1>5. QED
  BY <1>4 DEF SRF, Rows, Cols, lent, repaid

LEMMA PRFIsNat == \A u \in Borrowers : PRF(u) \in Nat
<1> SUFFICES ASSUME NEW u \in Borrowers PROVE PRF(u) \in Nat
  OBVIOUS
<1> DEFINE o == Band((personal[u].TLA * 10000) \div PCL(u), <<8500, 9500>>,
                     <<10000, 8000, 6000>>)
           r == Band((personal[u].NCL * 10000) \div personal[u].TNL, <<3000, 6000, 8000>>,
                     <<4000, 5000, 8000, 10000>>)
<1>1. o \in Nat
  <2> DEFINE bounds == <<8500, 9500>>
             values == <<10000, 8000, 6000>>
  <2>1. 2 \in Nat /\ DOMAIN bounds = 1..2 /\ \A i \in 1..2 + 1 : values[i] \in Nat
    OBVIOUS
  <2> HIDE DEF bounds, values
  <2>2. \A x : Band(x, bounds, values) \in Nat
    BY <2>1, BandIsNat
  <2>3. QED
    BY <2>2 DEF bounds, values
<1>2. r \in Nat
  <2> DEFINE bounds == <<3000, 6000, 8000>>
             values == <<4000, 5000, 8000, 10000>>
  <2>1. 3 \in Nat /\ DOMAIN bounds = 1..3 /\ \A i \in 1..3 + 1 : values[i] \in Nat
    OBVIOUS
  <2> HIDE DEF bounds, values
  <2>2. \A x : Band(x, bounds, values) \in Nat
    BY <2>1, BandIsNat
  <2>3. QED
    BY <2>2 DEF bounds, values
<1> HIDE DEF o, r
<1>3. (o * (IF personal[u].NCL = 0 THEN 2000 ELSE r)) \div 10000 \in Nat
  BY <1>1, <1>2, ProductIsNat, QuotientIsNat
<1>4. QED
  BY <1>3 DEF PRF, o, r

LEMMA PCLIsNat ==
  ASSUME LoanTypeOK, NEW u \in Borrowers
  PROVE  PCL(u) \in Nat
<1>1. tatTotal[u] \in Nat
  BY LoanAssumption DEF LoanTypeOK
<1>2. tatTotal[u] \div 3 \in Nat
  BY <1>1, QuotientIsNat
<1>3. QED
  BY <1>2, ProductIsNat DEF PCL

\* calculateLoanAmount never lends less than the minimum.
LEMMA LoanAmountIsPositive ==
  ASSUME LoanTypeOK, NEW u \in Borrowers, NEW value \in Nat
  PROVE  LoanAmount(u, value) \in Nat \ {0}
<1> DEFINE byValue == (value * unitPrice * CRF(u)) \div (10000 * tcashPrice)
<1>1. PCL(u) \in Nat
  BY PCLIsNat
<1>2. ALB(u) \in Nat
  BY <1>1 DEF ALB, LoanTypeOK
<1>3. CRF(u) \in Nat
  <2>1. PRF(u) * systemRiskFactor \in Nat
    BY PRFIsNat, ProductIsNat DEF LoanTypeOK
  <2>2. QED
    BY <2>1, QuotientIsNat DEF CRF
<1>4. byValue \in Nat
  <2>1. unitPrice \in Nat /\ tcashPrice \in Nat \ {0}
    BY LoanAssumption DEF LoanTypeOK
  <2>2. value * unitPrice * CRF(u) \in Nat
    BY <2>1, <1>3, ProductIsNat
  <2>3. 10000 * tcashPrice \in Nat \ {0}
    BY <2>1
  <2>4. QED
    BY <2>2, <2>3, QuotientIsNat
<1> HIDE DEF byValue
<1>5. MinLoan \in Nat \ {0}
  BY LoanAssumption
<1>6. LET capped == IF byValue > ALB(u) THEN ALB(u) ELSE byValue
      IN  (IF capped < MinLoan THEN MinLoan ELSE capped) \in Nat \ {0}
  BY <1>2, <1>4, <1>5
<1>7. QED
  BY <1>6 DEF LoanAmount, byValue

-----------------------------------------------------------------------------
(***************************************************************************)
(* The list of loans: one is added, or one changes.                        *)
(***************************************************************************)

PaidOff(u) == {l \in LoansOf(u) : loans[l].debt = 0}

LoanOK(loan) ==
  /\ loan \in Loan
  /\ loan.interest <= loan.debt
  /\ ~Overrides => /\ (loan.status = Cleared) = (loan.debt = 0)
                   /\ loan.debt = 0 => loan.collateral = 0

LoansOK == loans \in Seq(Loan) /\ \A l \in LoanIds : LoanOK(loans[l])

LEMMA LoanIdsAreFinite ==
  ASSUME loans \in Seq(Loan)
  PROVE  /\ Len(loans) \in Nat
         /\ \A u : /\ IsFiniteSet(LoansOf(u)) /\ Cardinality(LoansOf(u)) \in Nat
                   /\ IsFiniteSet(PaidOff(u)) /\ Cardinality(PaidOff(u)) \in Nat
<1>1. Len(loans) \in Nat
  BY LenProperties
<1>2. IsFiniteSet(1..Len(loans))
  BY <1>1, FS_Interval
<1>3. QED
  BY <1>1, <1>2, FS_Subset, FS_CardinalityType DEF LoansOf, PaidOff, LoanIds

LEMMA AddLoan ==
  ASSUME LoansOK, NEW x, LoanOK(x), x.debt > 0, loans' = Append(loans, x)
  PROVE  /\ LoansOK'
         /\ \A u : PaidOff(u)' = PaidOff(u)
         /\ \A u : Cardinality(LoansOf(u)') =
                     Cardinality(LoansOf(u)) + (IF u = x.account THEN 1 ELSE 0)
<1> DEFINE n == Len(loans)
<1>1. x \in Loan /\ loans \in Seq(Loan) /\ n \in Nat
  BY LoanIdsAreFinite DEF LoansOK, LoanOK
<1>2. /\ loans' \in Seq(Loan)
      /\ Len(loans') = n + 1
      /\ \A l \in 1..n : loans'[l] = loans[l]
      /\ loans'[n + 1] = x
  BY <1>1, AppendProperties
<1>3. LoanIds' = 1..n + 1 /\ LoanIds = 1..n
  BY <1>2 DEF LoanIds
<1>4. LoansOK'
  <2> SUFFICES ASSUME NEW l \in 1..n + 1 PROVE LoanOK(loans'[l])
    BY <1>2, <1>3 DEF LoansOK, LoanOK
  <2>1. CASE l \in 1..n
    BY <2>1, <1>2, <1>3 DEF LoansOK
  <2>2. CASE l = n + 1
    BY <2>2, <1>2
  <2>3. QED
    BY <2>1, <2>2, <1>1
<1>5. ASSUME NEW u
      PROVE  /\ LoansOf(u)' = IF u = x.account THEN LoansOf(u) \cup {n + 1} ELSE LoansOf(u)
             /\ n + 1 \notin LoansOf(u)
  <2>1. \A l \in 1..n + 1 : l \in 1..n \/ l = n + 1
    BY <1>1
  <2>2. n + 1 \notin 1..n /\ n + 1 \in 1..n + 1 /\ 1..n \subseteq 1..n + 1
    BY <1>1
  <2>3. QED
    BY <2>1, <2>2, <1>2, <1>3 DEF LoansOf
<1>6. ASSUME NEW u
      PROVE  PaidOff(u)' = PaidOff(u)
  <2>1. loans'[n + 1].debt # 0
    BY <1>1, <1>2 DEF Loan
  <2>2. \A l \in LoansOf(u) : loans'[l] = loans[l]
    BY <1>2, <1>3 DEF LoansOf
  <2>3. QED
    BY <2>1, <2>2, <1>5 DEF PaidOff
<1>7. QED
  BY <1>1, <1>4, <1>5, <1>6, LoanIdsAreFinite, FS_AddElement

LEMMA ChangeLoan ==
  ASSUME LoansOK, NEW l \in LoanIds, NEW x, LoanOK(x), x.account = loans[l].account,
         loans' = [loans EXCEPT ![l] = x]
  PROVE  /\ LoansOK'
         /\ LoanIds' = LoanIds
         /\ \A k \in LoanIds : loans'[k] = IF k = l THEN x ELSE loans[k]
         /\ \A u : LoansOf(u)' = LoansOf(u)
<1>1. x \in Loan /\ loans \in Seq(Loan)
  BY DEF LoansOK, LoanOK
<1>2. /\ loans' \in Seq(Loan)
      /\ Len(loans') = Len(loans)
      /\ \A k \in 1..Len(loans) : loans'[k] = IF k = l THEN x ELSE loans[k]
  BY <1>1, ExceptSeq DEF LoanIds
<1>3. LoanIds' = LoanIds
  BY <1>2 DEF LoanIds
<1>4. LoansOK'
  <2> SUFFICES ASSUME NEW k \in LoanIds PROVE LoanOK(loans'[k])
    BY <1>2, <1>3 DEF LoansOK, LoanOK
  <2>1. loans'[k] = IF k = l THEN x ELSE loans[k]
    BY <1>2 DEF LoanIds
  <2>2. QED
    BY <2>1 DEF LoansOK
<1>5. \A u : LoansOf(u)' = LoansOf(u)
  BY <1>2, <1>3 DEF LoansOf, LoanIds
<1>6. QED
  BY <1>2, <1>3, <1>4, <1>5 DEF LoanIds

-----------------------------------------------------------------------------
(***************************************************************************)
(* The books: the loans, the borrowers' counters and the system's totals.  *)
(***************************************************************************)

Person == [NCL : Nat, TNL : Nat, TLA : Nat, TRA : Nat]

BookTypeOK ==
  /\ totalBorrowed \in [Borrowers -> Nat]
  /\ personal \in [Borrowers -> Person]
  /\ sys \in [OLB : Nat, RA : Nat, TLD : Nat]

BookInv == LoansOK /\ BookTypeOK /\ BooksBalance /\ CountersCount

LEMMA RecordLoanKeepsBooks ==
  ASSUME BookInv, NEW u \in Borrowers, NEW amount \in Nat \ {0}, NEW collateral \in Nat,
         RecordLoan(u, amount, collateral)
  PROVE  BookInv'
<1> DEFINE interest == DailyInterest(amount)
           debt == amount + interest
           x == [account |-> u, collateral |-> collateral, debt |-> debt,
                 interest |-> interest, IST |-> 1, status |-> Open]
           p == personal[u]
<1>1. interest \in Nat
  BY InterestIsNat
<1> HIDE DEF interest
<1>2. /\ loans' = Append(loans, x)
      /\ totalBorrowed' = [totalBorrowed EXCEPT ![u] = @ + debt]
      /\ personal' = [personal EXCEPT ![u].TNL = @ + 1, ![u].TLA = @ + debt]
      /\ sys' = [sys EXCEPT !.OLB = @ + debt, !.TLD = @ + debt]
  BY DEF RecordLoan, interest
<1>3. LoanOK(x) /\ x.debt > 0
  BY <1>1 DEF LoanOK, Loan, Open, Cleared
<1>4. /\ LoansOK'
      /\ \A v : PaidOff(v)' = PaidOff(v)
      /\ \A v : Cardinality(LoansOf(v)') =
                  Cardinality(LoansOf(v)) + (IF v = u THEN 1 ELSE 0)
  BY <1>2, <1>3, AddLoan DEF BookInv
<1>5. p \in Person
  BY DEF BookInv, BookTypeOK
<1>6. PICK q \in Person : /\ personal' = [personal EXCEPT ![u] = q]
                         /\ q.NCL = p.NCL /\ q.TNL = p.TNL + 1
                         /\ q.TLA = p.TLA + debt /\ q.TRA = p.TRA
  <2>1. p.TNL + 1 \in Nat /\ p.TLA + debt \in Nat
    BY <1>1, <1>5 DEF Person
  <2> DEFINE tnl == p.TNL + 1
             tla == p.TLA + debt
             q == [p EXCEPT !.TNL = tnl, !.TLA = tla]
  <2>2. personal' = [personal EXCEPT ![u] = q]
    BY <1>2
  <2> HIDE DEF p, tnl, tla
  <2>3. /\ q \in Person
        /\ q.NCL = p.NCL /\ q.TNL = tnl /\ q.TLA = tla /\ q.TRA = p.TRA
    <3>1. tnl \in Nat /\ tla \in Nat
      BY <2>1 DEF tnl, tla
    <3>2. q \in Person
      BY <1>5, <3>1 DEF Person
    <3>3. q.NCL = p.NCL /\ q.TNL = tnl /\ q.TLA = tla /\ q.TRA = p.TRA
      BY <1>5, <3>1 DEF Person
    <3>4. QED
      BY <3>2, <3>3
  <2> HIDE DEF q
  <2>4. QED
    BY <2>2, <2>3 DEF tnl, tla
<1>7. BookTypeOK'
  <2>1. totalBorrowed' \in [Borrowers -> Nat]
    BY <1>1, <1>2 DEF BookInv, BookTypeOK
  <2>2. personal' \in [Borrowers -> Person]
    BY <1>6 DEF BookInv, BookTypeOK
  <2>3. sys' \in [OLB : Nat, RA : Nat, TLD : Nat]
    <3> DEFINE olb == sys.OLB + debt
               tld == sys.TLD + debt
    <3>1. sys \in [OLB : Nat, RA : Nat, TLD : Nat]
      BY DEF BookInv, BookTypeOK
    <3>2. olb \in Nat /\ tld \in Nat
      BY <1>1, <3>1
    <3>3. sys' = [sys EXCEPT !.OLB = olb, !.TLD = tld]
      BY <1>2
    <3> HIDE DEF olb, tld
    <3>4. QED
      BY <3>1, <3>2, <3>3
  <2>4. QED
    BY <2>1, <2>2, <2>3 DEF BookTypeOK
<1>8. BooksBalance'
  <2>1. sys'.TLD = sys'.OLB + sys'.RA
    BY <1>1, <1>2 DEF BookInv, BookTypeOK, BooksBalance
  <2>2. ASSUME NEW v \in Borrowers
        PROVE  personal'[v].TLA = totalBorrowed'[v] + personal'[v].TRA
    <3>1. personal[v].TLA = totalBorrowed[v] + personal[v].TRA
      BY DEF BookInv, BooksBalance
    <3>2. CASE v = u
      <4>1. personal'[u].TLA = p.TLA + debt /\ personal'[u].TRA = p.TRA
        BY <1>6 DEF BookInv, BookTypeOK
      <4>2. totalBorrowed'[u] = totalBorrowed[u] + debt /\ totalBorrowed[u] \in Nat
        BY <1>2 DEF BookInv, BookTypeOK
      <4>3. debt \in Nat /\ p.TRA \in Nat
        BY <1>1, <1>5 DEF Person
      <4>4. QED
        BY <3>1, <3>2, <4>1, <4>2, <4>3
    <3>3. CASE v # u
      BY <3>1, <3>3, <1>2, <1>6 DEF BookInv, BookTypeOK
    <3>4. QED
      BY <3>2, <3>3
  <2>3. QED
    BY <2>1, <2>2 DEF BooksBalance
<1>9. CountersCount'
  <2> SUFFICES ASSUME NEW v \in Borrowers
               PROVE  /\ personal'[v].TNL = Cardinality(LoansOf(v)')
                      /\ personal'[v].NCL = Cardinality(PaidOff(v)')
    BY DEF CountersCount, PaidOff
  <2>1. /\ personal[v].TNL = Cardinality(LoansOf(v)) /\ personal[v].NCL = Cardinality(PaidOff(v))
        /\ Cardinality(LoansOf(v)) \in Nat
    BY LoanIdsAreFinite DEF BookInv, CountersCount, PaidOff, LoansOK
  <2>2. CASE v = u
    BY <2>1, <2>2, <1>4, <1>6 DEF BookInv, BookTypeOK
  <2>3. CASE v # u
    BY <2>1, <2>3, <1>4, <1>6 DEF BookInv, BookTypeOK
  <2>4. QED
    BY <2>2, <2>3
<1>10. QED
  BY <1>4, <1>7, <1>8, <1>9 DEF BookInv

\* A change of one loan that leaves the counters of loans alone.
LEMMA ChangeKeepsCounts ==
  ASSUME BookInv, NEW l \in LoanIds, NEW x, LoanOK(x), x.account = loans[l].account,
         (x.debt = 0) = (loans[l].debt = 0),
         loans' = [loans EXCEPT ![l] = x],
         \A v \in Borrowers : personal'[v].TNL = personal[v].TNL /\ personal'[v].NCL = personal[v].NCL
  PROVE  LoansOK' /\ CountersCount'
<1>1. /\ LoansOK'
      /\ LoanIds' = LoanIds
      /\ \A k \in LoanIds : loans'[k] = IF k = l THEN x ELSE loans[k]
      /\ \A u : LoansOf(u)' = LoansOf(u)
  BY ChangeLoan DEF BookInv
<1>2. \A u : PaidOff(u)' = PaidOff(u)
  BY <1>1 DEF PaidOff, LoansOf
<1>3. QED
  BY <1>1, <1>2 DEF BookInv, CountersCount, PaidOff

LEMMA SetLoanStatusKeepsBooks ==
  ASSUME BookInv, Overrides, NEW l \in LoanIds, NEW status \in 0..3, SetLoanStatus(l, status)
  PROVE  BookInv'
<1> DEFINE x == [loans[l] EXCEPT !.status = status]
<1>1. loans' = [loans EXCEPT ![l] = x] /\ UNCHANGED <<totalBorrowed, personal, sys>>
  BY DEF SetLoanStatus
<1>2. loans[l] \in Loan /\ LoanOK(loans[l])
  BY DEF BookInv, LoansOK, LoanOK
<1>3. LoanOK(x) /\ x.account = loans[l].account /\ x.debt = loans[l].debt
  BY <1>2 DEF LoanOK, Loan
<1>4. LoansOK' /\ CountersCount'
  BY <1>1, <1>3, ChangeKeepsCounts
<1>5. QED
  BY <1>1, <1>4 DEF BookInv, BookTypeOK, BooksBalance

LEMMA CollateralTopUpKeepsBooks ==
  ASSUME BookInv, NEW l \in LoanIds, NEW value \in Nat, CollateralTopUp(l, value)
  PROVE  BookInv'
<1> DEFINE ratio == CollateralRatio(loans[l].collateral + value, loans[l].debt)
           status == IF ratio >= MCT THEN Open ELSE IF ratio <= LT THEN Liquidated ELSE Warned
           x == [loans[l] EXCEPT !.collateral = @ + value, !.status = status]
<1>1. loans[l] \in Loan /\ LoanOK(loans[l])
  BY DEF BookInv, LoansOK, LoanOK
<1>2. /\ loans' = [loans EXCEPT ![l] = x]
      /\ loans[l].debt > 0
      /\ UNCHANGED <<totalBorrowed, personal, sys>>
  BY <1>1 DEF CollateralTopUp, Loan, BookInv, LoansOK
<1>3. status \in 0..3 /\ status # Cleared
  BY DEF Open, Cleared, Warned, Liquidated
<1> HIDE DEF status
<1>4. LoanOK(x) /\ x.account = loans[l].account /\ x.debt = loans[l].debt
  <2> DEFINE loan == loans[l]
             c == loan.collateral + value
  <2>1. c \in Nat
    BY <1>1 DEF Loan
  <2>2. x = [loan EXCEPT !.collateral = c, !.status = status]
    OBVIOUS
  <2> HIDE DEF loan, c, x
  <2>3. /\ x \in Loan
        /\ x.account = loan.account /\ x.debt = loan.debt
        /\ x.interest = loan.interest /\ x.status = status
    <3>1. loan \in Loan
      BY <1>1 DEF loan
    <3>2. x \in Loan
      BY <1>3, <2>1, <2>2, <3>1 DEF Loan
    <3>3. /\ x.account = loan.account /\ x.debt = loan.debt
          /\ x.interest = loan.interest /\ x.status = status
      BY <2>2, <3>1 DEF Loan
    <3>4. QED
      BY <3>2, <3>3
  <2>4. QED
    BY <1>1, <1>2, <1>3, <2>3 DEF LoanOK, Loan, loan
<1>5. LoansOK' /\ CountersCount'
  BY <1>2, <1>4, ChangeKeepsCounts
<1>6. QED
  BY <1>2, <1>5 DEF BookInv, BookTypeOK, BooksBalance

LEMMA InterestKeepsBooks ==
  ASSUME BookInv, NEW l \in LoanIds, InterestCalculation(l)
  PROVE  BookInv' /\ loans[l].debt > 0
<1> DEFINE loan == loans[l]
           u == loan.account
           p == personal[u]
           interest == DailyInterest(loan.debt)
           debt == loan.debt + interest
           status == StatusAfterInterest(loan.status,
                       CollateralRatio(loan.collateral, debt), loan.IST + 1)
           written == IF status = Liquidated THEN debt ELSE 0
           x == [loan EXCEPT !.interest = @ + interest, !.debt = debt, !.IST = @ + 1,
                             !.status = status]
<1>1. LoanOK(loan) /\ loan \in Loan
  BY DEF BookInv, LoansOK, LoanOK
<1>2. /\ interest \in Nat
      /\ loan.debt = 0 => interest = 0
  BY <1>1, InterestIsNat, NoInterestOnNothing DEF Loan
<1>3. /\ loan.status \notin {Cleared, Liquidated}
      /\ debt > 0
      /\ written <= p.TLA + interest
      /\ written <= totalBorrowed[u] + interest
      /\ loans' = [loans EXCEPT ![l] = x]
      /\ totalBorrowed' = [totalBorrowed EXCEPT ![u] = (@ + interest) - written]
      /\ personal' = [personal EXCEPT ![u].TLA = (@ + interest) - written]
      /\ sys' = [sys EXCEPT !.OLB = @ + interest, !.TLD = @ + interest]
  BY DEF InterestCalculation
<1>4. status \in 0..3 /\ status # Cleared
  BY <1>1, <1>3 DEF StatusAfterInterest, Loan, Cleared, Warned, Liquidated
<1>5. loan.debt > 0 /\ loan.debt \in Nat
  BY <1>1, <1>2, <1>3 DEF Loan
<1> HIDE DEF interest, status
<1>6. written \in Nat
  BY <1>2, <1>5
<1>7. LoanOK(x) /\ x.account = loan.account /\ (x.debt = 0) = (loan.debt = 0)
  <2> DEFINE i == loan.interest + interest
             t == loan.IST + 1
  <2>1. i \in Nat /\ debt \in Nat /\ t \in Nat
    BY <1>1, <1>2 DEF Loan
  <2>2. x = [loan EXCEPT !.interest = i, !.debt = debt, !.IST = t, !.status = status]
    OBVIOUS
  <2> HIDE DEF loan, i, t, debt, x
  <2>3. /\ x \in Loan
        /\ x.account = loan.account /\ x.debt = debt
        /\ x.interest = i /\ x.status = status
    <3>1. x \in Loan
      BY <1>1, <1>4, <2>1, <2>2 DEF Loan
    <3>2. x.account = loan.account /\ x.debt = debt /\ x.interest = i /\ x.status = status
      BY <1>1, <2>2 DEF Loan
    <3>3. QED
      BY <3>1, <3>2
  <2>4. QED
    BY <1>1, <1>2, <1>4, <1>5, <2>3 DEF LoanOK, Loan, i, debt
<1> HIDE DEF written
<1>8. p \in Person /\ u \in Borrowers
  BY <1>1 DEF BookInv, BookTypeOK, Loan
<1>9. (p.TLA + interest) - written \in Nat /\ (totalBorrowed[u] + interest) - written \in Nat
  BY <1>2, <1>3, <1>6, <1>8 DEF BookInv, BookTypeOK, Person
<1>10. PICK q \in Person : /\ personal' = [personal EXCEPT ![u] = q]
                          /\ q.NCL = p.NCL /\ q.TNL = p.TNL
                          /\ q.TLA = (p.TLA + interest) - written /\ q.TRA = p.TRA
  <2> DEFINE tla == (p.TLA + interest) - written
             q == [p EXCEPT !.TLA = tla]
  <2>1. personal' = [personal EXCEPT ![u] = q]
    BY <1>3
  <2>2. tla \in Nat
    BY <1>9
  <2> HIDE DEF p, tla
  <2>3. /\ q \in Person
        /\ q.NCL = p.NCL /\ q.TNL = p.TNL /\ q.TLA = tla /\ q.TRA = p.TRA
    BY <1>8, <2>2 DEF Person
  <2> HIDE DEF q
  <2>4. QED
    BY <2>1, <2>3 DEF tla
<1>11. LoansOK' /\ CountersCount'
  <2>1. \A v \in Borrowers :
          personal'[v].TNL = personal[v].TNL /\ personal'[v].NCL = personal[v].NCL
    BY <1>8, <1>10 DEF BookInv, BookTypeOK
  <2>2. QED
    BY <1>3, <1>7, <2>1, ChangeKeepsCounts
<1>12. BookTypeOK'
  <2>1. totalBorrowed' \in [Borrowers -> Nat]
    BY <1>3, <1>8, <1>9 DEF BookInv, BookTypeOK
  <2>2. personal' \in [Borrowers -> Person]
    BY <1>10 DEF BookInv, BookTypeOK
  <2>3. sys' \in [OLB : Nat, RA : Nat, TLD : Nat]
    <3> DEFINE olb == sys.OLB + interest
               tld == sys.TLD + interest
    <3>1. sys \in [OLB : Nat, RA : Nat, TLD : Nat]
      BY DEF BookInv, BookTypeOK
    <3>2. olb \in Nat /\ tld \in Nat
      BY <1>2, <3>1
    <3>3. sys' = [sys EXCEPT !.OLB = olb, !.TLD = tld]
      BY <1>3
    <3> HIDE DEF olb, tld
    <3>4. QED
      BY <3>1, <3>2, <3>3
  <2>4. QED
    BY <2>1, <2>2, <2>3 DEF BookTypeOK
<1>13. BooksBalance'
  <2>1. sys'.TLD = sys'.OLB + sys'.RA
    BY <1>2, <1>3 DEF BookInv, BookTypeOK, BooksBalance
  <2>2. \A v \in Borrowers : personal'[v].TLA = totalBorrowed'[v] + personal'[v].TRA
    BY <1>2, <1>3, <1>6, <1>8, <1>10 DEF BookInv, BookTypeOK, BooksBalance, Person
  <2>3. QED
    BY <2>1, <2>2 DEF BooksBalance
<1>14. QED
  BY <1>5, <1>11, <1>12, <1>13 DEF BookInv

LEMMA RepayKeepsBooks ==
  ASSUME BookInv, NEW l \in LoanIds, NEW amount \in Nat, Repay(l, amount)
  PROVE  /\ BookInv'
         /\ amount > 0 /\ amount <= loans[l].debt
<1> DEFINE loan == loans[l]
           u == loan.account
           p == personal[u]
           i == IF amount <= loan.interest THEN loan.interest - amount ELSE 0
           d == loan.debt - amount
           c == loan.collateral - UnitToRelease(loan, amount)
           s == IF amount = loan.debt THEN Cleared ELSE loan.status
           tra == p.TRA + amount
           ncl == IF amount = loan.debt THEN p.NCL + 1 ELSE p.NCL
           olb == sys.OLB - amount
           ra == sys.RA + amount
           x == [loan EXCEPT !.interest = i, !.debt = d, !.collateral = c, !.status = s]
           q == [p EXCEPT !.TRA = tra, !.NCL = ncl]
<1>1. loan \in Loan /\ LoanOK(loan)
  BY DEF BookInv, LoansOK, LoanOK
<1>2. /\ amount > 0 /\ amount <= loan.debt
      /\ amount <= totalBorrowed[u]
      /\ amount <= sys.OLB
      /\ loans' = [loans EXCEPT ![l] = x]
      /\ totalBorrowed' = [totalBorrowed EXCEPT ![u] = @ - amount]
      /\ personal' = [personal EXCEPT ![u] = q]
      /\ sys' = [sys EXCEPT !.OLB = olb, !.RA = ra]
  BY DEF Repay, Repaid, CountRepayment
<1>3. u \in Borrowers /\ p \in Person /\ sys \in [OLB : Nat, RA : Nat, TLD : Nat]
  BY <1>1 DEF BookInv, BookTypeOK, Loan
<1>4. /\ UnitToRelease(loan, amount) \in 0..loan.collateral
      /\ amount = loan.debt => UnitToRelease(loan, amount) = loan.collateral
  BY <1>1, <1>2, ReleaseWithinCollateral DEF Loan
<1>5. /\ i \in Nat /\ d \in Nat /\ c \in Nat /\ s \in 0..3
      /\ i <= d
      /\ (d = 0) = (amount = loan.debt)
      /\ amount = loan.debt => c = 0
  BY <1>1, <1>2, <1>4 DEF Loan, LoanOK, Cleared
<1>6. tra \in Nat /\ ncl \in Nat /\ olb \in Nat /\ ra \in Nat
  BY <1>2, <1>3 DEF Person
<1>7. ~Overrides => (s = Cleared) = (d = 0)
  BY <1>1, <1>2, <1>5 DEF LoanOK, Loan
<1>8. LoanOK(x) /\ x.account = u /\ x.debt = d
  <2> HIDE DEF loan, i, d, c, s
  <2>1. x \in Loan
    BY <1>1, <1>5 DEF Loan
  <2>2. x.account = loan.account /\ x.debt = d /\ x.interest = i /\ x.collateral = c /\ x.status = s
    BY <1>1 DEF Loan
  <2> HIDE DEF x
  <2>3. QED
    BY <1>5, <1>7, <2>1, <2>2 DEF LoanOK
<1>9. q \in Person /\ q.NCL = ncl /\ q.TNL = p.TNL /\ q.TLA = p.TLA /\ q.TRA = tra
  <2> HIDE DEF p, tra, ncl
  <2>1. q \in Person
    BY <1>3, <1>6 DEF Person
  <2>2. q.NCL = ncl /\ q.TNL = p.TNL /\ q.TLA = p.TLA /\ q.TRA = tra
    BY <1>3 DEF Person
  <2>3. QED
    BY <2>1, <2>2
<1> HIDE DEF x, q
<1>10. /\ LoansOK'
       /\ LoanIds' = LoanIds
       /\ \A k \in LoanIds : loans'[k] = IF k = l THEN x ELSE loans[k]
       /\ \A v : LoansOf(v)' = LoansOf(v)
  BY <1>2, <1>8, ChangeLoan DEF BookInv
<1>11. CountersCount'
  <2>1. loan.debt # 0
    BY <1>1, <1>2 DEF Loan
  <2>2. ASSUME NEW v
        PROVE  PaidOff(v)' = IF v = u /\ amount = loan.debt THEN PaidOff(v) \cup {l} ELSE PaidOff(v)
    <3>1. \A k \in LoansOf(v) : loans'[k].debt = IF k = l THEN d ELSE loans[k].debt
      BY <1>8, <1>10 DEF LoansOf
    <3>2. l \in LoansOf(v) <=> v = u
      BY DEF LoansOf
    <3>3. QED
      BY <1>5, <1>10, <2>1, <3>1, <3>2 DEF PaidOff
  <2>3. l \notin PaidOff(u)
    BY <2>1 DEF PaidOff
  <2>4. ASSUME NEW v \in Borrowers
        PROVE  /\ personal'[v].TNL = Cardinality(LoansOf(v)')
               /\ personal'[v].NCL = Cardinality(PaidOff(v)')
    <3>1. /\ personal[v].TNL = Cardinality(LoansOf(v)) /\ personal[v].NCL = Cardinality(PaidOff(v))
          /\ IsFiniteSet(PaidOff(v)) /\ Cardinality(PaidOff(v)) \in Nat
      BY LoanIdsAreFinite DEF BookInv, CountersCount, PaidOff, LoansOK
    <3>2. CASE v # u
      BY <3>1, <3>2, <2>2, <1>2, <1>10 DEF BookInv, BookTypeOK
    <3>3. CASE v = u
      <4>1. personal'[v] = q
        BY <3>3, <1>2, <1>3 DEF BookInv, BookTypeOK
      <4>2. Cardinality(PaidOff(v) \cup {l}) = Cardinality(PaidOff(v)) + 1
        BY <3>1, <3>3, <2>3, FS_AddElement
      <4>3. QED
        BY <3>1, <3>3, <4>1, <4>2, <2>2, <1>9, <1>10
    <3>4. QED
      BY <3>2, <3>3
  <2>5. QED
    BY <2>4 DEF CountersCount, PaidOff
<1>12. BookTypeOK'
  <2>1. totalBorrowed' \in [Borrowers -> Nat]
    <3>1. totalBorrowed[u] - amount \in Nat
      BY <1>2, <1>3 DEF BookInv, BookTypeOK
    <3>2. QED
      BY <3>1, <1>2 DEF BookInv, BookTypeOK
  <2>2. personal' \in [Borrowers -> Person]
    BY <1>2, <1>9 DEF BookInv, BookTypeOK
  <2> HIDE DEF olb, ra
  <2>3. sys' \in [OLB : Nat, RA : Nat, TLD : Nat]
    BY <1>2, <1>3, <1>6
  <2>4. QED
    BY <2>1, <2>2, <2>3 DEF BookTypeOK
<1>13. BooksBalance'
  <2>1. sys'.TLD = sys'.OLB + sys'.RA
    BY <1>2, <1>3 DEF BookInv, BooksBalance
  <2>2. ASSUME NEW v \in Borrowers
        PROVE  personal'[v].TLA = totalBorrowed'[v] + personal'[v].TRA
    <3>1. personal[v].TLA = totalBorrowed[v] + personal[v].TRA
      BY DEF BookInv, BooksBalance
    <3>2. CASE v = u
      <4>1. personal'[u].TLA = p.TLA /\ personal'[u].TRA = p.TRA + amount
        BY <1>2, <1>3, <1>9 DEF BookInv, BookTypeOK
      <4>2. totalBorrowed'[u] = totalBorrowed[u] - amount /\ totalBorrowed[u] \in Nat
        BY <1>2, <1>3 DEF BookInv, BookTypeOK
      <4>3. p.TRA \in Nat
        BY <1>3 DEF Person
      <4>4. QED
        BY <3>1, <3>2, <4>1, <4>2, <4>3
    <3>3. CASE v # u
      BY <3>1, <3>3, <1>2 DEF BookInv, BookTypeOK
    <3>4. QED
      BY <3>2, <3>3
  <2>3. QED
    BY <2>1, <2>2 DEF BooksBalance
<1>14. QED
  BY <1>2, <1>10, <1>11, <1>12, <1>13 DEF BookInv

-----------------------------------------------------------------------------
(***************************************************************************)
(* The inductive invariant.                                                *)
(***************************************************************************)

OuterTypeOK ==
  /\ TCashTypeOK
  /\ maxBorrowable \in [Borrowers -> Nat]
  /\ systemRiskFactor \in Nat
  /\ lastSRFCalculationTime \in Nat
  /\ unitBalance \in Nat
  /\ auctionWired \in BOOLEAN
  /\ unitPrice \in UnitPrices
  /\ tcashPrice \in TCashPrices
  /\ tatTotal \in [Borrowers -> TATTotals]
  /\ now \in Nat

LoanInv == BookInv /\ OuterTypeOK

LEMMA InvGivesTypes == LoanInv => LoanStateOK /\ LoanTypeOK
BY DEF LoanInv, BookInv, LoansOK, BookTypeOK, Person, OuterTypeOK, LoanStateOK, LoanTypeOK

LEMMA InitEstablishesLoanInv == LoanSpecInit => LoanInv
<1> SUFFICES ASSUME LoanSpecInit PROVE LoanInv
  OBVIOUS
<1> USE DEF LoanSpecInit, LoanInit
<1>1. LoansOK /\ LoanIds = {}
  BY EmptySeq DEF LoansOK, LoanIds
<1>2. BookTypeOK /\ BooksBalance
  BY DEF BookTypeOK, BooksBalance, Person
<1>3. CountersCount
  <2>1. \A u \in Borrowers : personal[u].TNL = 0 /\ personal[u].NCL = 0
    OBVIOUS
  <2> HIDE DEF LoanInit, LoanSpecInit
  <2>2. \A u : LoansOf(u) = {} /\ {l \in LoansOf(u) : loans[l].debt = 0} = {}
    BY ONLY <1>1 DEF LoansOf
  <2>3. \A u : Cardinality(LoansOf(u)) = 0 /\ Cardinality({l \in LoansOf(u) : loans[l].debt = 0}) = 0
    BY <2>2, FS_EmptySet, Zenon
  <2>4. ASSUME NEW u \in Borrowers
        PROVE  /\ personal[u].TNL = Cardinality(LoansOf(u))
               /\ personal[u].NCL = Cardinality({l \in LoansOf(u) : loans[l].debt = 0})
    BY <2>1, <2>3
  <2>5. QED
    BY <2>4 DEF CountersCount
<1>4. OuterTypeOK
  <2>1. TCashTypeOK
    BY LoanAssumption DEF TCashTypeOK
  <2>2. maxBorrowable \in [Borrowers -> Nat] /\ tatTotal \in [Borrowers -> TATTotals]
    OBVIOUS
  <2>3. /\ systemRiskFactor \in Nat /\ lastSRFCalculationTime \in Nat /\ unitBalance \in Nat
        /\ now \in Nat
    BY DEF BlockTimeInit
  <2>4. /\ auctionWired \in BOOLEAN
        /\ unitPrice \in UnitPrices /\ tcashPrice \in TCashPrices
    BY Zenon
  <2>5. QED
    BY <2>1, <2>2, <2>3, <2>4, Zenon DEF OuterTypeOK
<1>5. QED
  BY <1>1, <1>2, <1>3, <1>4 DEF LoanInv, BookInv

LEMMA BorrowerStepKeepsInv ==
  ASSUME LoanInv, BorrowerStep, UNCHANGED now
  PROVE  LoanInv'
<1> USE LoanAssumption, InvGivesTypes DEF LoanInv
<1>1. ASSUME NEW u \in Borrowers, NEW value \in Values, CreateLoan(u, value)
      PROVE  LoanInv'
  <2> DEFINE amount == LoanAmount(u, value)
  <2>1. value \in Nat \ {0} /\ u \in Accounts
    OBVIOUS
  <2>2. amount \in Nat \ {0}
    BY <2>1, LoanAmountIsPositive
  <2> HIDE DEF amount
  <2>3. /\ RecordLoan(u, amount, value)
        /\ Mint(u, amount)
        /\ maxBorrowable' = [maxBorrowable EXCEPT ![u] = PCL(u)]
        /\ unitBalance' = unitBalance + value
        /\ UNCHANGED <<riskVars, auctionWired, outerVars>>
    BY <1>1 DEF CreateLoan, amount
  <2>4. BookInv'
    BY <2>1, <2>2, <2>3, RecordLoanKeepsBooks
  <2>5. TCashTypeOK'
    BY <2>1, <2>2, <2>3 DEF Mint, OuterTypeOK, TCashTypeOK
  <2>6. PCL(u) \in Nat
    BY PCLIsNat
  <2>7. QED
    BY <2>1, <2>3, <2>4, <2>5, <2>6 DEF OuterTypeOK, riskVars, outerVars
<1>2. ASSUME NEW l \in LoanIds, NEW value \in Values, CollateralTopUp(l, value)
      PROVE  LoanInv'
  <2>1. value \in Nat
    OBVIOUS
  <2>2. BookInv'
    BY <1>2, <2>1, CollateralTopUpKeepsBooks
  <2>3. QED
    BY <1>2, <2>1, <2>2
    DEF CollateralTopUp, OuterTypeOK, riskVars, outerVars, tcashVars, TCashTypeOK
<1>3. ASSUME NEW l \in LoanIds, NEW amount \in RepayAmounts \cup {loans[l].debt},
             Repay(l, amount)
      PROVE  LoanInv'
  <2>1. loans[l] \in Loan
    BY DEF BookInv, LoansOK, LoanOK
  <2>2. amount \in Nat /\ loans[l].account \in Accounts
    BY <2>1 DEF Loan
  <2>3. BookInv' /\ amount > 0 /\ amount <= loans[l].debt
    BY <1>3, <2>2, RepayKeepsBooks
  <2>4. UnitToRelease(loans[l], amount) \in Nat
    BY <2>1, <2>2, <2>3, ReleaseWithinCollateral DEF Loan
  <2>5. /\ BurnFrom(loans[l].account, amount)
        /\ UnitToRelease(loans[l], amount) <= unitBalance
        /\ unitBalance' = unitBalance - UnitToRelease(loans[l], amount)
        /\ UNCHANGED <<maxBorrowable, riskVars, auctionWired, outerVars>>
    BY <1>3 DEF Repay
  <2>6. TCashTypeOK'
    BY <2>2, <2>5 DEF BurnFrom, Burn, OuterTypeOK, TCashTypeOK
  <2>7. unitBalance' \in Nat
    BY <2>4, <2>5 DEF OuterTypeOK
  <2>8. QED
    BY <2>3, <2>5, <2>6, <2>7 DEF OuterTypeOK, riskVars, outerVars
<1>4. ASSUME NEW u \in Borrowers, EvaluateMaxBorrowable(u)
      PROVE  LoanInv'
  <2>1. BookInv'
    BY <1>4 DEF EvaluateMaxBorrowable, BookInv, LoansOK, LoanIds, BookTypeOK, BooksBalance,
                CountersCount, LoansOf
  <2>2. PCL(u) \in Nat
    BY PCLIsNat
  <2>3. QED
    BY <1>4, <2>1, <2>2
    DEF EvaluateMaxBorrowable, OuterTypeOK, riskVars, outerVars, tcashVars, TCashTypeOK
<1>5. QED
  BY <1>1, <1>2, <1>3, <1>4 DEF BorrowerStep

LEMMA OverrideStepKeepsInv ==
  ASSUME LoanInv, OverrideStep, UNCHANGED now
  PROVE  LoanInv'
<1> USE LoanAssumption DEF LoanInv
<1>1. ASSUME NEW u \in Borrowers, NEW amount \in RepayAmounts, NEW value \in Values,
             SetRecord(u, amount, value)
      PROVE  LoanInv'
  <2>1. BookInv'
    BY <1>1, RecordLoanKeepsBooks DEF SetRecord
  <2>2. QED
    BY <1>1, <2>1 DEF SetRecord, OuterTypeOK, riskVars, outerVars, tcashVars, TCashTypeOK
<1>2. ASSUME NEW l \in LoanIds, NEW status \in 0..3, SetLoanStatus(l, status)
      PROVE  LoanInv'
  <2>1. BookInv'
    BY <1>2, SetLoanStatusKeepsBooks DEF OverrideStep
  <2>2. QED
    BY <1>2, <2>1 DEF SetLoanStatus, OuterTypeOK, riskVars, outerVars, tcashVars, TCashTypeOK
<1>3. QED
  BY <1>1, <1>2 DEF OverrideStep

LEMMA InterestKeepsInv ==
  ASSUME LoanInv, NEW l \in LoanIds, InterestCalculation(l), UNCHANGED now
  PROVE  LoanInv'
<1>1. BookInv'
  BY InterestKeepsBooks DEF LoanInv
<1>2. QED
  BY <1>1 DEF LoanInv, InterestCalculation, OuterTypeOK, riskVars, outerVars, tcashVars, TCashTypeOK

LEMMA BooksUntouched ==
  ASSUME BookInv, UNCHANGED <<loans, totalBorrowed, personal, sys>>
  PROVE  BookInv'
BY DEF BookInv, LoansOK, LoanIds, BookTypeOK, BooksBalance, CountersCount, LoansOf

\* The steps that leave the books alone.
LEMMA RiskAndPricesKeepInv ==
  ASSUME LoanInv, GetSRF \/ OuterStep \/ SetAuctionContract, UNCHANGED now
  PROVE  LoanInv'
<1> USE DEF LoanInv
<1>1. BookInv' /\ UNCHANGED <<maxBorrowable, unitBalance, tcashVars>>
  BY BooksUntouched DEF GetSRF, OuterStep, SetAuctionContract, bookVars
<1>2. CASE GetSRF
  BY <1>1, <1>2, SRFIsNat DEF GetSRF, OuterTypeOK, outerVars, tcashVars, TCashTypeOK
<1>3. CASE OuterStep
  BY <1>1, <1>3 DEF OuterStep, OuterTypeOK, riskVars, tcashVars, TCashTypeOK
<1>4. CASE SetAuctionContract
  <2>1. auctionWired' \in BOOLEAN
    BY <1>4, Zenon DEF SetAuctionContract
  <2>2. QED
    BY <1>1, <1>4, <2>1 DEF SetAuctionContract, OuterTypeOK, riskVars, outerVars, tcashVars, TCashTypeOK
<1>5. QED
  BY <1>2, <1>3, <1>4

\* Whatever else happens to the token and the clock.
LEMMA OutsideKeepsInv ==
  ASSUME LoanInv, UNCHANGED loanVars, TCashTypeOK', now' \in Nat
  PROVE  LoanInv'
<1>1. BookInv'
  BY BooksUntouched DEF LoanInv, loanVars, bookVars
<1>2. QED
  BY <1>1 DEF LoanInv, loanVars, bookVars, OuterTypeOK, riskVars, outerVars

\* The oracle locks or unlocks minting.
LEMMA MintStatusKeepsInv ==
  ASSUME LoanInv, SetMintStatus, UNCHANGED loanVars, UNCHANGED now
  PROVE  LoanInv' /\ TCashTypeOK'
<1>1. mintStatus' \in BOOLEAN
  BY Zenon DEF SetMintStatus
<1>2. TCashTypeOK' /\ now' \in Nat
  BY <1>1 DEF LoanInv, OuterTypeOK, TCashTypeOK, SetMintStatus
<1>3. QED
  BY <1>2, OutsideKeepsInv

LEMMA NextKeepsLoanInv ==
  ASSUME LoanInv, [LoanNext]_allLoanVars
  PROVE  LoanInv'
<1>1. CASE BorrowerStep /\ UNCHANGED now
  BY <1>1, BorrowerStepKeepsInv
<1>2. CASE OverrideStep /\ UNCHANGED now
  BY <1>2, OverrideStepKeepsInv
<1>3. ASSUME NEW l \in LoanIds, InterestCalculation(l), UNCHANGED now
      PROVE  LoanInv'
  BY <1>3, InterestKeepsInv
<1>4. CASE (GetSRF \/ OuterStep) /\ UNCHANGED now
  BY <1>4, RiskAndPricesKeepInv
<1>5. CASE SetMintStatus /\ UNCHANGED loanVars /\ UNCHANGED now
  BY <1>5, MintStatusKeepsInv
<1>6. CASE Tick /\ UNCHANGED <<tcashVars, loanVars>>
  BY <1>6, OutsideKeepsInv DEF LoanInv, OuterTypeOK, Tick, tcashVars, TCashTypeOK
<1>7. CASE UNCHANGED allLoanVars
  BY <1>7, OutsideKeepsInv DEF LoanInv, OuterTypeOK, allLoanVars, tcashVars, TCashTypeOK
<1>8. QED
  BY <1>1, <1>2, <1>3, <1>4, <1>5, <1>6, <1>7 DEF LoanNext

-----------------------------------------------------------------------------
(***************************************************************************)
(* The theorems.                                                           *)
(***************************************************************************)

\* The loans, the borrowers' counters, the totals of the system and the outer
\* state stay in the inductive invariant along every run of the loan book.
THEOREM LoanInvariant == LoanSpec => []LoanInv
<1>1. LoanInv /\ [LoanNext]_allLoanVars => LoanInv'
  BY NextKeepsLoanInv
<1>2. QED
  BY InitEstablishesLoanInv, <1>1, PTL DEF LoanSpec

\* Type correctness: no subtraction of TCashLoan.sol or TCash.sol that goes
\* through leaves the natural numbers, whatever was lent and repaid.
THEOREM LoanStateCorrect == LoanSpec => []LoanStateOK
<1>1. LoanInv => LoanStateOK
  BY InvGivesTypes
<1>2. QED
  BY LoanInvariant, <1>1, PTL

\* The system's and the borrowers' books of TCashLoan.sol balance.
THEOREM BooksAlwaysBalance == LoanSpec => []BooksBalance
<1>1. LoanInv => BooksBalance
  BY DEF LoanInv, BookInv
<1>2. QED
  BY LoanInvariant, <1>1, PTL

\* The interest within a loan's debt never exceeds it (repay takes interest
\* first, interestCalculation adds to both).
THEOREM InterestIsWithinDebt == LoanSpec => []InterestWithinDebt
<1>1. LoanInv => InterestWithinDebt
  BY DEF LoanInv, BookInv, LoansOK, LoanOK, InterestWithinDebt
<1>2. QED
  BY LoanInvariant, <1>1, PTL

\* The counters getPRF reads count loans: a loan paid off counts once, whatever
\* its status is set to.
THEOREM CountersAlwaysCount == LoanSpec => []CountersCount
<1>1. LoanInv => CountersCount
  BY DEF LoanInv, BookInv
<1>2. QED
  BY LoanInvariant, <1>1, PTL

\* Without overrides the status of the loan book says which loans are paid off,
\* and rounding leaves no collateral behind (calculateUnitToRelease).
THEOREM ClearedIsPaid == LoanSpec => []ClearedMeansPaid
<1>1. LoanInv => ClearedMeansPaid
  BY DEF LoanInv, BookInv, LoansOK, LoanOK, Loan, ClearedMeansPaid
<1>2. QED
  BY LoanInvariant, <1>1, PTL

\* No handler of the loan book touches a loan that is paid off, except for its
\* status.
THEOREM PaidOffStays == LoanSpec => PaidOffIsFinal
<1> DEFINE Same(l) == loans'[l] = [loans[l] EXCEPT !.status = loans'[l].status]
           Final == \A l \in LoanIds : loans[l].debt = 0 => Same(l)
<1>1. ASSUME LoanInv, [LoanNext]_allLoanVars
      PROVE  [Final]_allLoanVars
  <2>1. loans \in Seq(Loan) /\ BookInv /\ \A l \in LoanIds : loans[l] \in Loan
    BY <1>1 DEF LoanInv, BookInv, LoansOK, LoanOK
  <2>2. ASSUME NEW l \in LoanIds, loans'[l] = loans[l]
        PROVE  Same(l)
    BY <2>1, <2>2 DEF Loan
  <2>3. ASSUME NEW l \in LoanIds, NEW x, loans' = [loans EXCEPT ![l] = x], loans[l].debt > 0
        PROVE  Final
    <3>1. \A k \in LoanIds : k # l => loans'[k] = loans[k]
      BY <2>1, <2>3, LenProperties DEF LoanIds
    <3>2. QED
      BY <2>2, <2>3, <3>1
  <2>4. ASSUME NEW u, NEW amount, NEW collateral, RecordLoan(u, amount, collateral)
        PROVE  Final
    <3>1. \A k \in LoanIds : loans'[k] = loans[k]
      BY <2>1, <2>4, LenProperties DEF RecordLoan, LoanIds
    <3>2. QED
      BY <2>2, <3>1
  <2>5. ASSUME UNCHANGED loans
        PROVE  Final
    BY <2>2, <2>5
  <2>6. ASSUME NEW l \in LoanIds, NEW status \in 0..3, SetLoanStatus(l, status)
        PROVE  Final
    <3>1. \A k \in LoanIds : k # l => loans'[k] = loans[k]
      BY <2>1, <2>6, LenProperties DEF LoanIds, SetLoanStatus
    <3>2. Same(l)
      <4>1. loans'[l] = [loans[l] EXCEPT !.status = status]
        BY <2>1, <2>6, LenProperties DEF LoanIds, SetLoanStatus
      <4>2. loans'[l].status = status
        BY <2>1, <4>1 DEF Loan
      <4>3. QED
        BY <4>1, <4>2
    <3>3. QED
      BY <2>2, <3>1, <3>2
  <2>7. CASE BorrowerStep
    <3>1. ASSUME NEW l \in LoanIds, NEW value, CollateralTopUp(l, value)
          PROVE  Final
      BY <2>3, <3>1 DEF CollateralTopUp
    <3>2. ASSUME NEW l \in LoanIds, NEW amount \in RepayAmounts \cup {loans[l].debt},
                 Repay(l, amount)
          PROVE  Final
      <4>1. amount \in Nat /\ loans[l].debt \in Nat
        BY <2>1, LoanAssumption DEF Loan
      <4>2. loans[l].debt > 0
        BY <4>1, <3>2 DEF Repay
      <4>3. QED
        BY <2>3, <3>2, <4>2 DEF Repay
    <3>3. QED
      BY <2>4, <2>5, <2>7, <3>1, <3>2 DEF BorrowerStep, CreateLoan, EvaluateMaxBorrowable
  <2>8. CASE OverrideStep
    BY <2>4, <2>6, <2>8 DEF OverrideStep, SetRecord
  <2>9. ASSUME NEW l \in LoanIds, InterestCalculation(l)
        PROVE  Final
    <3>1. loans[l].debt > 0
      BY <2>1, <2>9, InterestKeepsBooks
    <3>2. QED
      BY <2>3, <2>9, <3>1 DEF InterestCalculation
  <2>10. QED
    BY <1>1, <2>5, <2>7, <2>8, <2>9
    DEF LoanNext, GetSRF, OuterStep, loanVars, allLoanVars, bookVars
<1>2. QED
  BY LoanInvariant, <1>1, PTL DEF LoanSpec, PaidOffIsFinal

-----------------------------------------------------------------------------
(***************************************************************************)
(* PART 3: LOAN BOOK AND AUCTIONS TOGETHER                                 *)
(***************************************************************************)

\* The inductive invariant of the two contracts together.  The lots are what
\* auctionOver computes with; the loans are what the lots are made of.
LendingInv == LoanInv /\ Inv /\ LotsCanBeSettled

LotOK(a) == a.debt <= a.startValue /\ (~Overrides => a.startValue > 0)

-----------------------------------------------------------------------------
(***************************************************************************)
(* The calls between the contracts.                                        *)
(***************************************************************************)

\* A loan the loan contract puts up for auction.
SellableLoan(loan) == LoanOK(loan) /\ loan.status # Cleared

LEMMA LoanMakesLot ==
  ASSUME NEW loan, SellableLoan(loan)
  PROVE  /\ loan.interest <= loan.debt
         /\ ~Overrides => loan.debt > 0
         /\ [mortgage |-> loan.collateral, debt |-> loan.debt, interest |-> loan.interest]
              \in LotRecord
BY DEF SellableLoan, LoanOK, Loan, LotRecord

\* auctionStart, as startLiquidation and interestCalculation call it.
LEMMA StartKeepsAuctions ==
  ASSUME Inv, LotsCanBeSettled, UNCHANGED <<tcashVars, now>>,
         NEW loan, SellableLoan(loan), AuctionStartFor(loan)
  PROVE  /\ Inv' /\ LotsCanBeSettled'
         /\ SaleOf!SaleNext
<1> DEFINE lot == [mortgage |-> loan.collateral, debt |-> loan.debt, interest |-> loan.interest]
           k == Len(auctionList) + 1
<1>1. /\ lot \in LotRecord /\ lot.debt = loan.debt /\ lot.interest = loan.interest
      /\ lot.mortgage = loan.collateral
      /\ loan.interest <= loan.debt /\ (~Overrides => loan.debt > 0)
  BY LoanMakesLot
<1>2. AuctionStart(lot.mortgage, lot.debt, lot.interest)
  BY <1>1 DEF AuctionStartFor
<1> HIDE DEF lot
<1>3. Inv' /\ SaleOf!SaleNext
  BY <1>1, <1>2, StartInv, StartIsOffer
<1>4. /\ Len(auctionList') = k
      /\ \A n \in Listed : auctionList'[n] = auctionList[n]
      /\ auctionList'[k] =
           [sales |-> lot.mortgage, startValue |-> lot.debt, nowValue |-> lot.debt,
            timeOver |-> now + bidDuration, state |-> 1, debt |-> lot.interest]
  BY <1>1, <1>2, StartTyping DEF Inv
<1>5. Len(auctionList) \in Nat
  BY DEF Inv, TypeOK, AuctionTypeOK
<1>6. LotOK(auctionList'[k])
  BY <1>1, <1>4 DEF LotOK
<1>7. \A n \in Listed : LotOK(auctionList'[n])
  BY <1>4 DEF LotsCanBeSettled, LotOK
<1>8. \A n \in Listed' : n \in Listed \/ n = k
  BY <1>4, <1>5 DEF Listed
<1>9. LotsCanBeSettled'
  BY <1>6, <1>7, <1>8 DEF LotsCanBeSettled, LotOK
<1>10. QED
  BY <1>3, <1>9

\* A step of the auctions that lists nothing keeps the starting prices.
LEMMA LotsStay ==
  ASSUME Inv, LotsCanBeSettled,
         Len(auctionList') = Len(auctionList),
         \A n \in Listed : /\ auctionList'[n].debt = auctionList[n].debt
                           /\ auctionList'[n].startValue = auctionList[n].startValue
  PROVE  LotsCanBeSettled'
<1>1. Listed' = Listed
  BY DEF Listed
<1>2. QED
  BY <1>1 DEF LotsCanBeSettled

\* auctionOver, as getAuction calls it.
LEMMA CollectKeepsLoans ==
  ASSUME LoanInv, Inv, LotsCanBeSettled, UNCHANGED now,
         NEW n \in Listed, NEW u \in Bidders, Collect(n, u)
  PROVE  LoanInv'
<1> DEFINE a == auctionList[n]
           paid == a.debt + (a.startValue - a.debt)
           olb == sys.OLB - paid
           ra == sys.RA + paid
<1>1. a \in Auction
  BY ListedTyping DEF Inv, TypeOK
<1>2. a.sales \in Nat /\ a.debt \in Nat /\ a.startValue \in Nat /\ a.debt <= a.startValue
  BY <1>1 DEF Auction, LotsCanBeSettled
<1>3. paid \in Nat
  BY <1>2
<1>4. /\ a.sales <= unitBalance /\ unitBalance' = unitBalance - a.sales
      /\ paid <= sys.OLB /\ sys' = [sys EXCEPT !.OLB = olb, !.RA = ra]
      /\ UNCHANGED <<loans, maxBorrowable, totalBorrowed, personal, riskVars, auctionWired,
                     outerVars>>
  BY DEF Collect, AuctionOver
<1> HIDE DEF paid, a
<1>5. TCashTypeOK'
  BY GetAuctionTyping DEF Inv, Collect
<1>6. sys \in [OLB : Nat, RA : Nat, TLD : Nat]
  BY DEF LoanInv, BookInv, BookTypeOK
<1>7. olb \in Nat /\ ra \in Nat
  BY <1>3, <1>4, <1>6
<1>8. /\ sys' \in [OLB : Nat, RA : Nat, TLD : Nat]
      /\ sys'.TLD = sys'.OLB + sys'.RA
  <2>1. sys'.TLD = sys.TLD /\ sys'.OLB = olb /\ sys'.RA = ra
    BY <1>4, <1>6
  <2>2. sys.TLD = sys.OLB + sys.RA
    BY DEF LoanInv, BookInv, BooksBalance
  <2>3. sys'.TLD = sys'.OLB + sys'.RA
    BY <2>1, <2>2, <1>3, <1>4, <1>6
  <2> HIDE DEF olb, ra
  <2>4. sys' \in [OLB : Nat, RA : Nat, TLD : Nat]
    BY <1>4, <1>6, <1>7
  <2>5. QED
    BY <2>3, <2>4
<1>9. BookInv'
  BY <1>4, <1>8 DEF LoanInv, BookInv, LoansOK, LoanIds, BookTypeOK, BooksBalance, CountersCount,
                    LoansOf
<1>10. unitBalance' \in Nat
  BY <1>2, <1>4 DEF LoanInv, OuterTypeOK
<1>11. QED
  BY <1>4, <1>5, <1>9, <1>10 DEF LoanInv, OuterTypeOK, riskVars, outerVars

-----------------------------------------------------------------------------
(***************************************************************************)
(* The inductive invariant, and each step as a step of the abstract sale.  *)
(***************************************************************************)

LEMMA InitEstablishesLendingInv == LendingInit => LendingInv /\ SaleOf!SaleInit
<1> SUFFICES ASSUME LendingInit PROVE LendingInv /\ SaleOf!SaleInit
  OBVIOUS
<1>1. LoanSpecInit
  BY Zenon DEF LendingInit, LoanSpecInit
<1>2. LoanInv
  BY <1>1, InitEstablishesLoanInv
<1>3. auctionList = <<>> /\ Listed = {}
  BY DEF LendingInit, AuctionInit, Listed
<1>4. AuctionTypeOK
  BY <1>3, AuctionAssumption DEF LendingInit, AuctionInit, AuctionTypeOK
<1>5. TypeOK
  BY <1>2, <1>4 DEF TypeOK, LoanInv, OuterTypeOK
<1>6. LeaderHoldsPrice /\ SoldIsOver /\ LotsCanBeSettled
  BY <1>3 DEF LeaderHoldsPrice, SoldIsOver, LotsCanBeSettled, LendingInit, AuctionInit
<1>7. SaleOf!SaleInit
  BY <1>3 DEF SaleOf!SaleInit, Stage, Price, LendingInit, AuctionInit
<1>8. QED
  BY <1>2, <1>5, <1>6, <1>7 DEF LendingInv, Inv

\* What the auctions promise does not depend on the loan book's state.
LEMMA AuctionsUntouched ==
  ASSUME Inv, LotsCanBeSettled, UNCHANGED <<auctionVars, now>>, TCashTypeOK'
  PROVE  Inv' /\ LotsCanBeSettled' /\ SameSale
<1>1. UNCHANGED <<auctionList, bider, bidValue, bidDuration, now>> /\ Listed' = Listed
  BY DEF auctionVars, Listed
<1>2. Inv' /\ LotsCanBeSettled'
  BY <1>1 DEF Inv, TypeOK, AuctionTypeOK, LeaderHoldsPrice, SoldIsOver, LotsCanBeSettled
<1>3. \A n \in AuctionIds : Stage(n)' = Stage(n) /\ Price(n)' = Price(n)
  BY <1>1 DEF Stage, Price
<1>4. QED
  BY <1>1, <1>2, <1>3 DEF SameSale, StageMap, PriceMap

LEMMA LoanSideStep ==
  ASSUME LendingInv, LoanSide, UNCHANGED now
  PROVE  LendingInv' /\ (SaleOf!SaleNext \/ SameSale)
<1> USE DEF LendingInv
<1>1. ASSUME LoanInv', UNCHANGED auctionVars
      PROVE  LendingInv' /\ SameSale
  BY <1>1, AuctionsUntouched DEF LoanInv, OuterTypeOK
<1>2. CASE (BorrowerStep \/ OverrideStep \/ GetSRF \/ OuterStep \/ SetAuctionContract)
             /\ UNCHANGED auctionVars
  BY <1>1, <1>2, BorrowerStepKeepsInv, OverrideStepKeepsInv, RiskAndPricesKeepInv
<1>3. ASSUME NEW l \in LoanIds, InterestPass(l)
      PROVE  LendingInv' /\ (SaleOf!SaleNext \/ SameSale)
  <2>1. LoanInv'
    BY <1>3, InterestKeepsInv DEF InterestPass
  <2>2. UNCHANGED tcashVars
    BY <1>3 DEF InterestPass, InterestCalculation
  <2>3. CASE UNCHANGED auctionVars
    BY <2>1, <2>3, <1>1
  <2>4. CASE loans'[l].status = Liquidated /\ AuctionStartFor(loans'[l])
    <3>1. l \in LoanIds'
      <4>1. LoansOK /\ loans \in Seq(Loan)
        BY DEF LoanInv, BookInv, LoansOK
      <4>2. Len(loans') = Len(loans)
        BY <1>3, <4>1 DEF InterestPass, InterestCalculation
      <4>3. QED
        BY <4>2 DEF LoanIds
    <3>2. SellableLoan(loans'[l])
      BY <2>1, <2>4, <3>1 DEF LoanInv, BookInv, LoansOK, SellableLoan, Liquidated, Cleared
    <3>3. QED
      BY <2>1, <2>2, <2>4, <3>2, StartKeepsAuctions
  <2>5. QED
    BY <1>3, <2>3, <2>4 DEF InterestPass
<1>4. ASSUME NEW l \in LoanIds, StartLiquidation(l)
      PROVE  LendingInv' /\ SaleOf!SaleNext
  <2>1. SellableLoan(loans[l])
    BY <1>4 DEF StartLiquidation, SellableLoan, LoanInv, BookInv, LoansOK
  <2>2. LoanInv'
    BY <1>4, OutsideKeepsInv DEF StartLiquidation, LoanInv, OuterTypeOK, tcashVars, TCashTypeOK
  <2>3. QED
    BY <1>4, <2>1, <2>2, StartKeepsAuctions DEF StartLiquidation
<1>5. CASE SetMintStatus /\ UNCHANGED <<auctionVars, loanVars>>
  BY <1>1, <1>5, MintStatusKeepsInv
<1>6. QED
  BY <1>2, <1>3, <1>4, <1>5 DEF LoanSide

LEMMA AuctionSideStep ==
  ASSUME LendingInv, AuctionSide, UNCHANGED now
  PROVE  LendingInv' /\ (SaleOf!SaleNext \/ SameSale)
<1> USE DEF LendingInv
<1>1. Inv' /\ (SaleOf!SaleNext \/ SameSale)
  <2>1. AuctionNext
    BY DEF AuctionSide, AuctionNext, AuctionStep, Collect, loanVars, bookVars
  <2>2. QED
    BY <2>1, InvStep, SaleStep DEF SameSale, StageMap, PriceMap, SaleOf!saleVars
<1>2. LotsCanBeSettled'
  <2>1. ASSUME NEW n \in Listed, NEW u \in Bidders, NEW amount \in Amounts, Bid(n, u, amount)
        PROVE  LotsCanBeSettled'
    <3>1. \A i \in Listed : auctionList[i] \in Auction
      BY ListedTyping DEF Inv, TypeOK
    <3>2. /\ Len(auctionList') = Len(auctionList)
          /\ \A i \in Listed : auctionList'[i] =
               IF i = n THEN [auctionList[n] EXCEPT !.nowValue = bidValue[n][u] + amount]
                        ELSE auctionList[i]
      BY <2>1, BidTyping DEF Inv
    <3>3. QED
      BY <3>1, <3>2, LotsStay DEF Auction
  <2>2. ASSUME NEW n \in Listed, NEW u \in Bidders, GetAuction(n, u)
        PROVE  LotsCanBeSettled'
    <3>1. \A i \in Listed : auctionList[i] \in Auction
      BY ListedTyping DEF Inv, TypeOK
    <3>2. /\ Len(auctionList') = Len(auctionList)
          /\ \A i \in Listed : auctionList'[i] =
               IF i = n THEN [auctionList[n] EXCEPT !.state = 2] ELSE auctionList[i]
      BY <2>2, GetAuctionTyping DEF Inv
    <3>3. \A a \in Auction : LET b == [a EXCEPT !.state = 2]
                           IN  b.debt = a.debt /\ b.startValue = a.startValue
      BY DEF Auction
    <3>4. \A i \in Listed : /\ auctionList'[i].debt = auctionList[i].debt
                            /\ auctionList'[i].startValue = auctionList[i].startValue
      BY <3>1, <3>2, <3>3, Zenon
    <3>5. QED
      BY <3>2, <3>4, LotsStay
  <2>3. CASE UpgradeState
    <3>1. \A i \in Listed : auctionList[i] \in Auction
      BY ListedTyping DEF Inv, TypeOK
    <3>2. Len(auctionList') = Len(auctionList)
      BY <2>3, UpgradeTyping DEF Inv
    <3>3. \A n \in Listed : auctionList'[n] = IF auctionList[n].timeOver < now /\ bider[n] = NoOne
                                             THEN [auctionList[n] EXCEPT !.timeOver = now + bidDuration]
                                             ELSE auctionList[n]
      BY <2>3 DEF UpgradeState
    <3>4. QED
      BY <3>1, <3>2, <3>3, LotsStay DEF Auction
  <2>4. CASE UNCHANGED auctionList
    BY <2>4 DEF LotsCanBeSettled, Listed
  <2>5. QED
    BY <2>1, <2>2, <2>3, <2>4 DEF AuctionSide, Collect, BidWithdrawal, UpdateBidDuration,
                                   TokenStep, auctionVars
<1>3. LoanInv'
  <2>1. CASE UNCHANGED loanVars
    <3>1. TCashTypeOK' /\ now' \in Nat
      BY <1>1 DEF Inv, TypeOK
    <3>2. QED
      BY <2>1, <3>1, OutsideKeepsInv
  <2>2. ASSUME NEW n \in Listed, NEW u \in Bidders, Collect(n, u)
        PROVE  LoanInv'
    BY <2>2, CollectKeepsLoans
  <2>3. QED
    BY <2>1, <2>2 DEF AuctionSide
<1>4. QED
  BY <1>1, <1>2, <1>3

LEMMA LendingStep ==
  LendingInv /\ [LendingNext]_lendingVars => LendingInv' /\ [SaleOf!SaleNext]_SaleOf!saleVars
<1> SUFFICES ASSUME LendingInv, [LendingNext]_lendingVars
             PROVE  LendingInv' /\ (SaleOf!SaleNext \/ SameSale)
  BY DEF SameSale, StageMap, PriceMap, SaleOf!saleVars
<1>1. CASE (LoanSide \/ AuctionSide) /\ UNCHANGED now
  BY <1>1, LoanSideStep, AuctionSideStep
<1>2. CASE Tick /\ UNCHANGED <<tcashVars, auctionVars, loanVars>>
  <2>1. Inv' /\ SaleOf!SaleNext
    BY <1>2, InvStep, TickIsHammer DEF AuctionNext, LendingInv
  <2>2. LoanInv'
    BY <1>2, <2>1, OutsideKeepsInv DEF LendingInv, Inv, TypeOK
  <2>3. LotsCanBeSettled'
    BY <1>2 DEF LendingInv, LotsCanBeSettled, Listed, auctionVars
  <2>4. QED
    BY <2>1, <2>2, <2>3 DEF LendingInv
<1>3. CASE UNCHANGED lendingVars
  <2>1. UNCHANGED <<loanVars, auctionVars, now>> /\ TCashTypeOK' /\ now' \in Nat
    BY <1>3 DEF lendingVars, LendingInv, LoanInv, OuterTypeOK, tcashVars, TCashTypeOK
  <2>2. QED
    BY <2>1, OutsideKeepsInv, AuctionsUntouched DEF LendingInv
<1>4. QED
  BY <1>1, <1>2, <1>3 DEF LendingNext

-----------------------------------------------------------------------------
(***************************************************************************)
(* Reconciliation: sums over the loans and over the auctions collected.    *)
(* Every call moves the sum over the loans and the total it stands against *)
(* by the same amount, except a collection, which moves the total and the  *)
(* sum over the auctions.                                                  *)
(***************************************************************************)

DebtOf == [l \in LoanIds |-> loans[l].debt]
CollateralOf == [l \in LoanIds |-> loans[l].collateral]
PriceOf == [n \in Listed |-> auctionList[n].startValue]
UnitsOf == [n \in Listed |-> auctionList[n].sales]

\* A loan more, or a loan changed, moves the sums by that loan.
LEMMA AddedLoanAdds ==
  ASSUME loans \in Seq(Loan), NEW x \in Loan, loans' = Append(loans, x)
  PROVE  /\ Debts(LoanIds)' = Debts(LoanIds) + x.debt
         /\ Collateral(LoanIds)' = Collateral(LoanIds) + x.collateral
<1> DEFINE n == Len(loans)
<1>1. /\ n \in Nat /\ Len(loans') = n + 1
      /\ \A l \in 1..n : loans'[l] = loans[l]
      /\ loans'[n + 1] = x
  BY LenProperties, AppendProperties
<1>2. \A l \in 1..n : loans[l] \in Loan
  BY ElementOfSeq
<1>3. LoanIds = 1..n /\ LoanIds' = 1..(n + 1)
  BY <1>1 DEF LoanIds
<1> HIDE DEF n
<1>4. /\ \A l \in 1..n : /\ DebtOf[l] \in Int /\ DebtOf'[l] = DebtOf[l]
                         /\ CollateralOf[l] \in Int /\ CollateralOf'[l] = CollateralOf[l]
      /\ DebtOf'[n + 1] = x.debt /\ CollateralOf'[n + 1] = x.collateral
      /\ x.debt \in Int /\ x.collateral \in Int
  <2>1. \A r \in Loan : r.debt \in Int /\ r.collateral \in Int
    BY DEF Loan
  <2>2. /\ \A l \in 1..n : DebtOf[l] = loans[l].debt /\ CollateralOf[l] = loans[l].collateral
        /\ \A l \in 1..(n + 1) : /\ DebtOf'[l] = loans'[l].debt
                                 /\ CollateralOf'[l] = loans'[l].collateral
    BY <1>3, Zenon DEF DebtOf, CollateralOf
  <2>3. n + 1 \in 1..(n + 1) /\ 1..n \subseteq 1..(n + 1)
    BY <1>1
  <2>4. \A l \in 1..n : /\ DebtOf[l] \in Int /\ DebtOf'[l] = DebtOf[l]
                        /\ CollateralOf[l] \in Int /\ CollateralOf'[l] = CollateralOf[l]
    <3>1. TAKE l \in 1..n
    <3>2. loans[l] \in Loan /\ loans'[l] = loans[l] /\ l \in 1..(n + 1)
      BY <1>1, <1>2, <2>3, Zenon
    <3>3. QED
      BY <2>1, <2>2, <3>1, <3>2, Zenon
  <2>5. QED
    BY <1>1, <2>1, <2>2, <2>3, <2>4, Zenon
<1>5. SumFunctionOnSet(DebtOf', 1..(n + 1)) = SumFunctionOnSet(DebtOf, 1..n) + x.debt
  BY <1>1, <1>4, SumOfOneMore
<1>6. SumFunctionOnSet(CollateralOf', 1..(n + 1)) = SumFunctionOnSet(CollateralOf, 1..n) + x.collateral
  BY <1>1, <1>4, SumOfOneMore
<1>7. QED
  BY <1>3, <1>5, <1>6 DEF Debts, Collateral, DebtOf, CollateralOf

LEMMA PositionsAreFinite == \A n \in Nat : IsFiniteSet(1..n)
BY FS_Interval

LEMMA LoansAreFinite ==
  ASSUME loans \in Seq(Loan)
  PROVE  IsFiniteSet(LoanIds) /\ \A l \in LoanIds : loans[l] \in Loan
<1>1. Len(loans) \in Nat
  OBVIOUS
<1>2. IsFiniteSet(1..Len(loans))
  BY <1>1, PositionsAreFinite, Zenon
<1>3. QED
  BY <1>2, ElementOfSeq DEF LoanIds

LEMMA ChangedLoanMoves ==
  ASSUME loans \in Seq(Loan), loans' \in Seq(Loan), Len(loans') = Len(loans),
         NEW l \in LoanIds, \A k \in LoanIds \ {l} : loans'[k] = loans[k]
  PROVE  /\ Debts(LoanIds)' = Debts(LoanIds) + loans'[l].debt - loans[l].debt
         /\ Collateral(LoanIds)' = Collateral(LoanIds) + loans'[l].collateral - loans[l].collateral
<1>1. IsFiniteSet(LoanIds)
  BY LoansAreFinite
<1>2. \A k \in LoanIds : loans[k] \in Loan
  BY ElementOfSeq DEF LoanIds
<1>3. LoanIds' = LoanIds
  BY DEF LoanIds
<1>4. \A k \in LoanIds : loans'[k] \in Loan
  BY ElementOfSeq DEF LoanIds
<1>5. \A k \in LoanIds : /\ DebtOf[k] = loans[k].debt /\ DebtOf'[k] = loans'[k].debt
                         /\ CollateralOf[k] = loans[k].collateral
                         /\ CollateralOf'[k] = loans'[k].collateral
  BY <1>3 DEF DebtOf, CollateralOf
<1>6. \A k \in LoanIds : /\ loans[k].debt \in Int /\ loans'[k].debt \in Int
                         /\ loans[k].collateral \in Int /\ loans'[k].collateral \in Int
  <2>1. \A r \in Loan : r.debt \in Int /\ r.collateral \in Int
    BY DEF Loan
  <2>2. QED
    BY <1>2, <1>4, <2>1
<1>7. /\ \A k \in LoanIds : DebtOf[k] \in Int /\ DebtOf'[k] \in Int
      /\ \A k \in LoanIds \ {l} : DebtOf[k] = DebtOf'[k]
  BY <1>5, <1>6
<1>8. /\ \A k \in LoanIds : CollateralOf[k] \in Int /\ CollateralOf'[k] \in Int
      /\ \A k \in LoanIds \ {l} : CollateralOf[k] = CollateralOf'[k]
  BY <1>5, <1>6
<1>9. SumFunctionOnSet(DebtOf', LoanIds)
        = SumFunctionOnSet(DebtOf, LoanIds) + DebtOf'[l] - DebtOf[l]
  BY <1>1, <1>7, SumChange
<1>10. SumFunctionOnSet(CollateralOf', LoanIds)
        = SumFunctionOnSet(CollateralOf, LoanIds) + CollateralOf'[l] - CollateralOf[l]
  BY <1>1, <1>8, SumChange
<1>11. /\ Debts(LoanIds) = SumFunctionOnSet(DebtOf, LoanIds)
       /\ Debts(LoanIds)' = SumFunctionOnSet(DebtOf', LoanIds')
       /\ Collateral(LoanIds) = SumFunctionOnSet(CollateralOf, LoanIds)
       /\ Collateral(LoanIds)' = SumFunctionOnSet(CollateralOf', LoanIds')
  BY DEF Debts, Collateral, DebtOf, CollateralOf
<1>12. QED
  BY <1>3, <1>5, <1>9, <1>10, <1>11

LEMMA LoanSumsAreInts ==
  ASSUME loans \in Seq(Loan)
  PROVE  Debts(LoanIds) \in Int /\ Collateral(LoanIds) \in Int
<1>1. IsFiniteSet(LoanIds) /\ \A l \in LoanIds : loans[l] \in Loan
  BY LoansAreFinite
<1>2. \A l \in LoanIds : DebtOf[l] \in Int /\ CollateralOf[l] \in Int
  BY <1>1 DEF DebtOf, CollateralOf, Loan
<1>3. SumFunctionOnSet(DebtOf, LoanIds) \in Int /\ SumFunctionOnSet(CollateralOf, LoanIds) \in Int
  BY <1>1, <1>2, SumIsInt
<1>4. QED
  BY <1>3 DEF Debts, Collateral, DebtOf, CollateralOf

LEMMA SoldIsFinite ==
  ASSUME TypeOK
  PROVE  /\ IsFiniteSet(Listed) /\ IsFiniteSet(Sold)
         /\ \A n \in Listed : PriceOf[n] \in Nat /\ UnitsOf[n] \in Nat
         /\ SoldFor \in Nat /\ SoldUnits \in Nat
<1>1. IsFiniteSet(Listed) /\ \A n \in Listed : auctionList[n] \in Auction
  <2>1. Len(auctionList) \in Nat
    BY DEF TypeOK, AuctionTypeOK
  <2>2. IsFiniteSet(1..Len(auctionList))
    BY <2>1, PositionsAreFinite, Zenon
  <2>3. QED
    BY <2>2, ListedTyping DEF TypeOK, Listed
<1>2. IsFiniteSet(Sold)
  BY <1>1, FS_Subset DEF Sold
<1>3. \A n \in Listed : PriceOf[n] \in Nat /\ UnitsOf[n] \in Nat
  BY <1>1 DEF PriceOf, UnitsOf, Auction
<1>4. SumFunctionOnSet(PriceOf, Sold) \in Nat /\ SumFunctionOnSet(UnitsOf, Sold) \in Nat
  BY <1>2, <1>3, SumIsNat DEF Sold
<1>5. QED
  BY <1>1, <1>2, <1>3, <1>4 DEF SoldFor, SoldUnits, PriceOf, UnitsOf

\* Whatever does not collect keeps what was sold.
LEMMA NothingSold ==
  ASSUME TypeOK, Sold' = Sold, Listed \subseteq Listed',
         \A n \in Sold : /\ auctionList'[n].startValue = auctionList[n].startValue
                         /\ auctionList'[n].sales = auctionList[n].sales
  PROVE  SoldFor' = SoldFor /\ SoldUnits' = SoldUnits
<1>1. \A n \in Sold : PriceOf'[n] = PriceOf[n] /\ UnitsOf'[n] = UnitsOf[n]
  BY DEF PriceOf, UnitsOf, Sold
<1>2. /\ SumFunctionOnSet(PriceOf', Sold) = SumFunctionOnSet(PriceOf, Sold)
      /\ SumFunctionOnSet(UnitsOf', Sold) = SumFunctionOnSet(UnitsOf, Sold)
  BY <1>1, SoldIsFinite, SumSame
<1>3. QED
  BY <1>2 DEF SoldFor, SoldUnits, PriceOf, UnitsOf

\* A collection adds its lot to what was sold (getAuction).
LEMMA CollectedIsSold ==
  ASSUME TypeOK, NEW n \in Listed, NEW u \in Bidders, GetAuction(n, u)
  PROVE  /\ SoldFor' = SoldFor + auctionList[n].startValue
         /\ SoldUnits' = SoldUnits + auctionList[n].sales
<1>1. /\ Listed' = Listed
      /\ \A i \in Listed : auctionList[i] \in Auction
      /\ \A i \in Listed : auctionList'[i] =
           IF i = n THEN [auctionList[n] EXCEPT !.state = 2] ELSE auctionList[i]
  BY GetAuctionTyping, ListedTyping DEF Listed, TypeOK
<1>2. auctionList[n].state # 2
  BY DEF GetAuction
<1>3. /\ Sold' = Sold \cup {n} /\ n \notin Sold
      /\ \A i \in Listed : PriceOf'[i] = PriceOf[i] /\ UnitsOf'[i] = UnitsOf[i]
      /\ PriceOf[n] = auctionList[n].startValue /\ UnitsOf[n] = auctionList[n].sales
  BY <1>1, <1>2 DEF Sold, PriceOf, UnitsOf, Auction
<1>4. /\ IsFiniteSet(Sold)
      /\ \A i \in Sold \cup {n} : PriceOf'[i] \in Int
      /\ \A i \in Sold \cup {n} : UnitsOf'[i] \in Int
  BY <1>3, SoldIsFinite DEF Sold
<1>5. /\ SumFunctionOnSet(PriceOf', Sold) = SumFunctionOnSet(PriceOf, Sold)
      /\ SumFunctionOnSet(UnitsOf', Sold) = SumFunctionOnSet(UnitsOf, Sold)
  BY <1>3, <1>4, SumSame DEF Sold
<1>6. /\ SumFunctionOnSet(PriceOf', Sold \cup {n}) = PriceOf'[n] + SumFunctionOnSet(PriceOf', Sold)
      /\ SumFunctionOnSet(UnitsOf', Sold \cup {n}) = UnitsOf'[n] + SumFunctionOnSet(UnitsOf', Sold)
  BY <1>3, <1>4, SumWith
<1>7. /\ SoldFor = SumFunctionOnSet(PriceOf, Sold) /\ SoldUnits = SumFunctionOnSet(UnitsOf, Sold)
      /\ SoldFor' = SumFunctionOnSet(PriceOf', Sold') /\ SoldUnits' = SumFunctionOnSet(UnitsOf', Sold')
  BY DEF SoldFor, SoldUnits, PriceOf, UnitsOf
<1>8. QED
  BY <1>3, <1>5, <1>6, <1>7, SoldIsFinite

\* A call that moves what is owed by the loans and the outstanding total alike,
\* and the UNIT they claim and the UNIT in the contract alike.
SameGap ==
  /\ Debts(LoanIds)' = Debts(LoanIds) + (sys'.OLB - sys.OLB)
  /\ ~Overrides => Collateral(LoanIds)' = Collateral(LoanIds) + (unitBalance' - unitBalance)

\* _setRecord adds one loan to both sides.
LEMMA RecordMovesBoth ==
  ASSUME BookInv, NEW u \in Borrowers, NEW amount \in Nat \ {0}, NEW collateral \in Nat,
         RecordLoan(u, amount, collateral)
  PROVE  /\ Debts(LoanIds)' = Debts(LoanIds) + (sys'.OLB - sys.OLB)
         /\ Collateral(LoanIds)' = Collateral(LoanIds) + collateral
<1> DEFINE interest == DailyInterest(amount)
           debt == amount + interest
           x == [account |-> u, collateral |-> collateral, debt |-> debt,
                 interest |-> interest, IST |-> 1, status |-> Open]
<1>1. interest \in Nat
  BY InterestIsNat
<1> HIDE DEF interest
<1>2. /\ loans' = Append(loans, x)
      /\ sys' = [sys EXCEPT !.OLB = @ + debt, !.TLD = @ + debt]
  BY DEF RecordLoan, interest
<1>3. x \in Loan /\ x.debt = debt /\ x.collateral = collateral
  BY <1>1 DEF Loan, Open
<1>4. loans \in Seq(Loan)
  BY DEF BookInv, LoansOK
<1> HIDE DEF x
<1>5. /\ Debts(LoanIds)' = Debts(LoanIds) + debt
      /\ Collateral(LoanIds)' = Collateral(LoanIds) + collateral
  BY <1>2, <1>3, <1>4, AddedLoanAdds
<1>6. sys'.OLB = sys.OLB + debt /\ sys.OLB \in Nat
  BY <1>2 DEF BookInv, BookTypeOK
<1>7. debt \in Nat /\ Debts(LoanIds) \in Int
  BY <1>1, <1>4, LoanSumsAreInts
<1>8. QED
  BY <1>5, <1>6, <1>7

\* A call that changes one loan, and the totals by what it changes in the loan.
LEMMA ChangeKeepsGap ==
  ASSUME BookInv, BookInv', unitBalance \in Nat, NEW l \in LoanIds, NEW x,
         loans' = [loans EXCEPT ![l] = x],
         sys'.OLB = sys.OLB + x.debt - loans[l].debt,
         ~Overrides => unitBalance' = unitBalance + x.collateral - loans[l].collateral
  PROVE  SameGap
<1>1. loans \in Seq(Loan) /\ loans' \in Seq(Loan)
  BY DEF BookInv, LoansOK
<1>2. /\ Len(loans') = Len(loans) /\ loans'[l] = x
      /\ \A k \in LoanIds \ {l} : loans'[k] = loans[k]
  BY <1>1 DEF LoanIds
<1>3. /\ Debts(LoanIds)' = Debts(LoanIds) + x.debt - loans[l].debt
      /\ Collateral(LoanIds)' = Collateral(LoanIds) + x.collateral - loans[l].collateral
  BY <1>1, <1>2, ChangedLoanMoves
<1>4. loans[l] \in Loan /\ x \in Loan
  <2>1. l \in LoanIds'
    BY <1>2 DEF LoanIds
  <2>2. QED
    BY <1>2, <2>1 DEF BookInv, LoansOK, LoanOK
<1>5. /\ loans[l].debt \in Nat /\ loans[l].collateral \in Nat
      /\ x.debt \in Nat /\ x.collateral \in Nat
      /\ sys.OLB \in Nat
      /\ Debts(LoanIds) \in Int /\ Collateral(LoanIds) \in Int
  BY <1>1, <1>4, LoanSumsAreInts DEF Loan, BookInv, BookTypeOK
<1>6. QED
  BY <1>3, <1>5 DEF SameGap

LEMMA UntouchedKeepsGap ==
  ASSUME LoanInv, UNCHANGED <<loans, sys, unitBalance>>
  PROVE  SameGap
<1>1. Debts(LoanIds)' = Debts(LoanIds) /\ Collateral(LoanIds)' = Collateral(LoanIds)
  BY DEF Debts, Collateral, LoanIds
<1>2. /\ Debts(LoanIds) \in Int /\ Collateral(LoanIds) \in Int
      /\ sys.OLB \in Nat /\ unitBalance \in Nat
  BY LoanSumsAreInts DEF LoanInv, BookInv, LoansOK, BookTypeOK, OuterTypeOK
<1>3. QED
  BY <1>1, <1>2 DEF SameGap

LEMMA BorrowerStepKeepsGap ==
  ASSUME LoanInv, LoanInv', BorrowerStep
  PROVE  SameGap
<1> USE LoanAssumption DEF LoanInv
<1>1. ASSUME NEW u \in Borrowers, NEW value \in Values, CreateLoan(u, value)
      PROVE  SameGap
  <2> DEFINE amount == LoanAmount(u, value)
  <2>1. value \in Nat \ {0}
    OBVIOUS
  <2>2. amount \in Nat \ {0}
    BY <2>1, InvGivesTypes, LoanAmountIsPositive
  <2>3. RecordLoan(u, amount, value) /\ unitBalance' = unitBalance + value
    BY <1>1 DEF CreateLoan
  <2> HIDE DEF amount
  <2>4. /\ Debts(LoanIds)' = Debts(LoanIds) + (sys'.OLB - sys.OLB)
        /\ Collateral(LoanIds)' = Collateral(LoanIds) + value
    BY <2>1, <2>2, <2>3, RecordMovesBoth
  <2>5. Collateral(LoanIds) \in Int /\ unitBalance \in Nat
    BY LoanSumsAreInts DEF BookInv, LoansOK, OuterTypeOK
  <2>6. QED
    BY <2>1, <2>3, <2>4, <2>5 DEF SameGap
<1>2. ASSUME NEW l \in LoanIds, NEW value \in Values, CollateralTopUp(l, value)
      PROVE  SameGap
  <2> DEFINE ratio == CollateralRatio(loans[l].collateral + value, loans[l].debt)
             status == IF ratio >= MCT THEN Open ELSE IF ratio <= LT THEN Liquidated ELSE Warned
             c == loans[l].collateral + value
             x == [loans[l] EXCEPT !.collateral = c, !.status = status]
  <2>1. loans[l] \in Loan /\ loans \in Seq(Loan)
    BY DEF BookInv, LoansOK, LoanOK
  <2>2. /\ loans' = [loans EXCEPT ![l] = x]
        /\ sys' = sys /\ unitBalance' = unitBalance + value
    BY <1>2, <2>1 DEF CollateralTopUp, Loan
  <2>3. x.debt = loans[l].debt /\ x.collateral = loans[l].collateral + value
    BY <2>1 DEF Loan
  <2>4. sys.OLB \in Nat /\ loans[l].debt \in Nat /\ loans[l].collateral \in Nat
        /\ value \in Nat /\ unitBalance \in Nat
    BY <2>1 DEF Loan, BookInv, BookTypeOK, OuterTypeOK
  <2> HIDE DEF x
  <2>5. /\ sys'.OLB = sys.OLB + x.debt - loans[l].debt
        /\ unitBalance' = unitBalance + x.collateral - loans[l].collateral
    BY <2>2, <2>3, <2>4
  <2>6. QED
    BY <2>2, <2>4, <2>5, ChangeKeepsGap
<1>3. ASSUME NEW l \in LoanIds, NEW amount \in RepayAmounts \cup {loans[l].debt},
             Repay(l, amount)
      PROVE  SameGap
  <2> DEFINE x == Repaid(loans[l], amount)
             units == UnitToRelease(loans[l], amount)
  <2>1. loans[l] \in Loan
    BY DEF BookInv, LoansOK, LoanOK
  <2>2. amount \in Nat
    BY <2>1 DEF Loan
  <2>3. /\ amount > 0 /\ amount <= loans[l].debt
        /\ loans' = [loans EXCEPT ![l] = x]
        /\ sys' = [sys EXCEPT !.OLB = @ - amount, !.RA = @ + amount]
        /\ unitBalance' = unitBalance - units
    BY <1>3 DEF Repay
  <2>4. units \in Nat
    BY <2>1, <2>2, <2>3, ReleaseWithinCollateral DEF Loan
  <2>5. x.debt = loans[l].debt - amount /\ x.collateral = loans[l].collateral - units
    BY <2>1 DEF Loan, Repaid
  <2>6. sys.OLB \in Nat /\ loans[l].debt \in Nat /\ loans[l].collateral \in Nat
        /\ unitBalance \in Nat
    BY <2>1 DEF Loan, BookInv, BookTypeOK, OuterTypeOK
  <2>7. sys'.OLB = sys.OLB - amount
    BY <2>3 DEF BookInv, BookTypeOK
  <2> HIDE DEF x, units
  <2>8. /\ sys'.OLB = sys.OLB + x.debt - loans[l].debt
        /\ unitBalance' = unitBalance + x.collateral - loans[l].collateral
    BY <2>2, <2>3, <2>4, <2>5, <2>6, <2>7
  <2>9. QED
    BY <2>3, <2>6, <2>8, ChangeKeepsGap
<1>4. ASSUME NEW u \in Borrowers, EvaluateMaxBorrowable(u)
      PROVE  SameGap
  BY <1>4, UntouchedKeepsGap DEF EvaluateMaxBorrowable
<1>5. QED
  BY <1>1, <1>2, <1>3, <1>4 DEF BorrowerStep

\* The overrides of the foundation manager move no UNIT: only the debts follow.
LEMMA OverrideStepKeepsGap ==
  ASSUME LoanInv, LoanInv', OverrideStep
  PROVE  SameGap
<1> USE LoanAssumption DEF LoanInv
<1>1. ASSUME NEW u \in Borrowers, NEW amount \in RepayAmounts, NEW value \in Values,
             SetRecord(u, amount, value)
      PROVE  SameGap
  <2>1. amount \in Nat \ {0} /\ value \in Nat /\ RecordLoan(u, amount, value)
    BY <1>1 DEF SetRecord
  <2>2. QED
    BY <2>1, RecordMovesBoth DEF SameGap, OverrideStep
<1>2. ASSUME NEW l \in LoanIds, NEW status \in 0..3, SetLoanStatus(l, status)
      PROVE  SameGap
  <2> DEFINE x == [loans[l] EXCEPT !.status = status]
  <2>1. loans[l] \in Loan
    BY DEF BookInv, LoansOK, LoanOK
  <2>2. /\ loans' = [loans EXCEPT ![l] = x]
        /\ sys' = sys /\ unitBalance' = unitBalance
    BY <1>2 DEF SetLoanStatus
  <2>3. x.debt = loans[l].debt /\ x.collateral = loans[l].collateral
    BY <2>1 DEF Loan
  <2>4. sys.OLB \in Nat /\ loans[l].debt \in Nat /\ unitBalance \in Nat /\ Overrides
    BY <2>1 DEF Loan, BookInv, BookTypeOK, OuterTypeOK, OverrideStep
  <2> HIDE DEF x
  <2>5. sys'.OLB = sys.OLB + x.debt - loans[l].debt
    BY <2>2, <2>3, <2>4
  <2>6. QED
    BY <2>2, <2>4, <2>5, ChangeKeepsGap
<1>3. QED
  BY <1>1, <1>2 DEF OverrideStep

LEMMA InterestKeepsGap ==
  ASSUME LoanInv, LoanInv', NEW l \in LoanIds, InterestCalculation(l)
  PROVE  SameGap
<1> DEFINE loan == loans[l]
           interest == DailyInterest(loan.debt)
           debt == loan.debt + interest
           status == StatusAfterInterest(loan.status,
                       CollateralRatio(loan.collateral, debt), loan.IST + 1)
           i == loan.interest + interest
           t == loan.IST + 1
           x == [loan EXCEPT !.interest = i, !.debt = debt, !.IST = t, !.status = status]
<1>1. loan \in Loan
  BY DEF LoanInv, BookInv, LoansOK, LoanOK
<1>2. interest \in Nat
  BY <1>1, InterestIsNat DEF Loan
<1>3. /\ loans' = [loans EXCEPT ![l] = x]
      /\ sys' = [sys EXCEPT !.OLB = @ + interest, !.TLD = @ + interest]
      /\ unitBalance' = unitBalance
  BY DEF InterestCalculation
<1> HIDE DEF interest, status
<1>4. x.debt = debt /\ x.collateral = loan.collateral
  BY <1>1 DEF Loan
<1>5. /\ sys.OLB \in Nat /\ loan.debt \in Nat /\ loan.collateral \in Nat
      /\ unitBalance \in Nat /\ sys'.OLB = sys.OLB + interest
  BY <1>1, <1>3 DEF Loan, LoanInv, BookInv, BookTypeOK, OuterTypeOK
<1> HIDE DEF x
<1>6. /\ sys'.OLB = sys.OLB + x.debt - loan.debt
      /\ unitBalance' = unitBalance + x.collateral - loan.collateral
  BY <1>2, <1>3, <1>4, <1>5
<1>7. QED
  BY <1>3, <1>5, <1>6, ChangeKeepsGap DEF LoanInv

\* No step but a collection moves the sums over the auctions collected.
LEMMA UnsoldKeepsSums ==
  ASSUME Inv, Inv', Len(auctionList') >= Len(auctionList),
         \A n \in Listed : /\ auctionList'[n].startValue = auctionList[n].startValue
                           /\ auctionList'[n].sales = auctionList[n].sales
                           /\ auctionList'[n].state = auctionList[n].state,
         \A n \in Listed' \ Listed : auctionList'[n].state # 2
  PROVE  SoldFor' = SoldFor /\ SoldUnits' = SoldUnits
<1>1. Len(auctionList) \in Nat /\ Len(auctionList') \in Nat
  BY LenProperties DEF Inv, TypeOK, AuctionTypeOK
<1>2. Listed \subseteq Listed'
  BY <1>1 DEF Listed
<1>3. Sold' = Sold
  BY <1>2 DEF Sold
<1>4. QED
  BY <1>2, <1>3, NothingSold DEF Sold, Inv

Reconciled == OutstandingReconciles /\ UnitReconciles

\* What the gap and the sums over the auctions keep, the reconciliation keeps.
LEMMA GapKeepsReconciled ==
  ASSUME Reconciled, SameGap, SoldFor' = SoldFor, SoldUnits' = SoldUnits,
         LendingInv, LendingInv'
  PROVE  Reconciled'
<1>1. /\ loans \in Seq(Loan) /\ loans' \in Seq(Loan)
      /\ sys.OLB \in Nat /\ sys'.OLB \in Nat
      /\ unitBalance \in Nat /\ unitBalance' \in Nat
  BY DEF LendingInv, LoanInv, BookInv, LoansOK, BookTypeOK, OuterTypeOK
<1>2. Debts(LoanIds) \in Int /\ Collateral(LoanIds) \in Int
  BY <1>1, LoanSumsAreInts
<1>3. SoldFor \in Nat /\ SoldUnits \in Nat
  BY SoldIsFinite DEF LendingInv, Inv
<1>4. QED
  BY <1>1, <1>2, <1>3 DEF Reconciled, OutstandingReconciles, UnitReconciles, SameGap

\* getAuction with auctionOver: the debt leaves the books and enters the sum over
\* the auctions collected, and the UNIT with it.
LEMMA CollectReconciles ==
  ASSUME LendingInv, Reconciled, NEW n \in Listed, NEW u \in Bidders, Collect(n, u)
  PROVE  Reconciled'
<1> DEFINE a == auctionList[n]
           paid == a.debt + (a.startValue - a.debt)
<1>1. a \in Auction
  BY ListedTyping DEF LendingInv, Inv, TypeOK
<1>2. a.sales \in Nat /\ a.debt \in Nat /\ a.startValue \in Nat /\ paid = a.startValue
  BY <1>1 DEF Auction
<1>3. /\ unitBalance' = unitBalance - a.sales
      /\ sys' = [sys EXCEPT !.OLB = @ - paid, !.RA = @ + paid]
      /\ loans' = loans
  BY DEF Collect, AuctionOver
<1>4. /\ SoldFor' = SoldFor + a.startValue
      /\ SoldUnits' = SoldUnits + a.sales
  BY CollectedIsSold DEF Collect, LendingInv, Inv
<1>5. /\ sys'.OLB = sys.OLB - a.startValue
      /\ sys.OLB \in Nat /\ unitBalance \in Nat
  BY <1>2, <1>3 DEF LendingInv, LoanInv, BookInv, BookTypeOK, OuterTypeOK
<1>6. SoldFor \in Nat /\ SoldUnits \in Nat
  BY SoldIsFinite DEF LendingInv, Inv
<1>7. Debts(LoanIds)' = Debts(LoanIds) /\ Collateral(LoanIds)' = Collateral(LoanIds)
  BY <1>3 DEF Debts, Collateral, LoanIds
<1> HIDE DEF a
<1>8. QED
  BY <1>2, <1>3, <1>4, <1>5, <1>6, <1>7 DEF Reconciled, OutstandingReconciles, UnitReconciles

\* auctionStart lists a lot that is not collected yet.
LEMMA StartSellsNothing ==
  ASSUME LendingInv, LendingInv', NEW loan, SellableLoan(loan), AuctionStartFor(loan)
  PROVE  SoldFor' = SoldFor /\ SoldUnits' = SoldUnits
<1> DEFINE lot == [mortgage |-> loan.collateral, debt |-> loan.debt, interest |-> loan.interest]
           k == Len(auctionList) + 1
<1>1. /\ lot \in LotRecord /\ lot.debt = loan.debt /\ lot.interest = loan.interest
      /\ lot.mortgage = loan.collateral
  BY LoanMakesLot
<1>2. AuctionStart(lot.mortgage, lot.debt, lot.interest)
  BY <1>1 DEF AuctionStartFor
<1> HIDE DEF lot
<1>3. /\ Len(auctionList') = k
      /\ \A n \in Listed : auctionList'[n] = auctionList[n]
      /\ auctionList'[k] =
           [sales |-> lot.mortgage, startValue |-> lot.debt, nowValue |-> lot.debt,
            timeOver |-> now + bidDuration, state |-> 1, debt |-> lot.interest]
  BY <1>1, <1>2, StartTyping DEF LendingInv, Inv
<1>4. Len(auctionList) \in Nat
  BY DEF LendingInv, Inv, TypeOK, AuctionTypeOK
<1>5. \A n \in Listed' \ Listed : n = k
  BY <1>3, <1>4 DEF Listed
<1>6. QED
  BY <1>3, <1>4, <1>5, UnsoldKeepsSums DEF LendingInv

LEMMA LoanSideReconciles ==
  ASSUME LendingInv, LendingInv', Reconciled, LoanSide
  PROVE  Reconciled'
<1> USE DEF LendingInv
<1>1. ASSUME UNCHANGED auctionVars PROVE SoldFor' = SoldFor /\ SoldUnits' = SoldUnits
  BY <1>1 DEF SoldFor, SoldUnits, Sold, Listed, auctionVars
<1>2. CASE (BorrowerStep \/ OverrideStep) /\ UNCHANGED auctionVars
  BY <1>1, <1>2, BorrowerStepKeepsGap, OverrideStepKeepsGap, GapKeepsReconciled
<1>3. CASE (GetSRF \/ OuterStep \/ SetAuctionContract) /\ UNCHANGED auctionVars
  BY <1>1, <1>3, UntouchedKeepsGap, GapKeepsReconciled
  DEF GetSRF, OuterStep, SetAuctionContract, bookVars
<1>4. ASSUME NEW l \in LoanIds, InterestPass(l)
      PROVE  Reconciled'
  <2>1. SameGap
    BY <1>4, InterestKeepsGap DEF InterestPass
  <2>2. CASE UNCHANGED auctionVars
    BY <1>1, <2>1, <2>2, GapKeepsReconciled
  <2>3. CASE loans'[l].status = Liquidated /\ AuctionStartFor(loans'[l])
    <3>1. l \in LoanIds'
      <4>1. loans \in Seq(Loan)
        BY DEF LoanInv, BookInv, LoansOK
      <4>2. Len(loans') = Len(loans)
        BY <1>4, <4>1 DEF InterestPass, InterestCalculation
      <4>3. QED
        BY <4>2 DEF LoanIds
    <3>2. SellableLoan(loans'[l])
      BY <2>3, <3>1 DEF LoanInv, BookInv, LoansOK, SellableLoan, Liquidated, Cleared
    <3>3. QED
      BY <2>1, <2>3, <3>2, StartSellsNothing, GapKeepsReconciled
  <2>4. QED
    BY <1>4, <2>2, <2>3 DEF InterestPass
<1>5. ASSUME NEW l \in LoanIds, StartLiquidation(l)
      PROVE  Reconciled'
  <2>1. SellableLoan(loans[l])
    BY <1>5 DEF StartLiquidation, SellableLoan, LoanInv, BookInv, LoansOK
  <2>2. SoldFor' = SoldFor /\ SoldUnits' = SoldUnits
    BY <1>5, <2>1, StartSellsNothing DEF StartLiquidation
  <2>3. SameGap
    BY <1>5, UntouchedKeepsGap DEF StartLiquidation, loanVars, bookVars
  <2>4. QED
    BY <2>2, <2>3, GapKeepsReconciled
<1>6. CASE SetMintStatus /\ UNCHANGED <<auctionVars, loanVars>>
  BY <1>1, <1>6, UntouchedKeepsGap, GapKeepsReconciled DEF loanVars, bookVars
<1>7. QED
  BY <1>2, <1>3, <1>4, <1>5, <1>6 DEF LoanSide

LEMMA AuctionSideReconciles ==
  ASSUME LendingInv, LendingInv', Reconciled, AuctionSide, UNCHANGED now
  PROVE  Reconciled'
<1> USE DEF LendingInv
<1>0. \A i \in Listed : auctionList[i] \in Auction
  BY ListedTyping DEF Inv, TypeOK
<1>1. ASSUME UNCHANGED loanVars, SoldFor' = SoldFor, SoldUnits' = SoldUnits
      PROVE  Reconciled'
  BY <1>1, UntouchedKeepsGap, GapKeepsReconciled DEF loanVars, bookVars
<1>2. ASSUME UNCHANGED auctionList PROVE SoldFor' = SoldFor /\ SoldUnits' = SoldUnits
  BY <1>2 DEF SoldFor, SoldUnits, Sold, Listed
<1>3. ASSUME NEW n \in Listed, NEW u \in Bidders, NEW amount \in Amounts, Bid(n, u, amount)
      PROVE  SoldFor' = SoldFor /\ SoldUnits' = SoldUnits
  <2>1. /\ Len(auctionList') = Len(auctionList)
        /\ \A i \in Listed : auctionList'[i] =
             IF i = n THEN [auctionList[n] EXCEPT !.nowValue = bidValue[n][u] + amount]
                      ELSE auctionList[i]
    BY <1>3, BidTyping DEF Inv
  <2>2. \A i \in Listed : /\ auctionList'[i].startValue = auctionList[i].startValue
                          /\ auctionList'[i].sales = auctionList[i].sales
                          /\ auctionList'[i].state = auctionList[i].state
    <3> DEFINE value == bidValue[n][u] + amount
    <3>1. \A a \in Auction : LET b == [a EXCEPT !.nowValue = value]
                           IN  /\ b.startValue = a.startValue
                               /\ b.sales = a.sales
                               /\ b.state = a.state
      <4> HIDE DEF value
      <4>1. QED
        BY DEF Auction
    <3>2. QED
      BY <1>0, <2>1, <3>1, Zenon
  <2>3. Listed' = Listed /\ Len(auctionList') >= Len(auctionList)
    BY <2>1 DEF Listed, Inv, TypeOK, AuctionTypeOK
  <2>4. QED
    BY <2>2, <2>3, UnsoldKeepsSums
<1>4. ASSUME UpgradeState
      PROVE  SoldFor' = SoldFor /\ SoldUnits' = SoldUnits
  <2>1. Len(auctionList') = Len(auctionList)
    BY <1>4, UpgradeTyping DEF Inv
  <2>2. \A n \in Listed : auctionList'[n] = IF auctionList[n].timeOver < now /\ bider[n] = NoOne
                                           THEN [auctionList[n] EXCEPT !.timeOver = now + bidDuration]
                                           ELSE auctionList[n]
    BY <1>4 DEF UpgradeState
  <2>3. \A i \in Listed : /\ auctionList'[i].startValue = auctionList[i].startValue
                          /\ auctionList'[i].sales = auctionList[i].sales
                          /\ auctionList'[i].state = auctionList[i].state
    BY <1>0, <2>2 DEF Auction
  <2>4. Listed' = Listed /\ Len(auctionList') >= Len(auctionList)
    BY <2>1 DEF Listed, Inv, TypeOK, AuctionTypeOK
  <2>5. QED
    BY <2>3, <2>4, UnsoldKeepsSums
<1>5. ASSUME NEW n \in Listed, NEW u \in Bidders, Collect(n, u)
      PROVE  Reconciled'
  BY <1>5, CollectReconciles
<1>6. ASSUME NEW d \in 1..MaxDuration, UpdateBidDuration(d)
      PROVE  SoldFor' = SoldFor /\ SoldUnits' = SoldUnits
  BY <1>2, <1>6 DEF UpdateBidDuration
<1>7. QED
  BY <1>1, <1>2, <1>3, <1>4, <1>5, <1>6 DEF AuctionSide, BidWithdrawal, TokenStep, auctionVars

LEMMA InitReconciles == LendingInit => Reconciled
<1> SUFFICES ASSUME LendingInit PROVE Reconciled
  OBVIOUS
<1>1. LoanIds = {} /\ Listed = {} /\ sys.OLB = 0 /\ unitBalance = 0
  BY DEF LendingInit, LoanInit, AuctionInit, LoanIds, Listed
<1>2. Sold = {}
  BY <1>1 DEF Sold
<1>3. Debts(LoanIds) = 0 /\ Collateral(LoanIds) = 0 /\ SoldFor = 0 /\ SoldUnits = 0
  BY <1>1, <1>2, SumOfNone, Zenon DEF Debts, Collateral, SoldFor, SoldUnits
<1>4. QED
  BY <1>1, <1>3 DEF Reconciled, OutstandingReconciles, UnitReconciles

LEMMA StepReconciles ==
  LendingInv /\ LendingInv' /\ Reconciled /\ [LendingNext]_lendingVars => Reconciled'
<1> SUFFICES ASSUME LendingInv, LendingInv', Reconciled, [LendingNext]_lendingVars
             PROVE  Reconciled'
  OBVIOUS
<1>1. CASE (LoanSide \/ AuctionSide) /\ UNCHANGED now
  BY <1>1, LoanSideReconciles, AuctionSideReconciles
<1>2. CASE UNCHANGED <<auctionVars, loanVars>>
  <2>1. SoldFor' = SoldFor /\ SoldUnits' = SoldUnits
    BY <1>2 DEF SoldFor, SoldUnits, Sold, Listed, auctionVars
  <2>2. SameGap
    BY <1>2, UntouchedKeepsGap DEF LendingInv, loanVars, bookVars
  <2>3. QED
    BY <2>1, <2>2, GapKeepsReconciled
<1>3. QED
  BY <1>1, <1>2 DEF LendingNext, lendingVars

-----------------------------------------------------------------------------
(***************************************************************************)
(* The theorems.                                                           *)
(***************************************************************************)

\* Books, auctions and lots stay consistent however the two contracts call each
\* other.
THEOREM LendingInvariant == LendingSpec => []LendingInv
BY InitEstablishesLendingInv, LendingStep, PTL DEF LendingSpec

\* getAuction can split every starting price into interest and principal, for
\* any number of loans and auctions, and no lot stands for a debt of nothing.
THEOREM LotsAreSettled == LendingSpec => []LotsCanBeSettled
BY LendingInvariant, PTL DEF LendingInv

\* Without overrides a loan is marked as cleared exactly when nothing is owed,
\* with the auctions wired in (repay, collateralTopUp, interestCalculation).
THEOREM ClearedIsPaidWithAuctions == LendingSpec => []ClearedMeansPaid
<1>1. LendingInv => ClearedMeansPaid
  BY DEF LendingInv, LoanInv, BookInv, LoansOK, LoanOK, Loan, ClearedMeansPaid
<1>2. QED
  BY LendingInvariant, <1>1, PTL

\* The books balance with the collections of auctionOver in them, the price of
\* every auction is its leader's bid, and nothing subtracted goes below zero.
THEOREM BooksBalanceWithAuctions ==
  LendingSpec => [](BooksBalance /\ LeaderHoldsPrice /\ LoanStateOK)
<1>1. LendingInv => BooksBalance /\ LeaderHoldsPrice /\ LoanStateOK
  BY InvGivesTypes DEF LendingInv, LoanInv, BookInv, Inv
<1>2. QED
  BY LendingInvariant, <1>1, PTL

\* Whatever was lent, accrued, repaid and auctioned: what the loan records say is
\* owed is what the system counts as outstanding plus the starting prices of the
\* auctions collected (auctionOver, repay, interestCalculation).
THEOREM OutstandingAlwaysReconciles == LendingSpec => []OutstandingReconciles
<1>1. Reconciled => OutstandingReconciles
  BY DEF Reconciled
<1>2. QED
  BY LendingInvariant, InitReconciles, StepReconciles, <1>1, PTL DEF LendingSpec

\* Without overrides the UNIT the loan records claim is the UNIT in the contract
\* plus what winners have taken away (auctionOver, repay, createLoan).
THEOREM UnitAlwaysReconciles == LendingSpec => []UnitReconciles
<1>1. Reconciled => UnitReconciles
  BY DEF Reconciled
<1>2. QED
  BY LendingInvariant, InitReconciles, StepReconciles, <1>1, PTL DEF LendingSpec

\* Seen from the bidders, the two contracts together are the ascending auction:
\* every listing is an offer, every collection hands over a fallen lot, and what
\* the loan book does besides does not show.
THEOREM LendingImplementsSale == LendingSpec => IsSale
BY InitEstablishesLendingInv, LendingStep, LendingInvariant, PTL
DEF LendingSpec, IsSale, SaleOf!SaleSpec
=============================================================================
