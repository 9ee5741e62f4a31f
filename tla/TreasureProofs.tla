--------------------------- MODULE TreasureProofs ---------------------------
(***************************************************************************)
(* Theorems about Treasure, for any accounts, kinds, periods, amounts and  *)
(* bounds: the requests follow the producer's status, a month is paid      *)
(* once, and margins and shares add up.                                    *)
(* Also about ProducerUpgrade, the scripts that change the implementations *)
(* behind these contracts: what an upgrade has reported stays true.        *)
(***************************************************************************)
EXTENDS Treasure, ProducerUpgrade, Sums, TLAPS

\* A request that is kept is one of the oracle's with the right callback,
\* whatever the producer's status is: updating a producer takes its status away
\* and not its request.
RequestInv ==
  /\ commitments \in Seq(Callbacks)
  /\ assetRequest # NoRequest =>
       assetRequest \in Requests /\ commitments[assetRequest] = "receiveAssetValue"
  /\ dataRequest # NoRequest =>
       dataRequest \in Requests /\ commitments[dataRequest] = "receiveTrustedProductionData"
  /\ Active => dataRequest # NoRequest
  /\ status = "Deactive" => dataRequest = NoRequest

\* What is kept of an upload, and that the clearings have paid for it.
UploadInv ==
  /\ DOMAIN uploaded = Periods /\ DOMAIN paid = Periods
  /\ \A m \in Periods : DOMAIN uploaded[m] = {"amount", "price", "status"}
  /\ PaidIsAudited

\* The oracle keeps every commitment and adds one for the callback asked for.
LEMMA SentIsKept ==
  ASSUME commitments \in Seq(Callbacks), NEW callback \in Callbacks,
         SendOracleRequest(callback)
  PROVE  /\ commitments' \in Seq(Callbacks)
         /\ NextRequest \in Requests' /\ NextRequest # NoRequest
         /\ commitments'[NextRequest] = callback
         /\ Requests \subseteq Requests'
         /\ \A r \in Requests : commitments'[r] = commitments[r]
  BY RequestsAssumption DEF SendOracleRequest, NextRequest, Requests

\* registerAssetValueRequest and setProducerStatus keep the invariant.
LEMMA RequestSteps ==
  ASSUME RequestInv, RegisterAssetValueRequest \/ Activate \/ Deactivate
  PROVE  RequestInv'
<1>1. CASE RegisterAssetValueRequest
  <2>1. /\ SendOracleRequest("receiveAssetValue") /\ assetRequest' = NextRequest
        /\ dataRequest' = dataRequest /\ status' = status
    BY <1>1 DEF RegisterAssetValueRequest, producerVars
  <2>2. "receiveAssetValue" \in Callbacks
    BY DEF Callbacks
  <2>3. /\ commitments' \in Seq(Callbacks)
        /\ NextRequest \in Requests' /\ commitments'[NextRequest] = "receiveAssetValue"
        /\ Requests \subseteq Requests' /\ \A r \in Requests : commitments'[r] = commitments[r]
    BY <2>1, <2>2, SentIsKept DEF RequestInv
  <2> QED
    BY <2>1, <2>3 DEF RequestInv, Active
<1>2. CASE Activate
  <2>1. status' = "Active" /\ assetRequest' = assetRequest
    BY <1>2 DEF Activate
  <2>2. CASE dataRequest = NoRequest
    <3>1. SendOracleRequest("receiveTrustedProductionData") /\ dataRequest' = NextRequest
      BY <1>2, <2>2 DEF Activate
    <3>2. "receiveTrustedProductionData" \in Callbacks
      BY DEF Callbacks
    <3>3. /\ commitments' \in Seq(Callbacks)
          /\ NextRequest \in Requests' /\ NextRequest # NoRequest
          /\ commitments'[NextRequest] = "receiveTrustedProductionData"
          /\ Requests \subseteq Requests' /\ \A r \in Requests : commitments'[r] = commitments[r]
      BY <3>1, <3>2, SentIsKept DEF RequestInv
    <3> QED
      BY <2>1, <3>1, <3>3 DEF RequestInv, Active
  <2>3. CASE dataRequest # NoRequest
    <3>1. UNCHANGED <<commitments, dataRequest>>
      BY <1>2, <2>3 DEF Activate
    <3> QED
      BY <2>1, <2>3, <3>1 DEF RequestInv, Active, Requests
  <2> QED
    BY <2>2, <2>3
<1>3. CASE Deactivate
  <2>1. /\ status' = "Deactive" /\ assetRequest' = assetRequest
        /\ commitments' = commitments /\ dataRequest' = NoRequest
    BY <1>3 DEF Deactivate, CancelOracleRequest
  <2> QED
    BY <2>1 DEF RequestInv, Active, Requests
<1> QED
  BY <1>1, <1>2, <1>3

\* Every other step leaves the requests, and changes the status to NotSet at most.
LEMMA RequestStep ==
  ASSUME RequestInv, [TreasureNext]_treasureVars
  PROVE  RequestInv'
<1>1. CASE RegisterAssetValueRequest \/ Activate \/ Deactivate
  BY <1>1, RequestSteps
<1>2. ASSUME UNCHANGED requestVars, status' \in {status, "NotSet"}
      PROVE  RequestInv'
  BY <1>2 DEF RequestInv, requestVars, Active, Requests
<1>3. CASE \E d \in Discounts : UpdateProducer(d) \/ \E u \in Depositors : AddProducer(u, d)
  BY <1>2, <1>3 DEF UpdateProducer, AddProducer
<1>4. CASE \E request \in Requests :
             \/ \E value \in UnitValues : ReceiveAssetValue(request, value)
             \/ \E m \in Periods, amount \in TrustedAmounts :
                  ReceiveTrustedProductionData(request, m, amount)
  BY <1>2, <1>4 DEF ReceiveAssetValue, ReceiveTrustedProductionData, producerVars
<1>5. CASE \E m \in Periods : \/ ClearMonth(m) \/ ClearBlock(m)
                              \/ \E amount \in Amounts : SetProductionData(m, amount)
  BY <1>2, <1>5 DEF ClearMonth, ClearBlock, SetProductionData, producerVars
<1>6. CASE UNCHANGED <<producerVars, requestVars>>
  BY <1>2, <1>6 DEF producerVars
<1> QED
  BY <1>1, <1>3, <1>4, <1>5, <1>6 DEF TreasureNext, ProducerStep, DataStep, treasureVars

\* The status of the producer and the requests stay together: an active producer
\* has a request for its data, a deactivated one has none (setProducerStatus,
\* updateProdcuer, registerTrustedDataRequest, cancelTrustedDataRequest).
THEOREM StatusHasItsRequest == TreasureSpec => []RequestsFollowStatus
<1>1. TreasureInit => RequestInv
  BY DEF TreasureInit, RequestInv, Active
<1>2. RequestInv /\ [TreasureNext]_treasureVars => RequestInv'
  BY RequestStep
<1>3. RequestInv => RequestsFollowStatus
  BY DEF RequestInv, RequestsFollowStatus
<1> QED
  BY <1>1, <1>2, <1>3, PTL DEF TreasureSpec

-----------------------------------------------------------------------------

\* setProductionData takes no more data for a month that is paid for.
LEMMA UploadKeepsInv ==
  ASSUME UploadInv, NEW m \in Periods, NEW amount \in Amounts, SetProductionData(m, amount)
  PROVE  UploadInv'
<1>1. PICK value : uploaded' = More(m, amount, value)
  BY DEF SetProductionData
<1>2. /\ kind' = kind /\ paid' = paid /\ uploaded[m].status = Unaudited /\ Uploads
  BY DEF SetProductionData, producerVars
<1>3. \A n \in Periods : /\ DOMAIN uploaded'[n] = {"amount", "price", "status"}
                         /\ uploaded'[n].status = uploaded[n].status
                         /\ n # m => uploaded'[n] = uploaded[n]
  BY <1>1 DEF UploadInv, More
<1>4. DOMAIN uploaded' = Periods
  BY <1>1 DEF UploadInv, More
<1> QED
  BY <1>2, <1>3, <1>4 DEF UploadInv, PaidIsAudited, Uploads

\* clearing of a month pays what it leaves in the record and closes the month.
LEMMA ClearingKeepsInv ==
  ASSUME UploadInv, NEW m \in Periods, ClearMonth(m)
  PROVE  UploadInv'
<1>1. /\ paid' = [paid EXCEPT ![m] = Append(@, ClearedPrice(m))]
      /\ uploaded' = [uploaded EXCEPT ![m] =
                        [amount |-> @.amount, price |-> ClearedPrice(m), status |-> Result(m)]]
  BY DEF ClearMonth, RewardByShare
<1>2. kind' = kind /\ uploaded[m].status = Unaudited /\ Uploads
  BY DEF ClearMonth, producerVars
<1>3. paid[m] = <<>>
  BY <1>2 DEF UploadInv, PaidIsAudited
<1>4. paid'[m] = <<ClearedPrice(m)>> /\ uploaded'[m].price = ClearedPrice(m) /\ uploaded'[m].status # Unaudited
  BY <1>1, <1>3 DEF UploadInv, Result, Unaudited
<1>5. \A n \in Periods : n # m => paid'[n] = paid[n] /\ uploaded'[n] = uploaded[n]
  BY <1>1 DEF UploadInv
<1>6. /\ DOMAIN uploaded' = Periods /\ DOMAIN paid' = Periods
      /\ \A n \in Periods : DOMAIN uploaded'[n] = {"amount", "price", "status"}
  BY <1>1 DEF UploadInv
<1> QED
  BY <1>2, <1>4, <1>5, <1>6 DEF UploadInv, PaidIsAudited, Uploads

\* Every other step leaves uploads and payments of uploading kinds alone.
LEMMA UploadStep ==
  ASSUME UploadInv, [TreasureNext]_treasureVars
  PROVE  UploadInv'
<1>1. CASE \E m \in Periods : ClearMonth(m)
  BY <1>1, ClearingKeepsInv
<1>2. CASE \E m \in Periods, amount \in Amounts : SetProductionData(m, amount)
  BY <1>2, UploadKeepsInv
<1>3. CASE \E m \in Periods : ClearBlock(m)
  <2>1. PICK m \in Periods : ClearBlock(m)
    BY <1>3
  <2>2. kind' = kind /\ ~Uploads /\ uploaded' = uploaded /\ DOMAIN paid' = DOMAIN paid
    BY <2>1 DEF ClearBlock, RewardByShare, producerVars
  <2> QED
    BY <2>2 DEF UploadInv, PaidIsAudited, Uploads
<1>4. ASSUME UNCHANGED <<kind, uploaded, paid>>
      PROVE  UploadInv'
  BY <1>4 DEF UploadInv, PaidIsAudited, Uploads
<1>5. CASE ProducerStep
  BY <1>4, <1>5 DEF ProducerStep, UpdateProducer, AddProducer, Activate, Deactivate, dataVars
<1>6. CASE \/ RegisterAssetValueRequest
           \/ \E request \in Requests :
                \/ \E value \in UnitValues : ReceiveAssetValue(request, value)
                \/ \E m \in Periods, amount \in TrustedAmounts :
                     ReceiveTrustedProductionData(request, m, amount)
  BY <1>4, <1>6 DEF RegisterAssetValueRequest, ReceiveAssetValue, ReceiveTrustedProductionData,
                    producerVars, dataVars
<1>7. CASE UNCHANGED <<producerVars, dataVars>>
  BY <1>4, <1>7 DEF producerVars, dataVars
<1> QED
  BY <1>1, <1>2, <1>3, <1>5, <1>6, <1>7 DEF TreasureNext, DataStep, treasureVars

\* A month of an uploading producer is paid once, for the price its audit leaves
\* in the record, whatever is uploaded, corrected or deactivated later
\* (setProductionData, clearing).
THEOREM MonthsArePaidOnce == TreasureSpec => []PaidIsAudited
<1>1. TreasureInit => UploadInv
  BY DEF TreasureInit, UploadInv, PaidIsAudited, NotUploaded
<1>2. UploadInv /\ [TreasureNext]_treasureVars => UploadInv'
  BY UploadStep
<1>3. UploadInv => PaidIsAudited
  BY DEF UploadInv
<1> QED
  BY <1>1, <1>2, <1>3, PTL DEF TreasureSpec

-----------------------------------------------------------------------------

\* The types of the shares: what the steps of the list need.
ShareInv ==
  /\ DOMAIN holders = Accounts
  /\ \A a \in Accounts : DOMAIN holders[a] = {"ratio", "index", "flag"}
  /\ holderAddresses \in Seq(Accounts)

\* Who is entered into the list stands at its index.
LEMMA EnteredIsListed ==
  ASSUME ShareInv, Listed, NEW a \in Accounts, Enter(a)
  PROVE  /\ holderAddresses' \in Seq(Accounts)
         /\ totalHolders' = Len(holderAddresses')
         /\ Index(a) \in 1..totalHolders' /\ holderAddresses'[Index(a)] = a
         /\ totalHolders <= totalHolders'
         /\ \A i \in 1..totalHolders : holderAddresses'[i] = holderAddresses[i]
         /\ \A i \in 1..totalHolders' : i \in 1..totalHolders \/ holderAddresses'[i] = a
<1>1. CASE holders[a].flag
  BY <1>1 DEF Enter, Index, Listed, ShareInv
<1>2. CASE ~holders[a].flag
  <2>1. totalHolders' = totalHolders + 1 /\ holderAddresses' = Append(holderAddresses, a)
    BY <1>2 DEF Enter
  <2> QED
    BY <1>2, <2>1 DEF Index, Listed, ShareInv
<1> QED
  BY <1>1, <1>2

\* Entering is all that setHolders and splitHolder do to the list.
LEMMA EnteringKeepsListed ==
  ASSUME ShareInv, Listed, NEW a \in Accounts, Enter(a),
         DOMAIN holders' = Accounts,
         holders'[a].flag /\ holders'[a].index = Index(a),
         \A b \in Accounts \ {a} : /\ holders'[b].flag = holders[b].flag
                                  /\ holders'[b].index = holders[b].index
  PROVE  Listed'
<1>1. \A b \in Accounts : holders'[b].flag =>
        holders'[b].index \in 1..totalHolders' /\ holderAddresses'[holders'[b].index] = b
  <2> SUFFICES ASSUME NEW b \in Accounts, holders'[b].flag
               PROVE  holders'[b].index \in 1..totalHolders' /\ holderAddresses'[holders'[b].index] = b
    OBVIOUS
  <2>1. CASE b = a
    BY <2>1, EnteredIsListed
  <2>2. CASE b # a
    <3>1. holders[b].index \in 1..totalHolders /\ holderAddresses[holders[b].index] = b
      BY <2>2 DEF Listed
    <3>2. totalHolders \in Nat /\ totalHolders' \in Nat
      BY EnteredIsListed DEF Listed, ShareInv
    <3> QED
      BY <2>2, <3>1, <3>2, EnteredIsListed
  <2> QED
    BY <2>1, <2>2
<1>2. \A i \in 1..totalHolders' :
        holders'[holderAddresses'[i]].flag /\ holders'[holderAddresses'[i]].index = i
  <2> SUFFICES ASSUME NEW i \in 1..totalHolders'
               PROVE  holders'[holderAddresses'[i]].flag /\ holders'[holderAddresses'[i]].index = i
    OBVIOUS
  <2>1. CASE i \in 1..totalHolders
    <3>1. /\ holderAddresses'[i] = holderAddresses[i] /\ holderAddresses[i] \in Accounts
          /\ holders[holderAddresses[i]].flag /\ holders[holderAddresses[i]].index = i
      BY <2>1, EnteredIsListed DEF Listed, ShareInv
    <3>2. CASE holderAddresses[i] = a
      BY <3>1, <3>2 DEF Index
    <3>3. CASE holderAddresses[i] # a
      BY <3>1, <3>3
    <3> QED
      BY <3>2, <3>3
  <2>2. CASE i \notin 1..totalHolders
    <3>1. ~holders[a].flag
      BY <2>2 DEF Enter
    <3>2. totalHolders' = totalHolders + 1 /\ Index(a) = totalHolders + 1
      BY <3>1 DEF Enter, Index, Listed
    <3>3. i = Index(a)
      BY <2>2, <3>2 DEF Listed, ShareInv
    <3> QED
      BY <3>3, EnteredIsListed
  <2> QED
    BY <2>1, <2>2
<1> QED
  BY <1>1, <1>2, EnteredIsListed DEF Listed

\* setHolders and splitHolder keep types and list.
LEMMA SetHolderStep ==
  ASSUME ShareInv, NEW a \in Accounts, NEW ratio \in Ratios, SetHolder(a, ratio)
  PROVE  ShareInv' /\ (Listed => Listed')
<1>1. /\ Enter(a)
      /\ holders' = [holders EXCEPT ![a] = [ratio |-> ratio, index |-> Index(a), flag |-> TRUE]]
  BY DEF SetHolder
<1>2. /\ DOMAIN holders' = Accounts
      /\ holders'[a] = [ratio |-> ratio, index |-> Index(a), flag |-> TRUE]
      /\ \A b \in Accounts \ {a} : holders'[b] = holders[b]
  BY <1>1 DEF ShareInv
<1>3. holderAddresses' \in Seq(Accounts)
  BY <1>1 DEF Enter, ShareInv
<1>4. ShareInv'
  BY <1>2, <1>3 DEF ShareInv
<1>5. Listed => Listed'
  BY <1>1, <1>2, EnteringKeepsListed
<1> QED
  BY <1>4, <1>5

LEMMA SplitHolderStep ==
  ASSUME ShareInv, NEW u \in Accounts, NEW a \in Accounts, NEW ratio \in Ratios,
         SplitHolder(u, a, ratio)
  PROVE  ShareInv' /\ (Listed => Listed')
<1> DEFINE received == [ratio |-> holders[a].ratio + ratio, index |-> Index(a), flag |-> TRUE]
<1>1. Enter(a) /\ holders' = [holders EXCEPT ![u].ratio = @ - ratio, ![a] = received]
  BY DEF SplitHolder
<1>2. /\ DOMAIN holders' = Accounts
      /\ holders'[a] = received
      /\ \A b \in Accounts \ {a} : /\ DOMAIN holders'[b] = DOMAIN holders[b]
                                  /\ holders'[b].flag = holders[b].flag
                                  /\ holders'[b].index = holders[b].index
  <2> HIDE DEF received
  <2> QED
    BY <1>1 DEF ShareInv
<1>3. holderAddresses' \in Seq(Accounts)
  BY <1>1 DEF Enter, ShareInv
<1>4. ShareInv'
  BY <1>2, <1>3 DEF ShareInv
<1>5. Listed => Listed'
  BY <1>1, <1>2, EnteringKeepsListed
<1> QED
  BY <1>4, <1>5

\* deleteHolder shortens the list by its last address, which is lost when the
\* deleted holder is not there.
LEMMA DeleteHolderStep ==
  ASSUME ShareInv, NEW a \in Accounts, DeleteHolder(a)
  PROVE  /\ ShareInv'
         /\ Listed => Listed' \/ holders[a].index < Len(holderAddresses)
<1> DEFINE last == Len(holderAddresses)
           i == holders[a].index
<1>1. /\ last > 0 /\ (last > 1 => i \in 1..last)
      /\ holderAddresses' = [j \in 1..last - 1 |-> IF last > 1 /\ j = i THEN holderAddresses[last]
                                                   ELSE holderAddresses[j]]
      /\ holders' = [holders EXCEPT ![a] = NotHolder]
      /\ totalHolders' = totalHolders - 1
      /\ holders[a].flag
  BY DEF DeleteHolder, ShareInv
<1>2. /\ DOMAIN holders' = Accounts /\ holders'[a] = NotHolder
      /\ \A b \in Accounts \ {a} : holders'[b] = holders[b]
  BY <1>1 DEF ShareInv
<1>3. holderAddresses' \in Seq(Accounts) /\ Len(holderAddresses') = last - 1
  BY <1>1 DEF ShareInv
<1>4. ShareInv'
  BY <1>2, <1>3 DEF ShareInv, NotHolder
<1>5. ASSUME Listed, ~(i < last)
      PROVE  Listed'
  <2>1. totalHolders = last /\ i = last /\ holderAddresses[last] = a
    BY <1>1, <1>5 DEF Listed, ShareInv
  <2>2. \A j \in 1..last - 1 : holderAddresses'[j] = holderAddresses[j]
    BY <1>1, <2>1
  <2>3. \A b \in Accounts : holders'[b].flag =>
          holders'[b].index \in 1..totalHolders' /\ holderAddresses'[holders'[b].index] = b
    <3> SUFFICES ASSUME NEW b \in Accounts, holders'[b].flag
                 PROVE  holders'[b].index \in 1..totalHolders' /\ holderAddresses'[holders'[b].index] = b
      OBVIOUS
    <3>1. b # a /\ holders'[b] = holders[b]
      BY <1>2 DEF NotHolder
    <3>2. holders[b].index \in 1..last /\ holderAddresses[holders[b].index] = b
      BY <1>5, <2>1, <3>1 DEF Listed
    <3> QED
      BY <1>1, <1>3, <2>1, <2>2, <3>1, <3>2 DEF ShareInv
  <2>4. \A j \in 1..last - 1 :
          holders'[holderAddresses'[j]].flag /\ holders'[holderAddresses'[j]].index = j
    <3> SUFFICES ASSUME NEW j \in 1..last - 1
                 PROVE  holders'[holderAddresses'[j]].flag /\ holders'[holderAddresses'[j]].index = j
      OBVIOUS
    <3>1. /\ holders[holderAddresses[j]].flag /\ holders[holderAddresses[j]].index = j
          /\ holderAddresses[j] \in Accounts
      BY <1>5, <2>1 DEF Listed, ShareInv
    <3>2. holderAddresses[j] # a
      BY <2>1, <3>1
    <3> QED
      BY <1>2, <2>2, <3>1, <3>2
  <2> QED
    BY <1>1, <1>3, <2>1, <2>3, <2>4 DEF Listed
<1> QED
  BY <1>4, <1>5

LEMMA ShareSteps ==
  ASSUME ShareInv, [TreasureNext]_treasureVars
  PROVE  /\ ShareInv'
         /\ Listed => \/ Listed'
                      \/ \E a \in Accounts : DeleteHolder(a) /\ holders[a].index < Len(holderAddresses)
<1>1. CASE ShareStep
  BY <1>1, SetHolderStep, SplitHolderStep, DeleteHolderStep DEF ShareStep
<1>2. ASSUME UNCHANGED <<holders, holderAddresses, totalHolders>>
      PROVE  ShareInv' /\ (Listed => Listed')
  BY <1>2 DEF ShareInv, Listed
<1>3. CASE ProducerStep
  BY <1>2, <1>3 DEF ProducerStep, UpdateProducer, AddProducer, SetOwner, Activate, Deactivate, shareVars
<1>4. CASE DataStep
  BY <1>2, <1>4 DEF DataStep, RegisterAssetValueRequest, ReceiveAssetValue,
                    ReceiveTrustedProductionData, ClearMonth, ClearBlock, SetProductionData, shareVars
<1>5. CASE UNCHANGED shareVars
  BY <1>2, <1>5 DEF shareVars
<1> QED
  BY <1>1, <1>3, <1>4, <1>5 DEF TreasureNext, treasureVars

\* Only deleting a holder that is not the last of the list separates the list
\* that rewards are paid along from the holders' records (setHolders,
\* splitHolder, deleteHolder).
THEOREM OnlyDeletionMisplaces == TreasureSpec => ListedUntilMoved
<1>1. TreasureInit => ShareInv
  BY DEF TreasureInit, ShareInit, ShareInv, NotHolder
<1>2. ShareInv /\ [TreasureNext]_treasureVars => ShareInv'
  BY ShareSteps
<1>3. ShareInv /\ [TreasureNext]_treasureVars =>
        [Listed => \/ Listed'
                   \/ \E a \in Accounts : DeleteHolder(a) /\ holders[a].index < Len(holderAddresses)]_shareVars
  BY ShareSteps
<1> QED
  BY <1>1, <1>2, <1>3, PTL DEF TreasureSpec, ListedUntilMoved

-----------------------------------------------------------------------------
(***************************************************************************)
(* The margins.                                                            *)
(***************************************************************************)

Upload == [amount : Nat, price : Nat, status : {Unaudited, "FINISHED", "FAILED"}]

\* What a penalty is computed from.
DataTypes ==
  /\ discount \in Nat
  /\ assetValues \subseteq Nat /\ IsFiniteSet(assetValues)
  /\ uploaded \in [Periods -> Upload]
  /\ DOMAIN trusted = Periods /\ \A m \in Periods : trusted[m].amount \in Nat
  /\ owner \in Depositors \cup {NoOne}

\* The values of the dates lie between natural numbers.
LEMMA ValuesAreNat ==
  ASSUME DataTypes, NEW value \in ValuesOfDates
  PROVE  value \in Nat
<1>1. CASE assetValues = {}
  BY <1>1 DEF ValuesOfDates
<1>2. CASE assetValues # {}
  <2>1. assetValues \subseteq Int /\ IsFiniteSet(assetValues)
    BY DEF DataTypes
  <2>2. \E x \in assetValues : \A y \in assetValues : x <= y
    BY <1>2, <2>1, LeastOfFinite
  <2>3. Min(assetValues) \in assetValues
    BY <2>2 DEF Min
  <2>4. Min(assetValues) \in Nat
    BY <2>3 DEF DataTypes
  <2>5. value \in Min(assetValues)..Max(assetValues)
    BY <1>2 DEF ValuesOfDates
  <2> HIDE DEF Min
  <2>6. value \in Int /\ Min(assetValues) <= value
    BY <2>5
  <2> QED
    BY <2>4, <2>6
<1> QED
  BY <1>1, <1>2

\* The price of an upload is a natural number.
LEMMA PriceIsNat ==
  ASSUME DataTypes, NEW amount \in Nat, NEW value \in Nat
  PROVE  Price(amount, value) \in Nat
<1> DEFINE part == IF kind = "OIL" THEN discount ELSE 10000
<1>1. part \in Nat
  BY DEF DataTypes
<1> HIDE DEF part
<1>2. amount * value * part \in Nat
  BY <1>1, ProductIsNat
<1>3. (amount * value * part) \div 10000 \in Nat
  BY <1>2, QuotientIsNat
<1> QED
  BY <1>3 DEF Price, part

\* Clearing leaves a price, and costs nothing below zero.
LEMMA ClearingIsNat ==
  ASSUME DataTypes, TreasureAssumption, NEW m \in Periods, AboveTrusted(m) => trusted[m].amount > 0
  PROVE  ClearedPrice(m) \in Nat /\ (Fails(m) => Cost(m) \in Nat)
<1> DEFINE a == uploaded[m].amount
           t == trusted[m].amount
<1>1. a \in Nat /\ t \in Nat /\ uploaded[m].price \in Nat
  BY DEF DataTypes, Upload
<1>2. ClearedPrice(m) \in Nat
  <2>1. CASE AboveTrusted(m)
    <3>1. a \in Nat \ {0} /\ uploaded[m].price * t \in Nat
      BY <1>1, <2>1, ProductIsNat DEF AboveTrusted
    <3>2. (uploaded[m].price * t) \div a \in Nat
      BY <3>1, QuotientIsNat
    <3> QED
      BY <2>1, <3>2 DEF ClearedPrice
  <2>2. CASE ~AboveTrusted(m)
    BY <1>1, <2>2 DEF ClearedPrice
  <2> QED
    BY <2>1, <2>2
<1>3. ASSUME Fails(m) PROVE Cost(m) \in Nat
  <2>1. t \in Nat \ {0} /\ a - t \in Nat
    BY <1>1, <1>3 DEF Fails, AboveTrusted
  <2>2. ((a - t) * 10000) \div t \in Nat
    <3>1. (a - t) * 10000 \in Nat
      BY <2>1
    <3> QED
      BY <2>1, <3>1, QuotientIsNat
  <2>3. Deviation(m) \in Nat
    BY <2>2 DEF Deviation
  <2>4. ClearedPrice(m) * Deviation(m) * MarginRatio \in Nat
    BY <1>2, <2>3, ProductIsNat DEF TreasureAssumption
  <2>5. (ClearedPrice(m) * Deviation(m) * MarginRatio) \div 100000000 \in Nat
    BY <2>4, QuotientIsNat
  <2> QED
    BY <2>5 DEF Cost
<1> QED
  BY <1>2, <1>3

\* Every step keeps the types of the data.
LEMMA DataStepTypes ==
  ASSUME DataTypes, [TreasureNext]_treasureVars
  PROVE  DataTypes'
<1> USE TreasureAssumption
<1>1. ASSUME NEW d \in Discounts, UpdateProducer(d) PROVE DataTypes'
  BY <1>1 DEF UpdateProducer, DataTypes, dataVars
<1>2. ASSUME NEW d \in Discounts, NEW u \in Depositors, AddProducer(u, d) PROVE DataTypes'
  BY <1>2 DEF AddProducer, DataTypes, dataVars
<1>3. ASSUME UNCHANGED <<discount, owner, assetValues, uploaded, trusted>> PROVE DataTypes'
  BY <1>3 DEF DataTypes
<1>4. CASE Activate \/ Deactivate \/ RegisterAssetValueRequest
  BY <1>3, <1>4 DEF Activate, Deactivate, RegisterAssetValueRequest, dataVars, producerVars
<1>5. ASSUME NEW request, NEW value \in UnitValues, ReceiveAssetValue(request, value)
      PROVE  DataTypes'
  <2>1. assetValues' = assetValues \cup {value} /\ value \in Nat
    BY <1>5 DEF ReceiveAssetValue
  <2>2. IsFiniteSet(assetValues')
    BY <2>1, FS_AddElement DEF DataTypes
  <2> QED
    BY <1>5, <2>1, <2>2 DEF ReceiveAssetValue, DataTypes, producerVars
<1>6. ASSUME NEW request, NEW m \in Periods, NEW amount \in TrustedAmounts,
             ReceiveTrustedProductionData(request, m, amount)
      PROVE  DataTypes'
  <2>1. trusted' = [trusted EXCEPT ![m] = [account |-> owner, amount |-> amount, status |-> Unaudited]]
    BY <1>6 DEF ReceiveTrustedProductionData
  <2>2. DOMAIN trusted' = Periods /\ \A n \in Periods : trusted'[n].amount \in Nat
    BY <2>1 DEF DataTypes
  <2> QED
    BY <1>6, <2>2 DEF ReceiveTrustedProductionData, DataTypes, producerVars
<1>7. ASSUME NEW m \in Periods, NEW amount \in Amounts, SetProductionData(m, amount)
      PROVE  DataTypes'
  <2>1. PICK value \in ValuesOfDates : uploaded' = More(m, amount, value)
    BY <1>7 DEF SetProductionData
  <2>2. value \in Nat /\ amount \in Nat
    BY ValuesAreNat
  <2> DEFINE u == uploaded[m]
             p == Price(amount, value)
             new == [amount |-> u.amount + amount, price |-> u.price + p, status |-> u.status]
  <2>3. p \in Nat /\ u \in Upload
    BY <2>2, PriceIsNat DEF DataTypes
  <2>4. uploaded' = [uploaded EXCEPT ![m] = new]
    BY <2>1 DEF More
  <2> HIDE DEF p, u
  <2>5. new \in Upload
    BY <2>2, <2>3 DEF Upload
  <2> HIDE DEF new
  <2>6. uploaded' \in [Periods -> Upload]
    BY <2>4, <2>5 DEF DataTypes
  <2> QED
    BY <1>7, <2>6 DEF SetProductionData, DataTypes, producerVars
<1>8. ASSUME NEW m \in Periods, ClearMonth(m) PROVE DataTypes'
  <2> DEFINE new == [amount |-> uploaded[m].amount, price |-> ClearedPrice(m), status |-> Result(m)]
  <2>1. ClearedPrice(m) \in Nat
    BY <1>8, ClearingIsNat DEF ClearMonth
  <2>2. new \in Upload
    BY <2>1 DEF DataTypes, Upload, Result
  <2>3. uploaded' = [uploaded EXCEPT ![m] = new]
    BY <1>8 DEF ClearMonth
  <2> HIDE DEF new
  <2>4. uploaded' \in [Periods -> Upload]
    BY <2>2, <2>3 DEF DataTypes
  <2> QED
    BY <1>8, <2>4 DEF ClearMonth, DataTypes, producerVars
<1>9. ASSUME NEW m \in Periods, ClearBlock(m) PROVE DataTypes'
  <2>1. trusted' = [trusted EXCEPT ![m].status = "FINISHED"]
    BY <1>9 DEF ClearBlock
  <2>2. DOMAIN trusted' = Periods /\ \A n \in Periods : trusted'[n].amount = trusted[n].amount
    BY <2>1 DEF DataTypes
  <2> QED
    BY <1>9, <2>2 DEF ClearBlock, DataTypes, producerVars
<1>10. CASE UNCHANGED <<producerVars, dataVars>>
  BY <1>3, <1>10 DEF producerVars, dataVars
<1> QED
  BY <1>1, <1>2, <1>4, <1>5, <1>6, <1>7, <1>8, <1>9, <1>10
  DEF TreasureNext, ProducerStep, DataStep, treasureVars

\* What the contract has to be able to pay a depositor.
MarginOf == [u \in Depositors |->
               IF depositors[u].status = "Normal" THEN depositors[u].margin ELSE 0]

DepositorRecord == [margin : Nat, status : {"NotSet", "Normal", "Abnormal"}]

MarginInv ==
  /\ depositors \in [Depositors -> DepositorRecord] /\ funds \in Nat
  /\ \A u \in Depositors : depositors[u].status = "NotSet" => depositors[u].margin = 0
  /\ MarginsAreBacked

\* One depositor changes: the margins stay backed when the balance moves at least
\* as far as what that depositor can be paid.
LEMMA DepositorChanges ==
  ASSUME MarginInv, IsFiniteSet(Depositors), NEW u \in Depositors, NEW d \in DepositorRecord,
         depositors' = [depositors EXCEPT ![u] = d], d.status # "NotSet",
         funds' \in Nat,
         funds' - funds >= (IF d.status = "Normal" THEN d.margin ELSE 0) - MarginOf[u]
  PROVE  MarginInv'
<1>1. depositors \in [Depositors -> DepositorRecord] /\ funds \in Nat
  BY DEF MarginInv
<1>2. depositors' \in [Depositors -> DepositorRecord]
  BY <1>1
<1>3. /\ \A v \in Depositors : MarginOf[v] \in Nat /\ MarginOf'[v] \in Nat
      /\ \A v \in Depositors \ {u} : MarginOf[v] = MarginOf'[v]
      /\ MarginOf'[u] = IF d.status = "Normal" THEN d.margin ELSE 0
  BY <1>1, <1>2 DEF MarginOf, DepositorRecord
<1>4. SumFunctionOnSet(MarginOf', Depositors)
        = SumFunctionOnSet(MarginOf, Depositors) + MarginOf'[u] - MarginOf[u]
  BY <1>3, SumChange
<1>5. SumFunctionOnSet(MarginOf, Depositors) \in Nat
  BY <1>3, SumIsNat
<1>6. funds >= SumFunctionOnSet(MarginOf, Depositors)
  BY DEF MarginInv, MarginsAreBacked, MarginOf, SumFunction
<1>7. funds' >= SumFunctionOnSet(MarginOf', Depositors)
  BY <1>1, <1>3, <1>4, <1>5, <1>6
<1>8. MarginsAreBacked'
  BY <1>7 DEF MarginsAreBacked, MarginOf, SumFunction
<1>9. \A v \in Depositors : depositors'[v].status = "NotSet" => depositors'[v].margin = 0
  BY <1>1 DEF MarginInv
<1> QED
  BY <1>2, <1>8, <1>9 DEF MarginInv

LEMMA PrepayKeepsMargins ==
  ASSUME MarginInv, IsFiniteSet(Depositors), NEW u \in Depositors, NEW value \in Nat,
         Prepay(u, value)
  PROVE  MarginInv'
<1> DEFINE d == depositors[u]
           toPay == d.margin - value
<1>1. /\ d \in DepositorRecord /\ funds \in Nat
      /\ d.status = "NotSet" => d.margin = 0
      /\ depositors \in [Depositors -> DepositorRecord]
  BY DEF MarginInv
<1>2. /\ d.margin \in Nat /\ d.status \in {"NotSet", "Normal", "Abnormal"}
      /\ MarginOf[u] = IF d.status = "Normal" THEN d.margin ELSE 0
  BY <1>1 DEF DepositorRecord, MarginOf
<1>3. CASE d.status # "Abnormal"
  <2> DEFINE new == Depositor(d.margin + value, "Normal")
  <2>1. depositors' = [depositors EXCEPT ![u] = new] /\ funds' = funds + value
    BY <1>3 DEF Prepay
  <2>2. new \in DepositorRecord /\ new.status = "Normal" /\ new.margin = d.margin + value
    BY <1>2 DEF Depositor, DepositorRecord
  <2>3. /\ funds' \in Nat
        /\ funds' - funds >= new.margin - MarginOf[u]
    BY <1>1, <1>2, <1>3, <2>1, <2>2
  <2> HIDE DEF new
  <2> QED
    BY <2>1, <2>2, <2>3, DepositorChanges
<1>4. CASE d.status = "Abnormal" /\ d.margin <= value
  <2> DEFINE new == Depositor(value - d.margin, "Normal")
  <2>1. depositors' = [depositors EXCEPT ![u] = new] /\ funds' = funds + value - d.margin
    BY <1>4 DEF Prepay
  <2>2. new \in DepositorRecord /\ new.status = "Normal" /\ new.margin = value - d.margin
    BY <1>2, <1>4 DEF Depositor, DepositorRecord
  <2>3. /\ funds' \in Nat
        /\ funds' - funds >= new.margin - MarginOf[u]
    BY <1>1, <1>2, <1>4, <2>1, <2>2
  <2> HIDE DEF new
  <2> QED
    BY <2>1, <2>2, <2>3, DepositorChanges
<1>5. CASE d.status = "Abnormal" /\ ~(d.margin <= value)
  <2> DEFINE new == [d EXCEPT !.margin = toPay]
  <2>1. depositors' = [depositors EXCEPT ![u] = new] /\ funds' = funds + value
    BY <1>1, <1>5 DEF Prepay
  <2>2. toPay \in Nat
    BY <1>2, <1>5
  <2>3. new \in DepositorRecord /\ new.status = "Abnormal"
    <3> HIDE DEF d, toPay
    <3> QED
      BY <1>1, <1>5, <2>2 DEF DepositorRecord
  <2>4. /\ funds' \in Nat
        /\ funds' - funds >= 0 - MarginOf[u]
    BY <1>1, <1>2, <1>5, <2>1
  <2> HIDE DEF new
  <2> QED
    BY <2>1, <2>3, <2>4, DepositorChanges
<1> QED
  BY <1>3, <1>4, <1>5

LEMMA WithdrawKeepsMargins ==
  ASSUME MarginInv, IsFiniteSet(Depositors), NEW u \in Depositors, NEW amount \in Nat,
         Withdraw(u, amount)
  PROVE  MarginInv'
<1> DEFINE d == depositors[u]
           left == d.margin - amount
           new == [d EXCEPT !.margin = left]
<1>1. d \in DepositorRecord /\ funds \in Nat /\ depositors \in [Depositors -> DepositorRecord]
  BY DEF MarginInv
<1>2. /\ d.margin \in Nat /\ d.status = "Normal" /\ MarginOf[u] = d.margin
      /\ amount <= d.margin /\ amount <= funds
      /\ depositors' = [depositors EXCEPT ![u] = new] /\ funds' = funds - amount
  BY <1>1 DEF Withdraw, DepositorRecord, MarginOf
<1>3. left \in Nat
  BY <1>2
<1>4. new \in DepositorRecord /\ new.status = "Normal" /\ new.margin = left
  <2> HIDE DEF d, left
  <2> QED
    BY <1>1, <1>2, <1>3 DEF DepositorRecord
<1> HIDE DEF new
<1>5. funds' \in Nat /\ funds' - funds >= new.margin - MarginOf[u]
  BY <1>1, <1>2, <1>4
<1> QED
  BY <1>2, <1>4, <1>5, DepositorChanges

LEMMA PenaltyKeepsMargins ==
  ASSUME MarginInv, IsFiniteSet(Depositors), NEW u \in Depositors, NEW cost \in Nat,
         Penalty(u, cost)
  PROVE  MarginInv'
<1> DEFINE d == depositors[u]
<1>1. d \in DepositorRecord /\ funds \in Nat /\ depositors \in [Depositors -> DepositorRecord]
  BY DEF MarginInv
<1>2. d.margin \in Nat /\ d.status = "Normal" /\ MarginOf[u] = d.margin /\ funds' = funds
  BY <1>1 DEF Penalty, DepositorRecord, MarginOf
<1>3. CASE cost <= d.margin
  <2> DEFINE left == d.margin - cost
             new == [d EXCEPT !.margin = left]
  <2>1. depositors' = [depositors EXCEPT ![u] = new] /\ left \in Nat
    BY <1>1, <1>2, <1>3 DEF Penalty
  <2>2. new \in DepositorRecord /\ new.status = "Normal" /\ new.margin = left
    <3> HIDE DEF d, left
    <3> QED
      BY <1>1, <1>2, <2>1 DEF DepositorRecord
  <2> HIDE DEF new
  <2>3. funds' \in Nat /\ funds' - funds >= new.margin - MarginOf[u]
    BY <1>1, <1>2, <2>2
  <2> QED
    BY <2>1, <2>2, <2>3, DepositorChanges
<1>4. CASE ~(cost <= d.margin)
  <2> DEFINE new == Depositor(cost - d.margin, "Abnormal")
  <2>1. depositors' = [depositors EXCEPT ![u] = new]
    BY <1>4 DEF Penalty
  <2>2. new \in DepositorRecord /\ new.status = "Abnormal"
    BY <1>2, <1>4 DEF Depositor, DepositorRecord
  <2> HIDE DEF new
  <2>3. funds' \in Nat /\ funds' - funds >= 0 - MarginOf[u]
    BY <1>1, <1>2
  <2> QED
    BY <2>1, <2>2, <2>3, DepositorChanges
<1> QED
  BY <1>3, <1>4

LEMMA MarginStep ==
  ASSUME DataTypes, MarginInv, [TreasureNext]_treasureVars
  PROVE  MarginInv'
<1> USE ShareAssumption, TreasureAssumption, ExpenseAssumption
<1>0. IsFiniteSet(Depositors)
  BY FS_Subset
<1>1. ASSUME UNCHANGED expenseVars PROVE MarginInv'
  BY <1>1 DEF expenseVars, MarginInv, MarginsAreBacked
<1>2. CASE ExpenseStep
  <2>1. ASSUME NEW value \in Payments, Donate(value) PROVE MarginInv'
    <3>1. funds' = funds + value /\ depositors' = depositors /\ value \in Nat /\ funds \in Nat
      BY <2>1 DEF Donate, MarginInv
    <3>2. MarginOf' = MarginOf
      BY <3>1 DEF MarginOf
    <3>3. \A u \in Depositors : MarginOf[u] \in Nat
      BY DEF MarginInv, DepositorRecord, MarginOf
    <3>4. SumFunctionOnSet(MarginOf, Depositors) \in Nat
      BY <1>0, <3>3, SumIsNat
    <3>5. funds >= SumFunctionOnSet(MarginOf, Depositors)
      BY DEF MarginInv, MarginsAreBacked, MarginOf, SumFunction
    <3>6. funds' >= SumFunctionOnSet(MarginOf', Depositors)
      BY <3>1, <3>2, <3>4, <3>5
    <3>7. MarginsAreBacked'
      BY <3>6 DEF MarginsAreBacked, MarginOf, SumFunction
    <3> QED
      BY <3>1, <3>7 DEF MarginInv
  <2>2. ASSUME NEW value \in Payments, NEW u \in Depositors, Prepay(u, value) PROVE MarginInv'
    BY <1>0, <2>2, PrepayKeepsMargins
  <2>3. ASSUME NEW value \in Payments, NEW u \in Depositors, Withdraw(u, value) PROVE MarginInv'
    BY <1>0, <2>3, WithdrawKeepsMargins
  <2> QED
    BY <1>2, <2>1, <2>2, <2>3 DEF ExpenseStep
<1>3. ASSUME NEW m \in Periods, ClearMonth(m) PROVE MarginInv'
  <2>1. CASE Fails(m)
    <3>1. Penalty(owner, Cost(m)) /\ owner \in Depositors
      BY <1>3, <2>1 DEF ClearMonth, DataTypes
    <3>2. Cost(m) \in Nat
      BY <1>3, <2>1, ClearingIsNat DEF ClearMonth
    <3> QED
      BY <1>0, <3>1, <3>2, PenaltyKeepsMargins
  <2>2. CASE ~Fails(m)
    BY <1>1, <1>3, <2>2 DEF ClearMonth
  <2> QED
    BY <2>1, <2>2
<1>4. CASE ProducerStep
  BY <1>1, <1>4 DEF ProducerStep, UpdateProducer, AddProducer, Activate, Deactivate
<1>5. CASE \/ RegisterAssetValueRequest
           \/ \E request \in Requests :
                \/ \E value \in UnitValues : ReceiveAssetValue(request, value)
                \/ \E m \in Periods, amount \in TrustedAmounts :
                     ReceiveTrustedProductionData(request, m, amount)
           \/ \E m \in Periods : \/ ClearBlock(m)
                                 \/ \E amount \in Amounts : SetProductionData(m, amount)
  BY <1>1, <1>5 DEF RegisterAssetValueRequest, ReceiveAssetValue, ReceiveTrustedProductionData,
                    ClearBlock, SetProductionData
<1> QED
  BY <1>1, <1>2, <1>3, <1>4, <1>5 DEF TreasureNext, DataStep, treasureVars

\* The contract can pay every normal depositor its margin at once, though one
\* field holds margins and debts, a penalty may exceed the margin and debts leave
\* for the zero address (prepay, withdraw, _penalty, clearing).
THEOREM MarginsAreAlwaysBacked == TreasureSpec => []MarginsAreBacked
<1> USE ShareAssumption, TreasureAssumption
<1>1. TreasureInit => DataTypes
  BY FS_EmptySet DEF TreasureInit, DataTypes, NotUploaded, Nothing, Upload
<1>2. TreasureInit => MarginInv
  <2> SUFFICES ASSUME TreasureInit PROVE MarginInv
    OBVIOUS
  <2>1. IsFiniteSet(Depositors)
    BY FS_Subset
  <2>2. \A u \in Depositors : MarginOf[u] = 0
    BY DEF TreasureInit, ExpenseInit, MarginOf
  <2>3. SumFunctionOnSet(MarginOf, Depositors) = 0
    BY <2>1, <2>2, SumOfZeros
  <2>4. MarginsAreBacked
    BY <2>3 DEF MarginsAreBacked, MarginOf, SumFunction, TreasureInit, ExpenseInit
  <2> QED
    BY <2>4 DEF TreasureInit, ExpenseInit, MarginInv, DepositorRecord
<1>3. DataTypes /\ [TreasureNext]_treasureVars => DataTypes'
  BY DataStepTypes
<1>4. DataTypes /\ MarginInv /\ [TreasureNext]_treasureVars => MarginInv'
  BY MarginStep
<1>5. MarginInv => MarginsAreBacked
  BY DEF MarginInv
<1> QED
  BY <1>1, <1>2, <1>3, <1>4, <1>5, PTL DEF TreasureSpec

-----------------------------------------------------------------------------
(***************************************************************************)
(* The pieces.                                                             *)
(***************************************************************************)

HolderRecord == [ratio : Nat, index : Nat, flag : BOOLEAN]
PiecesOf == [a \in Accounts |-> holders[a].ratio]

PieceInv ==
  /\ holders \in [Accounts -> HolderRecord]
  /\ holderAddresses \in Seq(Accounts)
  /\ totalShared \in Nat /\ doubled \in Nat
  /\ SharesReconcile

\* A holder's record is replaced: the sum of the pieces moves by it.
LEMMA HolderChanges ==
  ASSUME PieceInv, NEW a \in Accounts, NEW h \in HolderRecord,
         holders' = [holders EXCEPT ![a] = h], holderAddresses' \in Seq(Accounts),
         totalShared' \in Nat, doubled' \in Nat,
         totalShared' + doubled' = totalShared + doubled + h.ratio - holders[a].ratio
  PROVE  PieceInv'
<1>1. holders \in [Accounts -> HolderRecord] /\ holders' \in [Accounts -> HolderRecord]
  BY DEF PieceInv
<1>2. /\ \A b \in Accounts : PiecesOf[b] \in Nat /\ PiecesOf'[b] \in Nat
      /\ \A b \in Accounts \ {a} : PiecesOf[b] = PiecesOf'[b]
      /\ PiecesOf[a] = holders[a].ratio /\ PiecesOf'[a] = h.ratio
  BY <1>1 DEF PiecesOf, HolderRecord, PieceInv
<1>3. IsFiniteSet(Accounts)
  BY ShareAssumption
<1>4. SumFunctionOnSet(PiecesOf', Accounts)
        = SumFunctionOnSet(PiecesOf, Accounts) + PiecesOf'[a] - PiecesOf[a]
  <2>1. /\ \A b \in Accounts : PiecesOf[b] \in Int /\ PiecesOf'[b] \in Int
        /\ \A b \in Accounts \ {a} : PiecesOf[b] = PiecesOf'[b]
    BY <1>2
  <2> QED
    BY ONLY <1>3, <2>1, a \in Accounts, SumChange
<1>5. SumFunctionOnSet(PiecesOf, Accounts) = totalShared + doubled
  BY DEF PieceInv, SharesReconcile, PiecesOf, SumFunction
<1>6. SumFunctionOnSet(PiecesOf', Accounts) = totalShared' + doubled'
  <2>1. /\ h.ratio \in Nat /\ holders[a].ratio \in Nat
        /\ totalShared \in Nat /\ doubled \in Nat /\ totalShared' \in Nat /\ doubled' \in Nat
    BY <1>1 DEF HolderRecord, PieceInv
  <2>2. /\ PiecesOf[a] = holders[a].ratio /\ PiecesOf'[a] = h.ratio
        /\ totalShared' + doubled' = totalShared + doubled + h.ratio - holders[a].ratio
    BY <1>2
  <2> QED
    BY ONLY <1>4, <1>5, <2>1, <2>2
<1>7. SharesReconcile'
  BY <1>6 DEF SharesReconcile, PiecesOf, SumFunction
<1> QED
  BY <1>1, <1>7 DEF PieceInv

\* Entering keeps the list a list of accounts, and positions are numbers.
LEMMA EnterTypes ==
  ASSUME PieceInv, NEW a \in Accounts, Enter(a)
  PROVE  holderAddresses' \in Seq(Accounts) /\ Index(a) \in Nat
<1>1. holders[a].index \in Nat /\ holderAddresses \in Seq(Accounts)
  BY DEF PieceInv, HolderRecord
<1>2. Len(holderAddresses) \in Nat /\ Append(holderAddresses, a) \in Seq(Accounts)
  BY <1>1
<1>3. Index(a) \in Nat
  BY <1>1, <1>2 DEF Index
<1>4. holderAddresses' \in {holderAddresses, Append(holderAddresses, a)}
  BY DEF Enter
<1> QED
  BY <1>1, <1>2, <1>3, <1>4

\* setHolders moves the sum and the total by the same difference.
LEMMA SetKeepsPieces ==
  ASSUME PieceInv, NEW a \in Accounts, NEW ratio \in Ratios, SetHolder(a, ratio)
  PROVE  PieceInv'
<1> DEFINE h == [ratio |-> ratio, index |-> Index(a), flag |-> TRUE]
<1>1. ratio \in Nat /\ holders[a].ratio \in Nat /\ totalShared \in Nat /\ doubled \in Nat
  BY ShareAssumption DEF PieceInv, HolderRecord
<1>2. holderAddresses' \in Seq(Accounts) /\ Index(a) \in Nat
  BY EnterTypes DEF SetHolder
<1>3. h \in HolderRecord /\ h.ratio = ratio
  BY <1>1, <1>2 DEF HolderRecord
<1>4. /\ holders' = [holders EXCEPT ![a] = h]
      /\ holders[a].ratio <= totalShared + ratio
      /\ totalShared' = totalShared + ratio - holders[a].ratio /\ doubled' = doubled
  BY DEF SetHolder
<1>5. totalShared' \in Nat
  BY <1>1, <1>4
<1> HIDE DEF h
<1>6. totalShared' + doubled' = totalShared + doubled + h.ratio - holders[a].ratio
  BY <1>1, <1>3, <1>4
<1> QED
  BY <1>1, <1>2, <1>3, <1>4, <1>5, <1>6, HolderChanges

\* splitHolder moves pieces from one holder to another, and makes some when
\* both are the same.
LEMMA SplitKeepsPieces ==
  ASSUME PieceInv, NEW u \in Accounts, NEW a \in Accounts, NEW ratio \in Ratios,
         SplitHolder(u, a, ratio)
  PROVE  PieceInv'
<1> DEFINE got == holders[a].ratio + ratio
           left == holders[u].ratio - ratio
           h == [ratio |-> got, index |-> Index(a), flag |-> TRUE]
           s == [holders[u] EXCEPT !.ratio = left]
<1>1. /\ ratio \in Nat /\ totalShared \in Nat /\ doubled \in Nat
      /\ holders \in [Accounts -> HolderRecord] /\ holders[u] \in HolderRecord
      /\ holders[a].ratio \in Nat /\ holders[u].ratio \in Nat
  BY ShareAssumption DEF PieceInv, HolderRecord
<1>2. holderAddresses' \in Seq(Accounts) /\ Index(a) \in Nat
  BY EnterTypes DEF SplitHolder
<1>3. /\ holders' = [holders EXCEPT ![u].ratio = left, ![a] = h]
      /\ ratio <= holders[u].ratio /\ totalShared' = totalShared
      /\ doubled' = IF a = u THEN doubled + ratio ELSE doubled
  BY DEF SplitHolder
<1>4. h \in HolderRecord /\ h.ratio = got /\ got \in Nat /\ left \in Nat
  BY <1>1, <1>2, <1>3 DEF HolderRecord
<1>5. s \in HolderRecord /\ s.ratio = left
  BY <1>1, <1>4 DEF HolderRecord
<1>6. CASE a = u
  <2> HIDE DEF h, left
  <2>1. holders' = [holders EXCEPT ![a] = h]
    BY <1>1, <1>3, <1>6
  <2>2. totalShared' + doubled' = totalShared + doubled + h.ratio - holders[a].ratio
    BY <1>1, <1>3, <1>4, <1>6
  <2>3. totalShared' \in Nat /\ doubled' \in Nat
    BY <1>1, <1>3
  <2> QED
    BY <1>2, <1>4, <2>1, <2>2, <2>3, HolderChanges
<1>7. CASE a # u
  <2>1. /\ holders'[a] = h /\ holders'[u] = s
        /\ \A b \in Accounts \ {u, a} : holders'[b] = holders[b]
        /\ holders' \in [Accounts -> HolderRecord]
    <3> HIDE DEF h, left
    <3>1. holders'[a] = h /\ holders'[u] = s /\ \A b \in Accounts \ {u, a} : holders'[b] = holders[b]
      BY <1>1, <1>3, <1>7
    <3>2. DOMAIN holders' = Accounts /\ holders' = [b \in Accounts |-> holders'[b]]
      BY <1>1, <1>3
    <3> HIDE DEF s
    <3>3. \A b \in Accounts : holders'[b] \in HolderRecord
      BY <1>1, <1>4, <1>5, <3>1
    <3> QED
      BY <3>1, <3>2, <3>3
  <2> HIDE DEF h, s
  <2>2. /\ \A b \in Accounts : PiecesOf[b] \in Int /\ PiecesOf'[b] \in Int
        /\ \A b \in Accounts : PiecesOf[b] = holders[b].ratio /\ PiecesOf'[b] = holders'[b].ratio
    BY <1>1, <2>1 DEF PiecesOf, HolderRecord
  <2>3. \A b \in Accounts \ {u, a} : PiecesOf[b] = PiecesOf'[b]
    BY <2>1, <2>2
  <2>4. IsFiniteSet(Accounts)
    BY ShareAssumption
  <2>5. SumFunctionOnSet(PiecesOf', Accounts)
          = SumFunctionOnSet(PiecesOf, Accounts) + (PiecesOf'[u] - PiecesOf[u])
              + (PiecesOf'[a] - PiecesOf[a])
    BY <1>7, <2>2, <2>3, <2>4, SumChangeTwo
  <2>6. SumFunctionOnSet(PiecesOf, Accounts) = totalShared + doubled
    BY DEF PieceInv, SharesReconcile, PiecesOf, SumFunction
  <2>7. /\ PiecesOf'[u] = holders[u].ratio - ratio /\ PiecesOf[u] = holders[u].ratio
        /\ PiecesOf'[a] = holders[a].ratio + ratio /\ PiecesOf[a] = holders[a].ratio
    BY <1>4, <1>5, <2>1, <2>2
  <2>8. SumFunctionOnSet(PiecesOf', Accounts) = totalShared' + doubled'
    BY <1>1, <1>3, <1>7, <2>5, <2>6, <2>7
  <2>9. SharesReconcile'
    BY <2>8 DEF SharesReconcile, PiecesOf, SumFunction
  <2> QED
    BY <1>1, <1>2, <1>3, <1>7, <2>1, <2>9 DEF PieceInv
<1> QED
  BY <1>6, <1>7

\* deleteHolder takes a holder without pieces.
LEMMA DeleteKeepsPieces ==
  ASSUME PieceInv, NEW a \in Accounts, DeleteHolder(a)
  PROVE  PieceInv'
<1>1. /\ holders[a].ratio = 0 /\ holders' = [holders EXCEPT ![a] = NotHolder]
      /\ totalShared' = totalShared /\ doubled' = doubled
  BY DEF DeleteHolder
<1>2. NotHolder \in HolderRecord /\ NotHolder.ratio = 0
  BY DEF NotHolder, HolderRecord
<1>3. holderAddresses' \in Seq(Accounts)
  BY DEF DeleteHolder, PieceInv
<1>4. /\ totalShared \in Nat /\ totalShared' \in Nat
      /\ doubled \in Nat /\ doubled' \in Nat
  BY <1>1 DEF PieceInv
<1>5. totalShared' + doubled' = totalShared + doubled + NotHolder.ratio - holders[a].ratio
  BY <1>1, <1>2, <1>4
<1> QED
  BY <1>1, <1>2, <1>3, <1>4, <1>5, HolderChanges

LEMMA PieceStep ==
  ASSUME PieceInv, [TreasureNext]_treasureVars
  PROVE  PieceInv'
<1>1. CASE ShareStep
  BY <1>1, SetKeepsPieces, SplitKeepsPieces, DeleteKeepsPieces DEF ShareStep
<1>2. ASSUME UNCHANGED <<holders, holderAddresses, totalShared, doubled>>
      PROVE  PieceInv'
  BY <1>2 DEF PieceInv, SharesReconcile
<1>3. CASE ProducerStep
  BY <1>2, <1>3 DEF ProducerStep, UpdateProducer, AddProducer, SetOwner, Activate, Deactivate, shareVars
<1>4. CASE DataStep
  BY <1>2, <1>4 DEF DataStep, RegisterAssetValueRequest, ReceiveAssetValue,
                    ReceiveTrustedProductionData, ClearMonth, ClearBlock, SetProductionData, shareVars
<1>5. CASE UNCHANGED shareVars
  BY <1>2, <1>5 DEF shareVars
<1> QED
  BY <1>1, <1>3, <1>4, <1>5 DEF TreasureNext, treasureVars

\* The pieces of all holders are those the owner has given away and those that
\* holders who gave to themselves have made up, for any accounts and bounds
\* (setHolders, splitHolder, deleteHolder).
THEOREM SharesAlwaysReconcile == TreasureSpec => []SharesReconcile
<1>1. TreasureInit => PieceInv
  <2> SUFFICES ASSUME TreasureInit PROVE PieceInv
    OBVIOUS
  <2>1. IsFiniteSet(Accounts)
    BY ShareAssumption
  <2>2. \A a \in Accounts : PiecesOf[a] = 0
    BY DEF TreasureInit, ShareInit, NotHolder, PiecesOf
  <2>3. SumFunctionOnSet(PiecesOf, Accounts) = 0
    BY <2>1, <2>2, SumOfZeros
  <2>4. SharesReconcile
    BY <2>3 DEF SharesReconcile, PiecesOf, SumFunction, TreasureInit, ShareInit
  <2> QED
    BY <2>4 DEF TreasureInit, ShareInit, PieceInv, HolderRecord, NotHolder
<1>2. PieceInv /\ [TreasureNext]_treasureVars => PieceInv'
  BY PieceStep
<1>3. PieceInv => SharesReconcile
  BY DEF PieceInv
<1> QED
  BY <1>1, <1>2, <1>3, PTL DEF TreasureSpec

-----------------------------------------------------------------------------
(***************************************************************************)
(* ProducerUpgrade, the scripts that bring new implementations behind the  *)
(* producers' proxies: for any kinds, number of versions and faults, no    *)
(* proxy goes back, and what a script has reported stays true.  Everything *)
(* rests on the versions of a kind being in order: the one the proxy has,  *)
(* the one of a transaction still in the pool, the one of the run of       *)
(* upgrade-via-proxyadmin, the one configured, the last one deployed.      *)
(***************************************************************************)

Plans == UNION {[S -> Nat] : S \in SUBSET KindSet}
Reports == {"", "success", "failed", "skipped"}
Transactions == [run : {"deploy", "upgrade", "fix"}, kind : KindSet, version : Nat]
Scripts == [run : {"none", "deploy", "upgrade", "fix"}, phase : {"read", "act", "wait", "done"},
            i : Nat, plan : Plans, needs : SUBSET KindSet, results : [KindSet -> Reports],
            working : SUBSET KindSet, outcome : {"", "success", "failed"}]

TypeOK ==
  /\ impl \in [KindSet -> Nat] /\ mulSig \subseteq KindSet
  /\ pending \in [Wallets -> SUBSET Transactions]
  /\ config \in Plans
  /\ script \in [Wallets -> Scripts]
  /\ versions \in Nat

\* The configuration is ahead of the proxies, and nothing of what was deployed.
ConfigOK ==
  /\ \A k \in KindSet : impl[k] <= versions
  /\ \A k \in DOMAIN config : impl[k] <= config[k] /\ config[k] <= versions

\* A wallet has at most one transaction in the pool, and an upgrade is no step back.
PoolOK(w) ==
  /\ \A tx, other \in pending[w] : tx = other
  /\ \A tx \in pending[w] :
       /\ tx.run = "upgrade" <=> w = "owner"
       /\ tx.run = "upgrade" =>
            /\ impl[tx.kind] <= tx.version /\ tx.version <= versions
            /\ tx.kind \in DOMAIN config => tx.version <= config[tx.kind]

\* Which wallet runs what, and the state of a run nobody has reported about yet.
RunOK(w) ==
  LET s == script[w]
  IN  /\ s.run = "upgrade" => w = "owner"
      /\ s.run \in {"deploy", "fix"} => w = "manager"
      /\ s.run = "none" => s.phase = "done"
      /\ s.phase # "wait" => s.outcome = ""
      /\ s.run = "deploy" => DOMAIN s.plan = KindSet /\ \A k \in KindSet : s.plan[k] = versions

\* The plan of upgrade-via-proxyadmin lies between the proxies and the
\* configuration; what it takes for upgraded is.
PlanOK(w) ==
  LET s == script[w]
  IN  s.run = "upgrade" =>
        \A k \in DOMAIN s.plan :
          /\ impl[k] <= s.plan[k] /\ s.plan[k] <= versions
          /\ k \in DOMAIN config => s.plan[k] <= config[k]
          /\ \A tx \in pending[w] : tx.kind = k => tx.version <= s.plan[k]
          /\ s.phase # "read" /\ k \notin s.needs => s.plan[k] <= impl[k]

\* What a success, or a kind skipped, means.
Achieved(s, k) ==
  /\ s.run = "upgrade" => k \in DOMAIN s.plan /\ s.plan[k] <= impl[k]
  /\ s.run = "fix" => k \in mulSig \/ k \notin registered

\* A script that waits has nothing but its own transaction in the pool.
WaitOK(w) ==
  LET s == script[w]
  IN  s.phase = "wait" =>
        /\ s.i \in DOMAIN KindList
        /\ s.run = "upgrade" => Kind(s) \in DOMAIN s.plan
        /\ pending[w] \subseteq {Transaction(s, Kind(s))}
        /\ s.outcome = "success" => Achieved(s, Kind(s))

ResultsOK(w) ==
  \A k \in KindSet : script[w].results[k] \in {"success", "skipped"} => Achieved(script[w], k)

ScriptOK(w) == RunOK(w) /\ PlanOK(w) /\ WaitOK(w) /\ ResultsOK(w)

\* The inductive invariant.
UpgradeInv == TypeOK /\ ConfigOK /\ \A w \in Wallets : PoolOK(w) /\ ScriptOK(w)

-----------------------------------------------------------------------------
(* Data.                                                                   *)

LEMMA PlanTyped ==
  ASSUME NEW f \in Plans
  PROVE  DOMAIN f \subseteq KindSet /\ \A k \in DOMAIN f : f[k] \in Nat
BY DEF Plans

LEMMA EmptyPlan == <<>> \in Plans /\ DOMAIN <<>> = {}
<1>1. DOMAIN <<>> = {} /\ <<>> \in [{} -> Nat]
  OBVIOUS
<1>2. {} \in SUBSET KindSet
  OBVIOUS
<1>3. QED
  BY <1>1, <1>2 DEF Plans

LEMMA IdleTyped ==
  /\ Idle \in Scripts
  /\ Idle.run = "none" /\ Idle.phase = "done" /\ Idle.outcome = ""
  /\ \A k \in KindSet : Idle.results[k] = ""
BY EmptyPlan DEF Idle, Scripts, Reports

LEMMA KindTyped ==
  ASSUME NEW s \in Scripts, s.i \in DOMAIN KindList
  PROVE  Kind(s) \in KindSet
BY DEF Kind, KindSet

LEMMA AdvanceTyped ==
  ASSUME NEW s \in Scripts, s.i \in DOMAIN KindList, NEW result \in Reports
  PROVE  LET t == Advance(s, result)
         IN  /\ t \in Scripts
             /\ t.run = s.run /\ t.plan = s.plan /\ t.needs = s.needs
             /\ t.phase = "act" /\ t.outcome = ""
             /\ \A k \in KindSet : t.results[k] = IF k = Kind(s) THEN result ELSE s.results[k]
<1> DEFINE t == Advance(s, result)
<1>1. Kind(s) \in KindSet
  BY KindTyped
<1>2. PICK results : results = [s.results EXCEPT ![Kind(s)] = result]
  OBVIOUS
<1>3. /\ results \in [KindSet -> Reports]
      /\ \A k \in KindSet : results[k] = IF k = Kind(s) THEN result ELSE s.results[k]
  BY <1>1, <1>2 DEF Scripts
<1>4. s.i \in Nat
  BY DEF Scripts
<1>5. PICK next \in Nat : next = s.i + 1
  BY <1>4
<1>6. t = [s EXCEPT !.results = results, !.i = next, !.phase = "act", !.outcome = ""]
  BY <1>2, <1>5 DEF Advance, Scripts
<1> HIDE DEF t
<1>7. /\ t \in Scripts /\ t.results = results
      /\ t.run = s.run /\ t.plan = s.plan /\ t.needs = s.needs
      /\ t.phase = "act" /\ t.outcome = ""
  BY <1>3, <1>6 DEF Scripts
<1>8. QED
  BY <1>3, <1>7 DEF t

LEMMA TransactionTyped ==
  ASSUME NEW s \in Scripts, s.i \in DOMAIN KindList, s.run # "none"
  PROVE  /\ Transaction(s, Kind(s)) \in Transactions
         /\ Transaction(s, Kind(s)).run = s.run
         /\ Transaction(s, Kind(s)).kind = Kind(s)
         /\ Kind(s) \in DOMAIN s.plan => Transaction(s, Kind(s)).version = s.plan[Kind(s)]
<1>1. Kind(s) \in KindSet /\ s.plan \in Plans
  BY KindTyped DEF Scripts
<1>2. (IF Kind(s) \in DOMAIN s.plan THEN s.plan[Kind(s)] ELSE 0) \in Nat
  BY <1>1, PlanTyped
<1>3. s.run \in {"deploy", "upgrade", "fix"}
  BY DEF Scripts
<1>4. QED
  BY <1>1, <1>2, <1>3 DEF Transaction, Transactions

-----------------------------------------------------------------------------
(* Steps of a script.                                                      *)

\* A step that only moves the script of one wallet keeps the invariant if the
\* new state of that script is in order.
LEMMA ScriptMoves ==
  ASSUME UpgradeInv, NEW w \in Wallets, NEW s \in Scripts, Set(w, s),
         UNCHANGED <<network, pending, config, versions>>,
         ScriptOK(w)'
  PROVE  UpgradeInv'
<1>1. /\ script' \in [Wallets -> Scripts] /\ script'[w] = s
      /\ \A x \in Wallets \ {w} : script'[x] = script[x]
  BY DEF UpgradeInv, TypeOK, Set
<1>2. TypeOK' /\ ConfigOK'
  BY <1>1 DEF UpgradeInv, TypeOK, ConfigOK, network
<1>3. ASSUME NEW x \in Wallets
      PROVE  PoolOK(x)'
  BY DEF UpgradeInv, PoolOK, network
<1>4. ASSUME NEW x \in Wallets \ {w}
      PROVE  ScriptOK(x)'
  BY <1>1 DEF UpgradeInv, ScriptOK, RunOK, PlanOK, WaitOK, ResultsOK, Achieved, network
<1>5. QED
  BY <1>2, <1>3, <1>4 DEF UpgradeInv

\* A script goes on to the next kind, with a report that is true.
LEMMA AdvanceKeeps ==
  ASSUME UpgradeInv, NEW w \in Wallets, script[w].i \in DOMAIN KindList,
         script[w].phase \in {"act", "wait"},
         NEW result \in Reports, Set(w, Advance(script[w], result)),
         result \in {"success", "skipped"} => Achieved(script[w], Kind(script[w])),
         UNCHANGED <<network, pending, config, versions>>
  PROVE  UpgradeInv'
<1> DEFINE s == script[w]
           t == Advance(s, result)
<1>1. s \in Scripts /\ s.i \in DOMAIN KindList
  BY DEF UpgradeInv, TypeOK
<1> HIDE DEF s
<1>2. /\ t \in Scripts
      /\ t.run = s.run /\ t.plan = s.plan /\ t.needs = s.needs
      /\ t.phase = "act" /\ t.outcome = ""
      /\ \A k \in KindSet : t.results[k] = IF k = Kind(s) THEN result ELSE s.results[k]
  BY <1>1, AdvanceTyped
<1> HIDE DEF t
<1>3. script'[w] = t
  BY DEF Set, t, s, UpgradeInv, TypeOK
<1>4. ScriptOK(w)
  BY DEF UpgradeInv
<1>5. RunOK(w)' /\ WaitOK(w)'
  BY <1>2, <1>3, <1>4 DEF ScriptOK, RunOK, WaitOK, s
<1>6. PlanOK(w)'
  BY <1>2, <1>3, <1>4 DEF ScriptOK, PlanOK, network, s
<1>7. ResultsOK(w)'
  BY <1>2, <1>3, <1>4 DEF ScriptOK, ResultsOK, Achieved, network, s
<1>8. Set(w, t)
  BY DEF t, s
<1>9. QED
  BY <1>2, <1>5, <1>6, <1>7, <1>8, ScriptMoves DEF ScriptOK

LEMMA IdleKeeps ==
  ASSUME UpgradeInv, NEW w \in Wallets, Set(w, Idle), UNCHANGED <<network, pending, config, versions>>
  PROVE  UpgradeInv'
<1>1. script'[w] = Idle
  BY DEF Set, UpgradeInv, TypeOK
<1>2. ScriptOK(w)'
  BY <1>1, IdleTyped DEF ScriptOK, RunOK, PlanOK, WaitOK, ResultsOK
<1>3. QED
  BY <1>2, IdleTyped, ScriptMoves

\* A kind is skipped by upgrade-via-proxyadmin when it was read as upgraded, by
\* fix-mulsig-addresses when it has the multisig or nobody knows it.
LEMMA SkipKeeps ==
  ASSUME UpgradeInv, NEW w \in Wallets, Skip(w)
  PROVE  UpgradeInv'
<1> DEFINE s == script[w]
           decision == Decision(s, Kind(s))
<1>1. s \in Scripts /\ s.phase = "act" /\ s.i \in DOMAIN KindList
  BY DEF UpgradeInv, TypeOK, Skip, Acting
<1>2. ScriptOK(w) /\ s.run # "none"
  BY <1>1 DEF UpgradeInv, ScriptOK, RunOK
<1>3. s.run \in {"deploy", "upgrade", "fix"}
  BY <1>1, <1>2 DEF Scripts
<1>4. decision \in Reports \cup {"send"}
  BY <1>3 DEF Decision, Reports
<1>5. decision \in {"success", "skipped"} => Achieved(s, Kind(s))
  BY <1>1, <1>2, <1>3 DEF Decision, Achieved, ScriptOK, PlanOK
<1>6. decision \in Reports /\ Set(w, Advance(s, decision)) /\ UNCHANGED <<network, pending, config, versions>>
  BY <1>4 DEF Skip
<1>7. QED
  BY <1>1, <1>5, <1>6, AdvanceKeeps

LEMMA ConfirmKeeps ==
  ASSUME UpgradeInv, NEW w \in Wallets, Confirm(w)
  PROVE  UpgradeInv'
<1>1. script[w] \in Scripts /\ WaitOK(w)
  BY DEF UpgradeInv, TypeOK, ScriptOK
<1>2. /\ script[w].phase = "wait" /\ script[w].i \in DOMAIN KindList
      /\ script[w].outcome \in {"success", "failed"}
      /\ script[w].outcome = "success" => Achieved(script[w], Kind(script[w]))
  BY <1>1 DEF Confirm, WaitOK, Scripts
<1>3. Set(w, Advance(script[w], script[w].outcome)) /\ UNCHANGED <<network, pending, config, versions>>
  BY DEF Confirm
<1>4. QED
  BY <1>2, <1>3, AdvanceKeeps DEF Reports

LEMMA GiveUpKeeps ==
  ASSUME UpgradeInv, NEW w \in Wallets, GiveUp(w) \/ CallFails(w)
  PROVE  UpgradeInv'
<1>1. /\ script[w].phase \in {"act", "wait"} /\ script[w].i \in DOMAIN KindList
      /\ Set(w, Advance(script[w], "failed")) /\ UNCHANGED <<network, pending, config, versions>>
  BY DEF GiveUp, CallFails, Acting, UpgradeInv, ScriptOK, WaitOK
<1>2. QED
  BY <1>1, AdvanceKeeps DEF Reports

LEMMA ReadKeeps ==
  ASSUME UpgradeInv, NEW w \in Wallets, Read(w)
  PROVE  UpgradeInv'
<1> DEFINE s == script[w]
<1>1. PICK unread \in SUBSET KindSet :
        Set(w, [s EXCEPT !.phase = "act",
                         !.needs = {k \in DOMAIN s.plan : k \in unread \/ impl[k] # s.plan[k]}])
  BY DEF Read
<1> DEFINE t == [s EXCEPT !.phase = "act",
                          !.needs = {k \in DOMAIN s.plan : k \in unread \/ impl[k] # s.plan[k]}]
<1>2. s \in Scripts /\ s.phase = "read" /\ ScriptOK(w) /\ s.plan \in Plans
  BY DEF UpgradeInv, TypeOK, Read, Scripts
<1>3. /\ t.run = s.run /\ t.plan = s.plan /\ t.results = s.results /\ t.outcome = s.outcome
      /\ t.phase = "act" /\ t.needs = {k \in DOMAIN s.plan : k \in unread \/ impl[k] # s.plan[k]}
      /\ t \in Scripts
  BY <1>2, PlanTyped DEF Scripts
<1>4. /\ Set(w, t) /\ script'[w] = t
      /\ UNCHANGED <<network, pending, config, versions>>
  BY <1>1 DEF Read, Set, UpgradeInv, TypeOK
<1> HIDE DEF t
<1>5. RunOK(w)' /\ WaitOK(w)' /\ ResultsOK(w)'
  BY <1>2, <1>3, <1>4 DEF ScriptOK, RunOK, WaitOK, ResultsOK, Achieved, network
<1>6. PlanOK(w)'
  BY <1>2, <1>3, <1>4 DEF ScriptOK, PlanOK, network
<1>7. QED
  BY <1>3, <1>4, <1>5, <1>6, ScriptMoves DEF ScriptOK

LEMMA FinishKeeps ==
  ASSUME UpgradeInv, NEW w \in Wallets, Finish(w)
  PROVE  UpgradeInv'
<1> DEFINE s == script[w]
<1>1. s \in Scripts /\ s.phase = "act" /\ ScriptOK(w) /\ DOMAIN s.plan \subseteq KindSet
  BY PlanTyped DEF UpgradeInv, TypeOK, Finish, Scripts
<1>2. PICK left \in SUBSET KindSet : Set(w, [s EXCEPT !.phase = "done", !.working = left])
  BY <1>1 DEF Finish
<1> DEFINE t == [s EXCEPT !.phase = "done", !.working = left]
<1>3. /\ t.run = s.run /\ t.plan = s.plan /\ t.results = s.results /\ t.outcome = s.outcome
      /\ t.needs = s.needs /\ t.phase = "done" /\ t \in Scripts
  BY <1>1 DEF Scripts
<1>4. /\ Set(w, t) /\ script'[w] = t
      /\ UNCHANGED <<network, pending, config, versions>>
  BY <1>2 DEF Finish, Set, UpgradeInv, TypeOK
<1> HIDE DEF t
<1>5. ScriptOK(w)'
  BY <1>1, <1>3, <1>4 DEF ScriptOK, RunOK, PlanOK, WaitOK, ResultsOK, Achieved, network
<1>6. QED
  BY <1>3, <1>4, <1>5, ScriptMoves

\* A script sends the version of its plan, which is ahead of the proxy, and its
\* transaction is then the only one of its wallet.
LEMMA SendKeeps ==
  ASSUME UpgradeInv, NEW w \in Wallets, Send(w)
  PROVE  UpgradeInv'
<1> DEFINE s == script[w]
           tx == Transaction(s, Kind(s))
           t == [s EXCEPT !.phase = "wait"]
<1>1. /\ s \in Scripts /\ s.phase = "act" /\ s.i \in DOMAIN KindList
      /\ ScriptOK(w) /\ PoolOK(w) /\ ConfigOK /\ s.plan \in Plans
  BY DEF UpgradeInv, TypeOK, Send, Acting, Scripts
<1>2. s.run \in {"deploy", "upgrade", "fix"} /\ Decision(s, Kind(s)) = "send"
  BY <1>1 DEF Send, ScriptOK, RunOK, Scripts
<1>3. s.run = "upgrade" => Kind(s) \in DOMAIN s.plan
  BY <1>2 DEF Decision
<1>4. /\ tx \in Transactions /\ tx.run = s.run /\ tx.kind = Kind(s)
      /\ Kind(s) \in DOMAIN s.plan => tx.version = s.plan[Kind(s)]
  BY <1>1, <1>2, TransactionTyped
<1>5. CASE Set(w, Advance(s, "failed")) /\ UNCHANGED pending
  <2>1. UNCHANGED <<network, pending, config, versions>>
    BY <1>5 DEF Send
  <2>2. QED
    BY <1>1, <1>5, <2>1, AdvanceKeeps DEF Reports
<1>6. CASE pending' = [pending EXCEPT ![w] = {tx}] /\ Set(w, t)
  <2>1. /\ t.run = s.run /\ t.plan = s.plan /\ t.results = s.results /\ t.outcome = s.outcome
        /\ t.needs = s.needs /\ t.i = s.i /\ t.phase = "wait" /\ t \in Scripts
    BY <1>1 DEF Scripts
  <2>2. Transaction(t, Kind(t)) = tx /\ Kind(t) = Kind(s)
    BY <2>1 DEF Transaction, Kind
  <2> HIDE DEF t, tx
  <2>3. /\ script' = [script EXCEPT ![w] = t] /\ script' \in [Wallets -> Scripts] /\ script'[w] = t
        /\ \A x \in Wallets \ {w} : script'[x] = script[x]
    BY <1>6, <2>1 DEF Set, UpgradeInv, TypeOK
  <2>4. /\ pending' \in [Wallets -> SUBSET Transactions] /\ pending'[w] = {tx}
        /\ \A x \in Wallets \ {w} : pending'[x] = pending[x]
    BY <1>4, <1>6 DEF UpgradeInv, TypeOK
  <2>5. UNCHANGED <<network, config, versions>>
    BY DEF Send
  <2>6. TypeOK' /\ ConfigOK'
    BY <2>3, <2>4, <2>5 DEF UpgradeInv, TypeOK, ConfigOK, network
  <2>7. PoolOK(w)'
    <3>1. tx.run = "upgrade" <=> w = "owner"
      BY <1>1, <1>2, <1>4 DEF ScriptOK, RunOK, Wallets
    <3>2. tx.run = "upgrade" =>
            /\ impl[tx.kind] <= tx.version /\ tx.version <= versions
            /\ tx.kind \in DOMAIN config => tx.version <= config[tx.kind]
      BY <1>1, <1>3, <1>4 DEF ScriptOK, PlanOK
    <3>3. QED
      BY <2>4, <2>5, <3>1, <3>2 DEF PoolOK, network
  <2>8. RunOK(w)'
    BY <1>1, <2>1, <2>3, <2>5 DEF ScriptOK, RunOK
  <2>9. PlanOK(w)'
    <3>1. impl' = impl /\ config' = config /\ versions' = versions
      BY <2>5 DEF network
    <3>2. \A k \in DOMAIN s.plan : s.run = "upgrade" /\ tx.kind = k => tx.version <= s.plan[k]
      BY <1>4, <1>1, PlanTyped
    <3>3. QED
      BY <1>1, <2>1, <2>3, <2>4, <3>1, <3>2 DEF ScriptOK, PlanOK
  <2>10. WaitOK(w)'
    <3>1. Kind(script'[w]) = Kind(s) /\ Transaction(script'[w], Kind(script'[w])) = tx
      BY <2>2, <2>3
    <3>2. script'[w].outcome # "success"
      BY <1>1, <2>1, <2>3 DEF ScriptOK, RunOK
    <3>3. QED
      BY <1>1, <1>3, <2>1, <2>3, <2>4, <3>1, <3>2 DEF WaitOK
  <2>11. ResultsOK(w)'
    BY <1>1, <2>1, <2>3, <2>5 DEF ScriptOK, ResultsOK, Achieved, network
  <2>12. ASSUME NEW x \in Wallets \ {w}
         PROVE  PoolOK(x)' /\ ScriptOK(x)'
    <3>1. /\ script'[x] = script[x] /\ pending'[x] = pending[x]
          /\ impl' = impl /\ mulSig' = mulSig /\ registered' = registered
          /\ config' = config /\ versions' = versions
      BY <2>3, <2>4, <2>5 DEF network
    <3>2. PoolOK(x) /\ ScriptOK(x)
      BY DEF UpgradeInv
    <3>3. PoolOK(x)' /\ RunOK(x)' /\ PlanOK(x)'
      BY <3>1, <3>2 DEF PoolOK, ScriptOK, RunOK, PlanOK
    <3>4. WaitOK(x)' /\ ResultsOK(x)'
      BY <3>1, <3>2 DEF ScriptOK, WaitOK, ResultsOK, Achieved
    <3>5. QED
      BY <3>3, <3>4 DEF ScriptOK
  <2>13. QED
    BY <2>6, <2>7, <2>8, <2>9, <2>10, <2>11, <2>12 DEF UpgradeInv, ScriptOK
<1>7. QED
  BY <1>5, <1>6 DEF Send

-----------------------------------------------------------------------------
(* Steps of the operators and of the network.                              *)

LEMMA StartUpgradeKeeps ==
  ASSUME UpgradeInv, StartUpgrade
  PROVE  UpgradeInv'
<1> DEFINE t == [Idle EXCEPT !.run = "upgrade", !.phase = "read", !.plan = config]
<1>1. config \in Plans /\ script \in [Wallets -> Scripts] /\ "owner" \in Wallets
  BY DEF UpgradeInv, TypeOK, Wallets
<1>2. /\ t \in Scripts
      /\ t.run = "upgrade" /\ t.phase = "read" /\ t.plan = config /\ t.outcome = ""
      /\ \A k \in KindSet : t.results[k] = ""
  BY <1>1, EmptyPlan DEF Idle, Scripts, Reports
<1>3. Set("owner", t) /\ UNCHANGED <<network, pending, config, versions>>
  BY DEF StartUpgrade, Start, Set
<1> HIDE DEF t
<1>4. script'["owner"] = t
  BY <1>1, <1>3 DEF Set
<1>5. RunOK("owner")' /\ WaitOK("owner")' /\ ResultsOK("owner")'
  BY <1>2, <1>4 DEF RunOK, WaitOK, ResultsOK
<1>6. PlanOK("owner")'
  <2>1. ASSUME NEW k \in DOMAIN config
        PROVE  /\ impl[k] <= config[k] /\ config[k] <= versions /\ config[k] <= config[k]
               /\ \A tx \in pending["owner"] : tx.kind = k => tx.version <= config[k]
    BY <1>1, PlanTyped DEF UpgradeInv, ConfigOK, PoolOK
  <2>2. QED
    BY <1>2, <1>3, <1>4, <2>1 DEF PlanOK, network
<1>7. QED
  BY <1>1, <1>2, <1>3, <1>5, <1>6, ScriptMoves DEF ScriptOK

LEMMA StartFixKeeps ==
  ASSUME UpgradeInv, StartFix
  PROVE  UpgradeInv'
<1> DEFINE t == [Idle EXCEPT !.run = "fix", !.phase = "act", !.plan = <<>>]
<1>1. script \in [Wallets -> Scripts] /\ "manager" \in Wallets
  BY DEF UpgradeInv, TypeOK, Wallets
<1>2. /\ t \in Scripts
      /\ t.run = "fix" /\ t.phase = "act" /\ t.plan = <<>> /\ t.outcome = ""
      /\ \A k \in KindSet : t.results[k] = ""
  BY EmptyPlan DEF Idle, Scripts, Reports
<1>3. Set("manager", t) /\ UNCHANGED <<network, pending, config, versions>>
  BY DEF StartFix, Start, Set
<1> HIDE DEF t
<1>4. script'["manager"] = t
  BY <1>1, <1>3 DEF Set
<1>5. ScriptOK("manager")'
  BY <1>2, <1>4 DEF ScriptOK, RunOK, WaitOK, ResultsOK, PlanOK
<1>6. QED
  BY <1>1, <1>2, <1>3, <1>5, ScriptMoves

\* A new version is ahead of everything.
LEMMA StartDeployKeeps ==
  ASSUME UpgradeInv, StartDeploy
  PROVE  UpgradeInv'
<1> DEFINE plan == [k \in KindSet |-> versions + 1]
           t == [Idle EXCEPT !.run = "deploy", !.phase = "act", !.plan = plan]
<1>1. versions \in Nat /\ script \in [Wallets -> Scripts] /\ "manager" \in Wallets
  BY DEF UpgradeInv, TypeOK, Wallets
<1>2. plan \in Plans /\ DOMAIN plan = KindSet /\ \A k \in KindSet : plan[k] = versions + 1
  BY <1>1 DEF Plans
<1> HIDE DEF plan
<1>3. /\ t \in Scripts
      /\ t.run = "deploy" /\ t.phase = "act" /\ t.plan = plan /\ t.outcome = ""
      /\ \A k \in KindSet : t.results[k] = ""
  BY <1>2, EmptyPlan DEF Idle, Scripts, Reports
<1>4. versions' = versions + 1 /\ UNCHANGED <<network, pending, config>>
  BY DEF StartDeploy
<1>5. script' = [script EXCEPT !["manager"] = t]
  BY DEF StartDeploy, Start, plan
<1> HIDE DEF t
<1>6. /\ script' \in [Wallets -> Scripts] /\ script'["manager"] = t
      /\ \A x \in Wallets \ {"manager"} : script'[x] = script[x]
  BY <1>1, <1>3, <1>5
<1>7. TypeOK'
  BY <1>1, <1>4, <1>6 DEF UpgradeInv, TypeOK, network
<1>8. ConfigOK'
  BY <1>1, <1>4, PlanTyped DEF UpgradeInv, TypeOK, ConfigOK, network
<1>9. ASSUME NEW x \in Wallets
      PROVE  PoolOK(x)'
  <2>1. \A tx \in pending[x] : tx.version \in Nat
    BY DEF UpgradeInv, TypeOK, Transactions
  <2>2. PoolOK(x)
    BY DEF UpgradeInv
  <2>3. \A tx \in pending[x] : tx.version <= versions => tx.version <= versions'
    BY <1>1, <1>4, <2>1
  <2>4. QED
    BY <1>4, <2>2, <2>3 DEF PoolOK, network
<1>10. ScriptOK("manager")'
  BY <1>2, <1>3, <1>4, <1>6 DEF ScriptOK, RunOK, WaitOK, ResultsOK, PlanOK
<1>11. ASSUME NEW x \in Wallets \ {"manager"}
       PROVE  ScriptOK(x)'
  <2>1. script[x].plan \in Plans /\ ScriptOK(x) /\ script'[x] = script[x]
    BY <1>6 DEF UpgradeInv, TypeOK, Scripts
  <2>2. \A k \in DOMAIN script[x].plan : script[x].plan[k] \in Nat
    BY <2>1, PlanTyped
  <2>3. RunOK(x)'
    BY <2>1 DEF ScriptOK, RunOK
  <2>4. PlanOK(x)'
    <3>1. \A k \in DOMAIN script[x].plan : script[x].plan[k] <= versions => script[x].plan[k] <= versions'
      BY <1>1, <1>4, <2>2
    <3>2. QED
      BY <1>4, <2>1, <3>1 DEF ScriptOK, PlanOK, network
  <2>5. WaitOK(x)' /\ ResultsOK(x)'
    BY <1>4, <2>1 DEF ScriptOK, WaitOK, ResultsOK, Achieved, network
  <2>6. QED
    BY <2>3, <2>4, <2>5 DEF ScriptOK
<1>12. QED
  BY <1>7, <1>8, <1>9, <1>10, <1>11 DEF UpgradeInv

\* What is filled in is the newest version, which no transaction, run or proxy
\* is ahead of; what is kept was ahead of them before.
LEMMA ConfigureKeeps ==
  ASSUME UpgradeInv, Configure
  PROVE  UpgradeInv'
<1> DEFINE s == script["manager"]
           deployed == {k \in KindSet : s.results[k] = "success"}
           Filled(S) == [k \in S |-> IF k \in deployed THEN s.plan[k] ELSE config[k]]
<1>1. /\ versions \in Nat /\ config \in Plans /\ DOMAIN config \subseteq KindSet
      /\ \A k \in DOMAIN config : config[k] \in Nat
  BY PlanTyped DEF UpgradeInv, TypeOK
<1>2. \A k \in KindSet : s.plan[k] = versions
  BY DEF UpgradeInv, Configure, Wallets, ScriptOK, RunOK
<1>3. PICK S \in SUBSET KindSet : S \subseteq deployed \cup DOMAIN config /\ config' = Filled(S)
  BY <1>1 DEF Configure
<1>4. /\ config' \in [S -> Nat] /\ DOMAIN config' = S
      /\ \A k \in S : config'[k] = versions \/ (k \in DOMAIN config /\ config'[k] = config[k])
  BY <1>1, <1>2, <1>3
<1>5. config' \in Plans
  BY <1>4 DEF Plans
<1>6. UNCHANGED <<network, pending, script, versions>>
  BY DEF Configure
<1>7. TypeOK'
  BY <1>5, <1>6 DEF UpgradeInv, TypeOK, network
<1>8. ConfigOK'
  BY <1>1, <1>4, <1>6 DEF UpgradeInv, ConfigOK, network
<1>9. ASSUME NEW w \in Wallets
      PROVE  PoolOK(w)'
  BY <1>4, <1>6 DEF UpgradeInv, PoolOK, network
<1>10. ASSUME NEW w \in Wallets
       PROVE  ScriptOK(w)'
  <2>1. RunOK(w)' /\ WaitOK(w)' /\ ResultsOK(w)'
    BY <1>6 DEF UpgradeInv, ScriptOK, RunOK, WaitOK, ResultsOK, Achieved, network
  <2>2. PlanOK(w)'
    BY <1>4, <1>6 DEF UpgradeInv, ScriptOK, PlanOK, network
  <2>3. QED
    BY <2>1, <2>2 DEF ScriptOK
<1>11. QED
  BY <1>7, <1>8, <1>9, <1>10 DEF UpgradeInv

\* A transaction lost leaves less to be in order; managers are not part of it.
LEMMA LoseKeeps ==
  ASSUME UpgradeInv,
         \/ \E w \in Wallets : Lose(w)
         \/ \E ms \in SUBSET Wallets : ChangeManagers(ms)
         \/ UNCHANGED vars
  PROVE  UpgradeInv'
<1>1. /\ impl' = impl /\ mulSig' = mulSig /\ registered' = registered
      /\ config' = config /\ script' = script /\ versions' = versions
  BY DEF Lose, ChangeManagers, network, vars
<1>2. /\ pending' \in [Wallets -> SUBSET Transactions]
      /\ \A x \in Wallets : pending'[x] \subseteq pending[x]
  BY DEF Lose, ChangeManagers, vars, UpgradeInv, TypeOK
<1>3. TypeOK' /\ ConfigOK'
  BY <1>1, <1>2 DEF UpgradeInv, TypeOK, ConfigOK
<1>4. ASSUME NEW x \in Wallets
      PROVE  PoolOK(x)' /\ ScriptOK(x)'
  <2>1. PoolOK(x) /\ ScriptOK(x)
    BY DEF UpgradeInv
  <2>2. PoolOK(x)'
    BY <1>1, <1>2, <2>1 DEF PoolOK
  <2>3. RunOK(x)'
    BY <1>1, <2>1 DEF ScriptOK, RunOK
  <2>4. PlanOK(x)'
    BY <1>1, <1>2, <2>1 DEF ScriptOK, PlanOK
  <2>5. WaitOK(x)'
    BY <1>1, <1>2, <2>1 DEF ScriptOK, WaitOK, Achieved
  <2>6. ResultsOK(x)'
    BY <1>1, <2>1 DEF ScriptOK, ResultsOK, Achieved
  <2>7. QED
    BY <2>2, <2>3, <2>4, <2>5, <2>6 DEF ScriptOK
<1>5. QED
  BY <1>3, <1>4 DEF UpgradeInv

\* The one transaction of a wallet takes its proxy forward, not past what any
\* later run or configuration has for that kind; if its script waits, it waits
\* for this one.
LEMMA MineKeeps ==
  ASSUME UpgradeInv, NEW w \in Wallets, Mine(w)
  PROVE  UpgradeInv' /\ \A k \in KindSet : impl[k] <= impl'[k]
<1>1. PICK tx \in pending[w] :
        /\ pending' = [pending EXCEPT ![w] = @ \ {tx}]
        /\ Settle(w, IF Succeeds(w, tx) THEN "success" ELSE "failed")
        /\ impl' = IF tx.run = "upgrade" THEN [impl EXCEPT ![tx.kind] = tx.version] ELSE impl
        /\ mulSig' = IF tx.run = "fix" /\ Succeeds(w, tx) THEN mulSig \cup {tx.kind} ELSE mulSig
        /\ UNCHANGED <<registered, managers, config, versions, faults>>
  BY DEF Mine
<1> DEFINE s == script[w]
           outcome == IF Succeeds(w, tx) THEN "success" ELSE "failed"
<1>2. /\ tx \in Transactions /\ PoolOK(w) /\ ScriptOK(w) /\ s \in Scripts
      /\ tx.kind \in KindSet /\ tx.version \in Nat
      /\ impl \in [KindSet -> Nat] /\ versions \in Nat
  BY DEF UpgradeInv, TypeOK, Transactions
<1>3. pending' \in [Wallets -> SUBSET Transactions] /\ pending'[w] = {}
      /\ \A x \in Wallets : pending'[x] \subseteq pending[x]
  BY <1>1, <1>2 DEF UpgradeInv, TypeOK, PoolOK
<1>4. /\ impl' \in [KindSet -> Nat]
      /\ \A k \in KindSet : impl'[k] = impl[k] \/ (impl'[k] = tx.version /\ k = tx.kind /\ tx.run = "upgrade")
      /\ \A k \in KindSet : impl[k] <= impl'[k]
  BY <1>1, <1>2 DEF PoolOK
<1>5. mulSig \subseteq mulSig' /\ mulSig' \subseteq KindSet
  BY <1>1, <1>2 DEF UpgradeInv, TypeOK
<1>6. outcome \in {"success", "failed"}
  OBVIOUS
<1>7. script' = IF s.phase = "wait" THEN [script EXCEPT ![w] = [s EXCEPT !.outcome = outcome]] ELSE script
  BY <1>1 DEF Settle
<1> HIDE DEF outcome
<1>8. PICK t : t = IF s.phase = "wait" THEN [s EXCEPT !.outcome = outcome] ELSE s
  OBVIOUS
<1>9. /\ t \in Scripts
      /\ t.run = s.run /\ t.phase = s.phase /\ t.i = s.i /\ t.plan = s.plan
      /\ t.needs = s.needs /\ t.results = s.results
      /\ t.outcome = IF s.phase = "wait" THEN outcome ELSE s.outcome
  BY <1>2, <1>6, <1>8 DEF Scripts
<1>10. script \in [Wallets -> Scripts]
  BY DEF UpgradeInv, TypeOK
<1>11. /\ script' \in [Wallets -> Scripts] /\ script'[w] = t
       /\ \A x \in Wallets \ {w} : script'[x] = script[x]
  BY <1>7, <1>8, <1>9, <1>10
<1>12. config' = config /\ versions' = versions /\ registered' = registered
  BY <1>1
<1>13. TypeOK'
  BY <1>3, <1>4, <1>5, <1>11, <1>12 DEF UpgradeInv, TypeOK
<1>14. ConfigOK'
  <2>1. DOMAIN config \subseteq KindSet
    BY PlanTyped DEF UpgradeInv, TypeOK
  <2>2. QED
    BY <1>2, <1>4, <1>12, <2>1 DEF UpgradeInv, ConfigOK, PoolOK
<1>15. ASSUME NEW x \in Wallets
       PROVE  PoolOK(x)'
  <2>1. PoolOK(x)
    BY DEF UpgradeInv
  <2>2. CASE x = w
    BY <1>3, <2>2 DEF PoolOK
  <2>3. CASE x # w
    <3>1. \A other \in pending[x] : tx.run = "upgrade" => other.run # "upgrade"
      BY <1>2, <2>1, <2>3 DEF PoolOK
    <3>2. \A other \in pending[x] : other.kind \in KindSet
      BY DEF UpgradeInv, TypeOK, Transactions
    <3>3. \A other \in pending'[x] : other.run = "upgrade" => impl'[other.kind] = impl[other.kind]
      BY <1>3, <1>4, <3>1, <3>2
    <3>4. QED
      BY <1>3, <1>12, <2>1, <3>3 DEF PoolOK
  <2>4. QED
    BY <2>2, <2>3
<1>16. ASSUME NEW x \in Wallets
       PROVE  /\ script'[x].run = script[x].run /\ script'[x].phase = script[x].phase
              /\ script'[x].i = script[x].i /\ script'[x].plan = script[x].plan
              /\ script'[x].needs = script[x].needs /\ script'[x].results = script[x].results
              /\ script'[x].outcome = IF x = w /\ s.phase = "wait" THEN outcome ELSE script[x].outcome
  BY <1>9, <1>11
<1>17. ASSUME NEW x \in Wallets, NEW k \in KindSet, Achieved(script[x], k)
       PROVE  Achieved(script[x], k)'
  <2>1. script[x].plan \in Plans
    BY DEF UpgradeInv, TypeOK, Scripts
  <2>2. \A j \in DOMAIN script[x].plan : script[x].plan[j] \in Nat
    BY <2>1, PlanTyped
  <2>3. QED
    BY <1>2, <1>4, <1>5, <1>12, <1>16, <1>17, <2>2 DEF Achieved
<1>18. ASSUME NEW x \in Wallets
       PROVE  ScriptOK(x)'
  <2>1. ScriptOK(x) /\ script[x] \in Scripts
    BY DEF UpgradeInv, TypeOK
  <2>2. /\ script[x].plan \in Plans /\ DOMAIN script[x].plan \subseteq KindSet
        /\ \A j \in DOMAIN script[x].plan : script[x].plan[j] \in Nat
    BY <2>1, PlanTyped DEF Scripts
  <2>3. RunOK(x)'
    BY <1>12, <1>16, <2>1 DEF ScriptOK, RunOK
  <2>4. PlanOK(x)'
    <3>1. SUFFICES ASSUME script[x].run = "upgrade", NEW k \in DOMAIN script[x].plan
          PROVE  /\ impl'[k] <= script[x].plan[k] /\ script[x].plan[k] <= versions
                 /\ k \in DOMAIN config => script[x].plan[k] <= config[k]
                 /\ \A other \in pending'[x] : other.kind = k => other.version <= script[x].plan[k]
                 /\ script[x].phase # "read" /\ k \notin script[x].needs => script[x].plan[k] <= impl'[k]
      BY <1>12, <1>16 DEF PlanOK
    <3>2. x = "owner" /\ (tx.run = "upgrade" => w = "owner")
      BY <1>2, <2>1, <3>1 DEF ScriptOK, RunOK, PoolOK
    <3>3. impl'[k] <= script[x].plan[k]
      BY <1>2, <1>4, <2>1, <2>2, <3>1, <3>2 DEF ScriptOK, PlanOK
    <3>4. script[x].phase # "read" /\ k \notin script[x].needs => script[x].plan[k] <= impl'[k]
      BY <1>2, <1>4, <2>1, <2>2, <3>1 DEF ScriptOK, PlanOK
    <3>5. QED
      BY <1>3, <2>1, <3>1, <3>3, <3>4 DEF ScriptOK, PlanOK
  <2>5. WaitOK(x)'
    <3>1. SUFFICES ASSUME script[x].phase = "wait"
          PROVE  WaitOK(x)'
      BY <1>16 DEF WaitOK
    <3>2. script[x].i \in DOMAIN KindList /\ script[x].run # "none"
      BY <2>1, <3>1 DEF ScriptOK, WaitOK, RunOK
    <3>3. PICK k \in KindSet : k = Kind(script[x])
      BY <2>1, <3>2, KindTyped
    <3>4. /\ Kind(script'[x]) = k
          /\ Transaction(script'[x], k) = Transaction(script[x], k)
      BY <1>16, <3>3 DEF Kind, Transaction
    <3>5. /\ script[x].run = "upgrade" => k \in DOMAIN script[x].plan
          /\ pending[x] \subseteq {Transaction(script[x], k)}
          /\ script[x].outcome = "success" => Achieved(script[x], k)
      BY <2>1, <3>1, <3>3 DEF ScriptOK, WaitOK
    <3>6. script'[x].outcome = "success" => Achieved(script[x], k)'
      <4>1. CASE x # w
        BY <1>16, <1>17, <3>5, <4>1
      <4>2. CASE x = w
        <5>1. SUFFICES ASSUME outcome = "success"
              PROVE  Achieved(script[x], k)'
          BY <1>16, <3>1, <4>2
        <5>2. tx = Transaction(script[x], k) /\ Succeeds(w, tx)
          BY <3>5, <4>2, <5>1 DEF outcome
        <5>3. /\ tx.run = script[x].run /\ tx.kind = k
              /\ k \in DOMAIN script[x].plan => tx.version = script[x].plan[k]
          BY <2>1, <3>2, <3>3, <5>2, TransactionTyped
        <5>4. script[x].run = "upgrade" => k \in DOMAIN script[x].plan /\ script[x].plan[k] <= impl'[k]
          BY <1>1, <1>2, <3>5, <5>3
        <5>5. script[x].run = "fix" => k \in mulSig'
          BY <1>1, <5>2, <5>3
        <5>6. QED
          BY <1>16, <5>4, <5>5 DEF Achieved
      <4>3. QED
        BY <4>1, <4>2
    <3>7. QED
      BY <1>3, <1>16, <3>2, <3>4, <3>5, <3>6 DEF WaitOK
  <2>6. ResultsOK(x)'
    BY <1>16, <1>17, <2>1 DEF ScriptOK, ResultsOK
  <2>7. QED
    BY <2>3, <2>4, <2>5, <2>6 DEF ScriptOK
<1>19. QED
  BY <1>4, <1>13, <1>14, <1>15, <1>18 DEF UpgradeInv

-----------------------------------------------------------------------------
(* The theorems.                                                           *)

LEMMA InitOK == Init => UpgradeInv
<1> SUFFICES ASSUME Init
    PROVE  UpgradeInv
  OBVIOUS
<1>1. [k \in KindSet |-> 0] \in Plans /\ [k \in KindSet |-> 0] \in [KindSet -> Nat]
  BY DEF Plans
<1>2. TypeOK
  BY <1>1, IdleTyped DEF Init, TypeOK
<1>3. ConfigOK
  BY DEF Init, ConfigOK
<1>4. ASSUME NEW w \in Wallets
      PROVE  PoolOK(w) /\ ScriptOK(w)
  BY IdleTyped DEF Init, PoolOK, ScriptOK, RunOK, PlanOK, WaitOK, ResultsOK
<1>5. QED
  BY <1>2, <1>3, <1>4 DEF UpgradeInv

LEMMA StepOK ==
  ASSUME UpgradeInv, [Next]_vars
  PROVE  UpgradeInv'
<1>1. ASSUME NEW w \in Wallets, ScriptStep(w) \/ CallFails(w) \/ Crash(w)
      PROVE  UpgradeInv'
  <2>1. CASE Crash(w)
    BY <2>1, IdleKeeps DEF Crash
  <2>2. QED
    BY <1>1, <2>1, ReadKeeps, SkipKeeps, SendKeeps, ConfirmKeeps, GiveUpKeeps, FinishKeeps DEF ScriptStep
<1>2. QED
  BY <1>1, MineKeeps, LoseKeeps, StartDeployKeeps, ConfigureKeeps, StartUpgradeKeeps, StartFixKeeps DEF Next

\* The inductive invariant: the versions of each kind are in order, from its proxy
\* to what was deployed last, and reports are true.
THEOREM UpgradeInvariant == Spec => []UpgradeInv
<1>1. Init => UpgradeInv
  BY InitOK
<1>2. UpgradeInv /\ [Next]_vars => UpgradeInv'
  BY StepOK
<1>3. QED
  BY <1>1, <1>2, PTL DEF Spec

\* No proxy goes back to an earlier implementation, though a transaction given up
\* for lost by one run of upgrade-via-proxyadmin may be mined during another.
THEOREM ProxiesOnlyAdvance == Spec => NeverDowngrades
<1>1. ASSUME UpgradeInv, [Next]_vars
      PROVE  [\A k \in KindSet : impl'[k] >= impl[k]]_impl
  <2>1. SUFFICES ASSUME impl' # impl
        PROVE  \A k \in KindSet : impl'[k] >= impl[k]
    OBVIOUS
  <2>2. PICK w \in Wallets : Mine(w)
    BY <1>1, <2>1 DEF Next, ScriptStep, Lose, Read, Skip, Send, Confirm, GiveUp, Finish, CallFails, Crash,
                      ChangeManagers, StartDeploy, Configure, StartUpgrade, StartFix, network, vars
  <2>3. impl \in [KindSet -> Nat] /\ impl' \in [KindSet -> Nat] /\ \A k \in KindSet : impl[k] <= impl'[k]
    BY <1>1, <2>2, MineKeeps DEF UpgradeInv, TypeOK
  <2>4. QED
    BY <2>3
<1>2. QED
  BY <1>1, UpgradeInvariant, PTL DEF Spec, NeverDowngrades

\* What a run has reported about a kind stays true, whatever is mined, upgraded or
\* configured after it.
THEOREM ReportsStayTrue == Spec => []ReportsHold
<1>1. ASSUME UpgradeInv
      PROVE  ReportsHold
  <2>1. SUFFICES ASSUME NEW w \in Wallets, NEW k \in KindSet,
                        script[w].results[k] \in {"success", "skipped"}
        PROVE  /\ script[w].run = "upgrade" => impl[k] >= script[w].plan[k]
               /\ script[w].run = "fix" => k \in mulSig \/ k \notin registered
    BY DEF ReportsHold
  <2>2. Achieved(script[w], k)
    BY <1>1, <2>1 DEF UpgradeInv, ScriptOK, ResultsOK
  <2>3. script[w].plan \in Plans /\ impl[k] \in Nat
    BY <1>1, <2>1 DEF UpgradeInv, TypeOK, Scripts
  <2>4. QED
    BY <2>2, <2>3, PlanTyped DEF Achieved
<1>2. QED
  BY <1>1, UpgradeInvariant, PTL
=============================================================================
