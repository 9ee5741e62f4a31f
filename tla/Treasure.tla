------------------------------ MODULE Treasure ------------------------------
(***************************************************************************)
(* One producer of one treasure kind: its registration and status          *)
(* (Treasure/Producer.sol), the production data of two sources and the     *)
(* clearing of a period (Treasure/ProductionData.sol and the contracts of  *)
(* the kinds), over its shares, its owner's margin and the oracle's        *)
(* requests, which the producer contract makes and cancels through the     *)
(* data contract.                                                          *)
(*                                                                         *)
(* Producers of OIL and GAS upload what they produce in a month, and are   *)
(* paid the least of it and the trusted amount; those of BTC and ETH are   *)
(* paid the trusted amount of a block.                                     *)
(***************************************************************************)
EXTENDS Share, Expense, OracleRequests, FiniteSetsExt, Functions

CONSTANTS Kinds,          \* of OIL, GAS, BTC, ETH
          Periods,        \* months, or blocks
          Discounts,      \* what API and sulphur of a producer come to, in 1/10000
          UnitValues,     \* the asset values of the feeder
          Amounts,        \* what a producer uploads
          TrustedAmounts, \* what the feeder says was produced
          MarginRatio,    \* in 1/10000
          MaxAmount,      \* bound on what is uploaded for a period, for TLC
          MaxPaid         \* bound on the clearings of a block, for TLC

ASSUME TreasureAssumption ==
  /\ Depositors \subseteq Accounts
  /\ Kinds \subseteq {"OIL", "GAS", "BTC", "ETH"}
  /\ Discounts \subseteq Nat /\ UnitValues \subseteq Nat
  /\ Amounts \subseteq Nat \ {0} /\ TrustedAmounts \subseteq Nat
  /\ {MarginRatio, MaxAmount, MaxPaid} \subseteq Nat

VARIABLES kind,           \* TREASURE_KIND
          owner,          \* _producers[id].owner
          discount,       \* the rest of the producer's core
          status,
          assetRequest,   \* _requestIdToPullAssetValue
          dataRequest,    \* _requestIdsToPullTrustedData[id]
          assetValues,    \* the values of all dates
          trusted,        \* period -> account, amount, status
          uploaded,       \* period -> amount, price, status
          paid            \* history: period -> what its clearings have minted

producerVars == <<kind, owner, discount, status>>
requestVars == <<commitments, assetRequest, dataRequest>>
dataVars == <<assetValues, trusted, uploaded, paid>>
treasureVars == <<producerVars, requestVars, dataVars, shareVars, expenseVars>>

Uploads == kind \in {"OIL", "GAS"}
Active == status = "Active"

Unaudited == "UNAUDITED"
Nothing == [account |-> NoOne, amount |-> 0, status |-> Unaudited]
NotUploaded == [amount |-> 0, price |-> 0, status |-> Unaudited]

TreasureInit ==
  /\ ShareInit /\ ExpenseInit /\ commitments = <<>>
  /\ kind \in Kinds
  /\ owner = NoOne /\ discount = 0 /\ status = "NotSet"
  /\ assetRequest = NoRequest /\ dataRequest = NoRequest
  /\ assetValues = {}
  /\ trusted = [m \in Periods |-> Nothing]
  /\ uploaded = [m \in Periods |-> NotUploaded]
  /\ paid = [m \in Periods |-> <<>>]

-----------------------------------------------------------------------------
(* Producer.                                                               *)

\* By anybody, for any owner.
AddProducer(u, d) ==
  /\ owner = NoOne
  /\ SetOwner(u)
  /\ owner' = u /\ discount' = d /\ status' = "NotSet"
  /\ UNCHANGED <<kind, requestVars, dataVars, expenseVars>>

\* By the foundation manager, also before the producer is added.
Activate ==
  /\ status' = "Active"
  /\ IF dataRequest = NoRequest
     THEN /\ SendOracleRequest("receiveTrustedProductionData")
          /\ dataRequest' = NextRequest
     ELSE UNCHANGED <<commitments, dataRequest>>
  /\ UNCHANGED <<kind, owner, discount, assetRequest, dataVars, shareVars, expenseVars>>

\* Mutant: the request is cancelled with the oracle only.
DeactivateKeepsRequest ==
  /\ status' = "Deactive"
  /\ dataRequest # NoRequest => CancelOracleRequest(dataRequest, "receiveTrustedProductionData")
  /\ UNCHANGED <<kind, owner, discount, requestVars, dataVars, shareVars, expenseVars>>

Deactivate ==
  /\ status' = "Deactive"
  /\ IF dataRequest # NoRequest
     THEN /\ CancelOracleRequest(dataRequest, "receiveTrustedProductionData")
          /\ dataRequest' = NoRequest
     ELSE UNCHANGED <<commitments, dataRequest>>
  /\ UNCHANGED <<kind, owner, discount, assetRequest, dataVars, shareVars, expenseVars>>

\* updateProdcuer, by the owner of a producer with a status: it loses the
\* status and keeps the request.
UpdateProducer(d) ==
  /\ status # "NotSet" /\ owner # NoOne
  /\ discount' = d /\ status' = "NotSet"
  /\ UNCHANGED <<kind, owner, requestVars, dataVars, shareVars, expenseVars>>

-----------------------------------------------------------------------------
(* Production data.  The feeder answers requests it has seen, also late.   *)

\* There is no action for cancelAssetValueRequest, which names the callback of
\* the other requests and always reverts.
RegisterAssetValueRequest ==
  /\ assetRequest = NoRequest
  /\ SendOracleRequest("receiveAssetValue")
  /\ assetRequest' = NextRequest
  /\ UNCHANGED <<producerVars, dataRequest, dataVars, shareVars, expenseVars>>

ReceiveAssetValue(request, value) ==
  /\ request = assetRequest
  /\ value > 0
  /\ assetValues' = assetValues \cup {value}
  /\ UNCHANGED <<producerVars, requestVars, trusted, uploaded, paid, shareVars, expenseVars>>

\* The value of the date itself or an average of some: zero when there is none.
ValuesOfDates == IF assetValues = {} THEN {0} ELSE Min(assetValues)..Max(assetValues)

\* A correction keeps the audit of an uploaded month, and takes away that of a
\* block: its whole record comes from the feeder.
ReceiveTrustedProductionData(request, m, amount) ==
  /\ Active /\ request = dataRequest
  /\ ~Uploads => owner # NoOne
  /\ trusted' = [trusted EXCEPT ![m] = [account |-> owner, amount |-> amount, status |-> Unaudited]]
  /\ UNCHANGED <<producerVars, requestVars, assetValues, uploaded, paid, shareVars, expenseVars>>

Price(amount, value) == (amount * value * (IF kind = "OIL" THEN discount ELSE 10000)) \div 10000

\* What a month comes to with another amount.
More(m, amount, value) ==
  [uploaded EXCEPT ![m] = [amount |-> @.amount + amount,
                           price |-> @.price + Price(amount, value), status |-> @.status]]

\* Mutant: an audited month takes more data.
SetProductionDataLate(m, amount) ==
  /\ Uploads /\ Active /\ owner # NoOne
  /\ uploaded[m].amount + amount <= MaxAmount
  /\ \E value \in ValuesOfDates : uploaded' = More(m, amount, value)
  /\ UNCHANGED <<producerVars, requestVars, assetValues, trusted, paid, shareVars, expenseVars>>

\* By the owner.
SetProductionData(m, amount) ==
  /\ Uploads /\ Active /\ owner # NoOne
  /\ uploaded[m].status = Unaudited
  /\ uploaded[m].amount + amount <= MaxAmount
  /\ \E value \in ValuesOfDates : uploaded' = More(m, amount, value)
  /\ UNCHANGED <<producerVars, requestVars, assetValues, trusted, paid, shareVars, expenseVars>>

\* Every holder on the list and the owner are minted something: the TAT contract
\* records no amount of zero.
AllGetSome(total) ==
  LET rewards == HolderRewards(total)
  IN  /\ \A i \in DOMAIN rewards : rewards[i] > 0
      /\ SumFunction(rewards) < total

\* _rewardByShare.
RewardByShare(m, total) ==
  AllGetSome(total) /\ paid' = [paid EXCEPT ![m] = Append(@, total)]

\* How far the upload is above the trusted amount, in 1/10000.
Deviation(m) ==
  LET d == ((uploaded[m].amount - trusted[m].amount) * 10000) \div trusted[m].amount
  IN  IF d > 3000 THEN 10000 ELSE d

AboveTrusted(m) == uploaded[m].amount > trusted[m].amount
Fails(m) == AboveTrusted(m) /\ Deviation(m) > 1000

\* What clearing leaves of the upload: the price of its trusted part.
ClearedPrice(m) ==
  IF AboveTrusted(m) THEN (uploaded[m].price * trusted[m].amount) \div uploaded[m].amount
  ELSE uploaded[m].price
Result(m) == IF Fails(m) THEN "FAILED" ELSE "FINISHED"
Cost(m) == (ClearedPrice(m) * Deviation(m) * MarginRatio) \div 100000000

\* clearing of a month, by the owner: an upload more than a tenth above the
\* trusted amount is penalised too.
ClearMonth(m) ==
  /\ Uploads /\ Active /\ owner # NoOne
  /\ uploaded[m].amount > 0 /\ uploaded[m].status = Unaudited
  /\ trusted[m].account # NoOne
  /\ AboveTrusted(m) => trusted[m].amount > 0
  /\ IF Fails(m) THEN Penalty(owner, Cost(m)) ELSE UNCHANGED expenseVars
  /\ RewardByShare(m, ClearedPrice(m))
  /\ uploaded' = [uploaded EXCEPT ![m] =
                    [amount |-> @.amount, price |-> ClearedPrice(m), status |-> Result(m)]]
  /\ UNCHANGED <<producerVars, requestVars, assetValues, trusted, shareVars>>

\* clearing of a block, by the owner.
ClearBlock(m) ==
  /\ ~Uploads /\ Active /\ owner # NoOne
  /\ trusted[m].status = Unaudited
  /\ Len(paid[m]) < MaxPaid
  /\ RewardByShare(m, trusted[m].amount)
  /\ trusted' = [trusted EXCEPT ![m].status = "FINISHED"]
  /\ UNCHANGED <<producerVars, requestVars, assetValues, uploaded, shareVars, expenseVars>>

-----------------------------------------------------------------------------

ProducerStep == \/ \E d \in Discounts : UpdateProducer(d) \/ \E u \in Depositors : AddProducer(u, d)
                \/ Activate \/ Deactivate

DataStep ==
  \/ RegisterAssetValueRequest
  \/ \E request \in Requests :
       \/ \E value \in UnitValues : ReceiveAssetValue(request, value)
       \/ \E m \in Periods, amount \in TrustedAmounts : ReceiveTrustedProductionData(request, m, amount)
  \/ \E m \in Periods : \/ ClearMonth(m) \/ ClearBlock(m)
                        \/ \E amount \in Amounts : SetProductionData(m, amount)

TreasureNext == \/ ProducerStep \/ DataStep
                \/ ShareStep /\ UNCHANGED <<producerVars, requestVars, dataVars, expenseVars>>
                \/ ExpenseStep /\ UNCHANGED <<producerVars, requestVars, dataVars, shareVars>>

TreasureSpec == TreasureInit /\ [][TreasureNext]_treasureVars

-----------------------------------------------------------------------------

\* The status of a producer and the requests of the data contract stay together
\* through updates and repeated changes of status: an active producer has a
\* request with the right callback, one that was deactivated has none, so that
\* late answers to cancelled requests find nobody (setProducerStatus,
\* updateProdcuer, registerTrustedDataRequest, cancelTrustedDataRequest).
RequestsFollowStatus ==
  /\ Active => dataRequest \in Requests /\ commitments[dataRequest] = "receiveTrustedProductionData"
  /\ status = "Deactive" => dataRequest = NoRequest
  /\ assetRequest # NoRequest => commitments[assetRequest] = "receiveAssetValue"

\* A month is paid once, for the price its audit leaves in the record, and
\* nothing uploaded, corrected, deactivated or updated later changes that
\* (setProductionData, clearing).
PaidIsAudited ==
  Uploads => \A m \in Periods :
    paid[m] = IF uploaded[m].status = Unaudited THEN <<>> ELSE <<uploaded[m].price>>

\* Every normal depositor can be paid its margin, though penalties become debts
\* in the same field and debts leave for the zero address (prepay, withdraw,
\* _penalty).
MarginsAreBacked ==
  funds >= SumFunction([u \in Depositors |->
                          IF depositors[u].status = "Normal" THEN depositors[u].margin ELSE 0])

\* The pieces of the holders are those the owner has given away, and those that
\* holders who gave to themselves have made up (setHolders, splitHolder,
\* deleteHolder).
SharesReconcile ==
  SumFunction([a \in Accounts |-> holders[a].ratio]) = totalShared + doubled

\* Who is a holder stands in the list where its record says, and nowhere else.
Listed ==
  /\ totalHolders = Len(holderAddresses)
  /\ \A a \in Accounts : holders[a].flag =>
       holders[a].index \in 1..totalHolders /\ holderAddresses[holders[a].index] = a
  /\ \A i \in 1..totalHolders :
       holders[holderAddresses[i]].flag /\ holders[holderAddresses[i]].index = i

\* List and records separate in one way only, when a holder is deleted that is
\* not the last of the list (deleteHolder); so rewards go to every holder once
\* until then.
ListedUntilMoved ==
  [][Listed => \/ Listed'
               \/ \E a \in Accounts : DeleteHolder(a) /\ holders[a].index < Len(holderAddresses)]_shareVars
=============================================================================
