----------------------------- MODULE TokenLocker -----------------------------
(***************************************************************************)
(* Token locking (contracts/TokenLocker/TokenLocker.sol): managers add     *)
(* funds, reserve some for plans, and lock parts of a plan for accounts in *)
(* records that are claimed after their time.  Records live in an array    *)
(* per account, which shrinks by swap and pop, and each plan keeps the     *)
(* positions at which its records were appended.  Positions are 1, 2, ...  *)
(* here and 0, 1, ... in the code.                                         *)
(*                                                                         *)
(* Left out: names of plans, and activePlans, which nothing reads.  An     *)
(* account that is paid is not a contract that calls back.                 *)
(***************************************************************************)
EXTENDS BlockTime, Sequences, FiniteSets, FiniteSetsExt, Functions

CONSTANTS Accounts,         \* managers and beneficiaries
          Beneficiaries,    \* the accounts that records are made for
          Deployer,         \* the first manager
          PlanIDs, LockedIDs,
          Amounts,          \* amounts of calls
          Times,            \* the times at which records fall due
          ClaimBatch,       \* records a claim processes at most, 10 in the code
          MaxFunds,         \* bounds for TLC: funds added, funds available,
          MaxAvailable,
          MaxRecords        \* records of an account, positions kept for it

ASSUME LockerAssumption ==
  /\ IsFiniteSet(Accounts)
  /\ Deployer \in Accounts /\ Beneficiaries \subseteq Accounts
  /\ Amounts \subseteq Nat \ {0} /\ Times \subseteq Nat
  /\ ClaimBatch \in Nat \ {0}
  /\ MaxFunds \in Nat /\ MaxAvailable \in Nat /\ MaxRecords \in Nat

VARIABLES managers,
          totalLockedAmount, totalAvailableAmount,
          plans,              \* plan id -> amount, allocated amount, claim method, isActive
          lockedRecords,      \* account -> its records in the order of the array: id, plan,
                              \* amount, claim method, time, isActive
          planAccounts,       \* plan id -> accounts
          planRecordIndices,  \* plan id -> account -> positions
          funds,              \* the native balance of the contract
          received            \* account -> what claims have paid to it

lockerVars == <<managers, totalLockedAmount, totalAvailableAmount, plans, lockedRecords,
                planAccounts, planRecordIndices, funds, received, now>>
recordVars == <<plans, lockedRecords, planAccounts, planRecordIndices>>

ClaimMethods == {0, 1}      \* 0: a manager claims, 1: the account itself

NoPlan == [planAmount |-> 0, allocatedAmount |-> 0, claimMethod |-> 0, isActive |-> FALSE]

LockerInit ==
  /\ BlockTimeInit
  /\ managers = {Deployer}
  /\ totalLockedAmount = 0 /\ totalAvailableAmount = 0 /\ funds = 0
  /\ plans = [p \in PlanIDs |-> NoPlan]
  /\ lockedRecords = [a \in Accounts |-> <<>>]
  /\ planAccounts = [p \in PlanIDs |-> {}]
  /\ planRecordIndices = [p \in PlanIDs |-> [a \in Accounts |-> <<>>]]
  /\ received = [a \in Accounts |-> 0]

\* The deletion the contract uses for both arrays: the last element takes the
\* place of the deleted one.
SwapPop(s, k) == [n \in 1..(Len(s) - 1) |-> IF n = k THEN s[Len(s)] ELSE s[n]]

AmountAt(records, positions) ==
  SumFunction([j \in DOMAIN records |-> IF j \in positions THEN records[j].amount ELSE 0])

-----------------------------------------------------------------------------
(***************************************************************************)
(* Managers and funds.  onlyManager is the guard managers # {}: somebody   *)
(* holds the role, and who it is makes no difference.                      *)
(***************************************************************************)

SetManagerAccount(a) ==
  /\ managers # {} /\ a \notin managers
  /\ managers' = managers \cup {a}
  /\ UNCHANGED <<totalLockedAmount, totalAvailableAmount, recordVars, funds, received, now>>

DelManagerAccount(a) ==
  /\ a \in managers
  /\ managers' = managers \ {a}
  /\ UNCHANGED <<totalLockedAmount, totalAvailableAmount, recordVars, funds, received, now>>

AddLockedToken(value) ==
  /\ managers # {}
  /\ totalLockedAmount + value <= MaxFunds /\ totalAvailableAmount + value <= MaxAvailable
  /\ totalLockedAmount' = totalLockedAmount + value
  /\ totalAvailableAmount' = totalAvailableAmount + value
  /\ funds' = funds + value
  /\ UNCHANGED <<managers, recordVars, received, now>>

\* The contract may pay more than is available: the counters stop at zero and
\* only the balance limits the transfer.
WithdrawLockedToken(amount) ==
  /\ managers # {}
  /\ amount <= funds
  /\ totalAvailableAmount' = IF amount < totalAvailableAmount
                             THEN totalAvailableAmount - amount ELSE 0
  /\ totalLockedAmount' = IF amount < totalLockedAmount THEN totalLockedAmount - amount ELSE 0
  /\ funds' = funds - amount
  /\ UNCHANGED <<managers, recordVars, received, now>>

-----------------------------------------------------------------------------
(***************************************************************************)
(* Plans.                                                                  *)
(***************************************************************************)

SetPlan(p, amount, claimMethod) ==
  /\ managers # {}
  /\ plans[p].planAmount = 0
  /\ totalAvailableAmount >= amount
  /\ plans' = [plans EXCEPT ![p] = [planAmount |-> amount, allocatedAmount |-> 0,
                                    claimMethod |-> claimMethod, isActive |-> TRUE]]
  /\ totalAvailableAmount' = totalAvailableAmount - amount
  /\ UNCHANGED <<managers, totalLockedAmount, lockedRecords, planAccounts, planRecordIndices,
                 funds, received, now>>

\* The positions of a's array that deleting p cancels: what the indices of p say,
\* whatever record has come to lie there.
Cancelled(p, a) == {j \in Range(planRecordIndices[p][a]) \cap DOMAIN lockedRecords[a] :
                      lockedRecords[a][j].isActive}

\* A deleted plan keeps its amounts, so the call is accepted again.
DelPlan(p) ==
  LET plan     == plans[p]
      returned == SumFunction([a \in planAccounts[p] |->
                                 AmountAt(lockedRecords[a], Cancelled(p, a))])
  IN  /\ managers # {}
      /\ plan.planAmount > 0
      /\ plan.allocatedAmount <= plan.planAmount
      /\ totalAvailableAmount' = totalAvailableAmount + (plan.planAmount - plan.allocatedAmount)
                                 + returned
      /\ totalAvailableAmount' <= MaxAvailable
      /\ plans' = [plans EXCEPT ![p].isActive = FALSE]
      /\ lockedRecords' =
           [a \in Accounts |->
              [j \in DOMAIN lockedRecords[a] |->
                 IF a \in planAccounts[p] /\ j \in Cancelled(p, a)
                 THEN [lockedRecords[a][j] EXCEPT !.isActive = FALSE] ELSE lockedRecords[a][j]]]
      /\ planRecordIndices' =
           [planRecordIndices EXCEPT ![p] =
              [a \in Accounts |-> IF a \in planAccounts[p] THEN <<>> ELSE @[a]]]
      /\ planAccounts' = [planAccounts EXCEPT ![p] = {}]
      /\ UNCHANGED <<managers, totalLockedAmount, funds, received, now>>

-----------------------------------------------------------------------------
(***************************************************************************)
(* Locked records.                                                         *)
(***************************************************************************)

\* Mutant: the record is not counted as allocated.
SetRecordUnallocated(lockedID, p, a, amount, time) ==
  /\ managers # {}
  /\ plans[p].isActive
  /\ plans[p].allocatedAmount + amount <= plans[p].planAmount
  /\ Len(lockedRecords[a]) < MaxRecords /\ Len(planRecordIndices[p][a]) < MaxRecords
  /\ lockedRecords' =
       [lockedRecords EXCEPT ![a] =
          Append(@, [lockedID |-> lockedID, planID |-> p, amount |-> amount,
                     claimMethod |-> plans[p].claimMethod, time |-> time, isActive |-> TRUE])]
  /\ planAccounts' = [planAccounts EXCEPT ![p] = @ \cup {a}]
  /\ planRecordIndices' =
       [planRecordIndices EXCEPT ![p][a] = Append(@, Len(lockedRecords[a]) + 1)]
  /\ UNCHANGED <<managers, plans, totalLockedAmount, totalAvailableAmount, funds, received, now>>

SetLockedRecord(lockedID, p, a, amount, time) ==
  /\ managers # {}
  /\ plans[p].isActive
  /\ plans[p].allocatedAmount + amount <= plans[p].planAmount
  /\ Len(lockedRecords[a]) < MaxRecords /\ Len(planRecordIndices[p][a]) < MaxRecords
  /\ plans' = [plans EXCEPT ![p].allocatedAmount = @ + amount]
  /\ lockedRecords' =
       [lockedRecords EXCEPT ![a] =
          Append(@, [lockedID |-> lockedID, planID |-> p, amount |-> amount,
                     claimMethod |-> plans[p].claimMethod, time |-> time, isActive |-> TRUE])]
  /\ planAccounts' = [planAccounts EXCEPT ![p] = @ \cup {a}]
  /\ planRecordIndices' =
       [planRecordIndices EXCEPT ![p][a] = Append(@, Len(lockedRecords[a]) + 1)]
  /\ UNCHANGED <<managers, totalLockedAmount, totalAvailableAmount, funds, received, now>>

\* The first record with these ids goes, and so does the first index equal to its
\* position.  The index of the record that takes its place is left alone.
DeleteLockedRecord(lockedID, p, a) ==
  LET records == lockedRecords[a]
      indices == planRecordIndices[p][a]
      matches == {j \in DOMAIN records :
                    /\ records[j].lockedID = lockedID /\ records[j].planID = p
                    /\ records[j].isActive}
      j       == Min(matches)
      amount  == records[j].amount
      ks      == {k \in DOMAIN indices : indices[k] = j}
      left    == IF ks = {} THEN indices ELSE SwapPop(indices, Min(ks))
  IN  /\ managers # {}
      /\ plans[p].planAmount > 0
      /\ a \in planAccounts[p]
      /\ matches # {}
      /\ totalAvailableAmount + amount <= MaxAvailable
      /\ totalAvailableAmount' = totalAvailableAmount + amount
      /\ plans' = [plans EXCEPT ![p].allocatedAmount = IF @ >= amount THEN @ - amount ELSE 0]
      /\ lockedRecords' = [lockedRecords EXCEPT ![a] = SwapPop(@, j)]
      /\ planRecordIndices' = [planRecordIndices EXCEPT ![p][a] = left]
      /\ planAccounts' = [planAccounts EXCEPT ![p] = IF left = <<>> THEN @ \ {a} ELSE @]
      /\ UNCHANGED <<managers, totalLockedAmount, funds, received, now>>

-----------------------------------------------------------------------------
(***************************************************************************)
(* Claims.  The array is walked from its end, and shrinks while it is.     *)
(***************************************************************************)

Due(record, claimMethod) == /\ record.isActive /\ now >= record.time
                            /\ record.claimMethod = claimMethod

\* Mutant: the amount is read after the record was overwritten.
ClaimMoved(claimMethod, sofar, idx) ==
  LET records == sofar.records
      left    == SwapPop(records, idx)
  IN  IF sofar.processed < ClaimBatch /\ Due(records[idx], claimMethod)
      THEN [records   |-> left,
            total     |-> sofar.total + (IF idx <= Len(left) THEN left[idx] ELSE records[idx]).amount,
            processed |-> sofar.processed + 1]
      ELSE sofar

\* The loop's body at position idx.
ClaimAt(claimMethod, sofar, idx) ==
  LET records == sofar.records
  IN  IF sofar.processed < ClaimBatch /\ Due(records[idx], claimMethod)
      THEN [records   |-> SwapPop(records, idx),
            total     |-> sofar.total + records[idx].amount,
            processed |-> sofar.processed + 1]
      ELSE sofar

\* The loop: what is left of the records, and what they pay.  walk[n] is the
\* state of the loop after the last n positions.
Claim(records, claimMethod) ==
  LET walk[n \in 0..Len(records)] ==
        IF n = 0 THEN [records |-> records, total |-> 0, processed |-> 0]
        ELSE ClaimAt(claimMethod, walk[n - 1], Len(records) + 1 - n)
  IN  walk[Len(records)]

\* Mutant: a claim lowers the locked amount as a withdrawal does.
ClaimLowersLocked(sender, a) ==
  LET claim == Claim(lockedRecords[a], IF sender \in managers THEN 0 ELSE 1)
  IN  /\ sender = a \/ sender \in managers
      /\ claim.total > 0
      /\ claim.total <= funds
      /\ lockedRecords' = [lockedRecords EXCEPT ![a] = claim.records]
      /\ funds' = funds - claim.total
      /\ totalLockedAmount' = totalLockedAmount - claim.total
      /\ received' = [received EXCEPT ![a] = @ + claim.total]
      /\ UNCHANGED <<managers, totalAvailableAmount, plans, planAccounts, planRecordIndices, now>>

\* A manager claims method 0 for anybody, another account method 1 for itself.
ClaimToken(sender, a) ==
  LET claim == Claim(lockedRecords[a], IF sender \in managers THEN 0 ELSE 1)
  IN  /\ sender = a \/ sender \in managers
      /\ claim.total > 0
      /\ claim.total <= funds
      /\ lockedRecords' = [lockedRecords EXCEPT ![a] = claim.records]
      /\ funds' = funds - claim.total
      /\ received' = [received EXCEPT ![a] = @ + claim.total]
      /\ UNCHANGED <<managers, totalLockedAmount, totalAvailableAmount, plans, planAccounts,
                     planRecordIndices, now>>

-----------------------------------------------------------------------------

LockerNext ==
  \/ Tick /\ UNCHANGED <<managers, totalLockedAmount, totalAvailableAmount, recordVars, funds,
                         received>>
  \/ \E a \in Accounts : SetManagerAccount(a) \/ DelManagerAccount(a)
  \/ \E amount \in Amounts : AddLockedToken(amount) \/ WithdrawLockedToken(amount)
  \/ \E p \in PlanIDs :
       \/ \E amount \in Amounts, claimMethod \in ClaimMethods : SetPlan(p, amount, claimMethod)
       \/ DelPlan(p)
       \/ \E lockedID \in LockedIDs, a \in Beneficiaries :
            \/ DeleteLockedRecord(lockedID, p, a)
            \/ \E amount \in Amounts, time \in Times : SetLockedRecord(lockedID, p, a, amount, time)
  \/ \E sender, a \in Accounts : ClaimToken(sender, a)

LockerSpec == LockerInit /\ [][LockerNext]_lockerVars

-----------------------------------------------------------------------------
(***************************************************************************)
(* Properties.                                                             *)
(***************************************************************************)

ActiveAt(a) == {j \in DOMAIN lockedRecords[a] : lockedRecords[a][j].isActive}
ActiveOf(p, a) == {j \in ActiveAt(a) : lockedRecords[a][j].planID = p}

\* A plan lists an account exactly while it keeps positions for it, so that delPlan
\* visits every position and deleteLockedRecord finds every account.
AccountsHavePositions ==
  \A p \in PlanIDs : planAccounts[p] = {a \in Accounts : planRecordIndices[p][a] # <<>>}

\* What a plan has allocated covers its records that can still be claimed and stays
\* within the plan, whatever claims and deletions did to the positions: delPlan's
\* subtraction cannot revert and deleteLockedRecord never loses a difference.
AllocationCoversRecords ==
  \A p \in PlanIDs :
    /\ plans[p].allocatedAmount <= plans[p].planAmount
    /\ SumFunction([a \in Accounts |-> AmountAt(lockedRecords[a], ActiveOf(p, a))])
         <= plans[p].allocatedAmount

\* totalLockedAmount is not lowered by claims: it is what the contract holds and
\* what claims have paid, and a withdrawal never has to cut it off at zero.
LockedIsHeldOrPaid ==
  totalLockedAmount = funds + SumFunction(received)

NotDueAt(a) == {j \in ActiveAt(a) : lockedRecords[a][j].time > now}

\* The swapping loop of claimToken pays each record it removes once, and removes
\* none that is not due.
ClaimPaysWhatItRemoves ==
  [][\A a \in Accounts : received'[a] # received[a] =>
       /\ received'[a] - received[a] = AmountAt(lockedRecords[a], ActiveAt(a))
                                       - AmountAt(lockedRecords[a], ActiveAt(a))'
       /\ AmountAt(lockedRecords[a], NotDueAt(a))' = AmountAt(lockedRecords[a], NotDueAt(a))
    ]_lockerVars
=============================================================================
