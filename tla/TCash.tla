------------------------------- MODULE TCash -------------------------------
(***************************************************************************)
(* The TCash token (contracts/TCash/TCash.sol): an ERC-20 whose balances   *)
(* carry a per-account lock, put by the auction contract when an account   *)
(* bids and removed when an outbid account withdraws.  A locked amount     *)
(* stays in the owner's balance and only transfers look at it: neither     *)
(* bidCost nor the burning calls do.                                       *)
(*                                                                         *)
(* Every call that reverts is a disabled action.  Role checks are the      *)
(* choice of the caller made by the modules that extend this one.  The     *)
(* ERC-20 allowances are left out: transferFrom moves what transfer does.  *)
(***************************************************************************)
EXTENDS Naturals

CONSTANT Accounts         \* the addresses that hold TCash

VARIABLES balance,        \* ERC-20 balances
          lockedBalances, \* _lockedBalances
          mintStatus      \* the oracle's getTCashMintStatus()

tcashVars == <<balance, lockedBalances, mintStatus>>

TCashTypeOK == /\ balance \in [Accounts -> Nat]
               /\ lockedBalances \in [Accounts -> Nat]
               /\ mintStatus \in BOOLEAN

\* The subtraction is checked: it reverts when the lock exceeds the balance.
Transferable(u, amount) == /\ lockedBalances[u] <= balance[u]
                           /\ amount <= balance[u] - lockedBalances[u]

\* bidCost compares with the whole balance, not with the unlocked part of it.
BidCost(u, amount) ==
  /\ balance[u] >= amount
  /\ lockedBalances' = [lockedBalances EXCEPT ![u] = @ + amount]
  /\ UNCHANGED <<balance, mintStatus>>

BidBack(u, amount) ==
  /\ lockedBalances[u] >= amount
  /\ lockedBalances' = [lockedBalances EXCEPT ![u] = @ - amount]
  /\ UNCHANGED <<balance, mintStatus>>

\* transfer, and transferFrom by an approved spender.
Transfer(from, to, amount) ==
  /\ from # to
  /\ Transferable(from, amount)
  /\ balance' = [balance EXCEPT ![from] = @ - amount, ![to] = @ + amount]
  /\ UNCHANGED <<lockedBalances, mintStatus>>

\* mint and addBalance, by a TCASH_MINTER.
Mint(to, amount) ==
  /\ mintStatus
  /\ balance' = [balance EXCEPT ![to] = @ + amount]
  /\ UNCHANGED <<lockedBalances, mintStatus>>

\* The owner burns: no look at the lock.
Burn(u, amount) ==
  /\ balance[u] >= amount
  /\ balance' = [balance EXCEPT ![u] = @ - amount]
  /\ UNCHANGED <<lockedBalances, mintStatus>>

\* burnFrom and reduceBalance, by a TCASH_BURNER: no look at the lock.
BurnFrom(u, amount) ==
  /\ amount > 0
  /\ Burn(u, amount)

\* The oracle locks or unlocks minting.
SetMintStatus == /\ mintStatus' = ~mintStatus
                 /\ UNCHANGED <<balance, lockedBalances>>
=============================================================================
