-------------------------------- MODULE USTN --------------------------------
(***************************************************************************)
(* The USTN token (contracts/USTN/USTN.sol) as the bank, the auctions and  *)
(* the accounts call it.  An operator states the variables it changes; the *)
(* modules that compose the calls of a transaction state what stays.       *)
(*                                                                         *)
(* Allowances are left out: transferFrom moves what transfer moves.  Minting *)
(* is free in this code; what it pays for mintBack is UNIT that is no part *)
(* of the model, so that mintBack may go through whenever its quota allows.*)
(***************************************************************************)
EXTENDS Naturals, FiniteSets

CONSTANTS Accounts,
          AuctionManager,   \* first member of the AUCTION_MANAGER role
          MintBackFloor,    \* the supply below which mintBack is closed
          UnitPrices, USTNPrices   \* what the oracle may report

ASSUME USTNAssumption == /\ IsFiniteSet(Accounts)
                         /\ AuctionManager \in Accounts
                         /\ MintBackFloor \in Nat
                         /\ UnitPrices \subseteq Nat \ {0}
                         /\ USTNPrices \subseteq Nat \ {0}

VARIABLES balance,          \* account -> USTN
          totalSupply,
          unitPrice, ustnPrice,
          unbacked          \* history: USTN that direct calls added without supply,
                            \* or left behind when they reduced the supply

prices == <<unitPrice, ustnPrice>>
ustnVars == <<balance, totalSupply, prices, unbacked>>

USTNTypes == /\ balance \in [Accounts -> Nat]
             /\ totalSupply \in Nat
             /\ unitPrice \in UnitPrices
             /\ ustnPrice \in USTNPrices
             /\ unbacked \in Nat

-----------------------------------------------------------------------------

\* amount moves from one account to another, possibly the same.
Move(from, to, amount) ==
  LET paid == [balance EXCEPT ![from] = @ - amount]
  IN  balance' = [paid EXCEPT ![to] = @ + amount]

AddBalance(u, amount) == balance' = [balance EXCEPT ![u] = @ + amount]

ReduceBalance(u, amount) == /\ amount > 0
                            /\ balance[u] >= amount
                            /\ balance' = [balance EXCEPT ![u] = @ - amount]

AddTotalSupply(amount) == totalSupply' = totalSupply + amount

ReduceTotalSupply(amount) == /\ amount <= totalSupply
                             /\ totalSupply' = totalSupply - amount

\* A bid goes to the auction manager's account; the comparison is strict.
BidCost(u, amount) == /\ balance[u] > amount
                      /\ Move(u, AuctionManager, amount)

BidBack(u, amount) == /\ u = AuctionManager \/ amount <= balance[AuctionManager]
                      /\ Move(AuctionManager, u, amount)

Burn(u, amount) == /\ amount <= balance[u]
                   /\ ReduceTotalSupply(amount)
                   /\ balance' = [balance EXCEPT ![u] = @ - amount]

Transfer(from, to, amount) == /\ balance[from] >= amount
                              /\ Move(from, to, amount)
                              /\ UNCHANGED <<totalSupply, unbacked>>

Mint(u, amount) == /\ AddBalance(u, amount)
                   /\ AddTotalSupply(amount)
                   /\ UNCHANGED unbacked

\* What can be returned is limited by the supply above the floor, in UNIT.
MintBack(u, amount) ==
  /\ totalSupply > MintBackFloor
  /\ ((totalSupply - MintBackFloor) * unitPrice) \div ustnPrice >= amount
  /\ amount <= balance[u]
  /\ balance' = [balance EXCEPT ![u] = @ - amount]
  /\ ReduceTotalSupply(amount)
  /\ UNCHANGED unbacked

\* addBalance, reduceBalance and, through USTNFinance, the supply can be moved
\* by a call of their own.
DirectCall(u, amount) ==
  \/ AddBalance(u, amount) /\ unbacked' = unbacked + amount /\ UNCHANGED totalSupply
  \/ ReduceBalance(u, amount) /\ UNCHANGED <<totalSupply, unbacked>>
  \/ AddTotalSupply(amount) /\ UNCHANGED <<balance, unbacked>>
  \/ ReduceTotalSupply(amount) /\ unbacked' = unbacked + amount /\ UNCHANGED balance

\* The feeder's prices.
NewPrices == /\ unitPrice' \in UnitPrices
             /\ ustnPrice' \in USTNPrices
             /\ prices' # prices
             /\ UNCHANGED <<balance, totalSupply, unbacked>>
=============================================================================
