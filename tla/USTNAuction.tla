---------------------------- MODULE USTNAuction ----------------------------
(***************************************************************************)
(* The auctions of the USTN bank (contracts/USTN/USTNAuction.sol) over the *)
(* USTN token.  The bank lists the collateral of a liquidated loan; a bid  *)
(* adds to the bidder's earlier bid and is paid at once to the auction     *)
(* manager; an outbid bidder is paid back; after the deadline the leader   *)
(* collects and the manager's USTN is burned for the starting price.       *)
(*                                                                         *)
(* Auction ids are 1, 2, ... (0, 1, ... in the code); the list of bidders  *)
(* that only getAuctionBider reads is left out.                            *)
(***************************************************************************)
EXTENDS USTN, BlockTime, Sequences

CONSTANTS Bidders,        \* the accounts that bid
          NoOne,          \* the zero address
          BidDuration,    \* the 10 minutes of initialize
          MaxAuctions     \* bound on the number of auctions, for TLC only

ASSUME USTNAuctionAssumption == /\ Bidders \subseteq Accounts
                                /\ NoOne \notin Accounts
                                /\ BidDuration \in Nat \ {0}
                                /\ MaxAuctions \in Nat

AuctionIds == 1..MaxAuctions

VARIABLES auctionList,    \* the auctions, in the order they were listed
          bider,          \* auction -> the leading bidder
          bidValue        \* auction -> account -> its total bid

auctionVars == <<auctionList, bider, bidValue>>

Auction == [sales : Nat, startValue : Nat, nowValue : Nat, timeOver : Nat,
            state : {1, 2}, debt : Nat]

AuctionTypes == /\ auctionList \in Seq(Auction)
                /\ Len(auctionList) <= MaxAuctions
                /\ bider \in [AuctionIds -> Bidders \cup {NoOne}]
                /\ bidValue \in [AuctionIds -> [Bidders -> Nat]]

AuctionInit == /\ auctionList = <<>>
               /\ bider = [n \in AuctionIds |-> NoOne]
               /\ bidValue = [n \in AuctionIds |-> [u \in Bidders |-> 0]]

Listed == 1..Len(auctionList)

-----------------------------------------------------------------------------

\* The lot auctionStart makes of a loan: its mortgage for sale, its debt as the
\* starting price, and the interest in it.
Lot(loan) ==
  [sales |-> loan.mortgage, startValue |-> loan.debt, nowValue |-> loan.debt,
   timeOver |-> now + BidDuration, state |-> 1, debt |-> loan.interest]

\* One auctionStart for each of the given loans, in their order.
AuctionStart(liquidated) ==
  /\ Len(auctionList) + Len(liquidated) <= MaxAuctions
  /\ auctionList' = auctionList \o [i \in DOMAIN liquidated |-> Lot(liquidated[i])]
  /\ UNCHANGED <<bider, bidValue>>

\* Mutant: a bid after the deadline is accepted.
BidLate(n, u, bidAmount) ==
  /\ auctionList[n].nowValue < bidValue[n][u] + bidAmount
  /\ BidCost(u, bidAmount)
  /\ bider' = [bider EXCEPT ![n] = u]
  /\ auctionList' = [auctionList EXCEPT ![n].nowValue = bidValue[n][u] + bidAmount]
  /\ bidValue' = [bidValue EXCEPT ![n][u] = @ + bidAmount]

\* A bid adds bidAmount to what u has already bid on auction n.
Bid(n, u, bidAmount) ==
  /\ auctionList[n].timeOver > now
  /\ auctionList[n].nowValue < bidValue[n][u] + bidAmount
  /\ BidCost(u, bidAmount)
  /\ bider' = [bider EXCEPT ![n] = u]
  /\ auctionList' = [auctionList EXCEPT ![n].nowValue = bidValue[n][u] + bidAmount]
  /\ bidValue' = [bidValue EXCEPT ![n][u] = @ + bidAmount]

\* Anyone but the leader takes its whole bid back, at any time; n need not be
\* the number of an auction.
BidWithdrawal(n, u) ==
  /\ bider[n] # u
  /\ bidValue[n][u] > 0
  /\ BidBack(u, bidValue[n][u])
  /\ bidValue' = [bidValue EXCEPT ![n][u] = 0]
  /\ UNCHANGED <<auctionList, bider>>

\* The leader collects.  The call of the bank's auctionOver, which comes before
\* the burn, is conjoined by the bank.
GetAuction(n, u) ==
  /\ auctionList[n].state # 2
  /\ auctionList[n].timeOver < now
  /\ bider[n] = u
  /\ auctionList[n].debt <= auctionList[n].startValue
  /\ Burn(AuctionManager, auctionList[n].startValue)
  /\ auctionList' = [auctionList EXCEPT ![n].state = 2]
  /\ UNCHANGED <<bider, bidValue>>

\* The foundation manager restarts every expired auction nobody has bid on.
UpgradeState ==
  /\ auctionList' = [n \in Listed |->
       IF auctionList[n].timeOver < now /\ bider[n] = NoOne
       THEN [auctionList[n] EXCEPT !.timeOver = now + BidDuration]
       ELSE auctionList[n]]
  /\ UNCHANGED <<bider, bidValue>>
=============================================================================
