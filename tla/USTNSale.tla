------------------------------ MODULE USTNSale ------------------------------
(***************************************************************************)
(* The auctions of the USTN bank as ascending auctions: the refinement of  *)
(* Sale.  As for the TCash auctions the deadline is the hammer, for a lot  *)
(* somebody leads.                                                         *)
(***************************************************************************)
EXTENDS USTNFinance

Stage(n) == IF n \notin Listed THEN "unlisted"
            ELSE IF auctionList[n].state = 2 THEN "sold"
            ELSE IF auctionList[n].timeOver <= now /\ bider[n] # NoOne THEN "fallen"
            ELSE "open"

Price(n) == IF n \in Listed THEN auctionList[n].nowValue ELSE 0

SaleOf == INSTANCE Sale WITH
            LotIds <- AuctionIds, Buyers <- Bidders, Nobody <- NoOne,
            stage <- [n \in AuctionIds |-> Stage(n)],
            leader <- bider,
            price <- [n \in AuctionIds |-> Price(n)]

\* Whatever the bank lists, several lots at a time, and whatever is bid, taken
\* back, restarted or collected, every lot is sold once, to the leader of its
\* deadline, at a price that only rose (bid, bidWithdrawal, getAuction,
\* upgradeState, liquidation).
IsUSTNSale == SaleOf!SaleSpec

\* The price of a lot is its leader's whole bid, above the starting price and
\* above all other bids; without a leader nobody has a bid on it.
LeaderHoldsPrice ==
  \A n \in AuctionIds :
    IF n \in Listed /\ bider[n] # NoOne
    THEN /\ auctionList[n].nowValue = bidValue[n][bider[n]]
         /\ auctionList[n].nowValue > auctionList[n].startValue
         /\ \A u \in Bidders \ {bider[n]} : bidValue[n][u] < auctionList[n].nowValue
    ELSE /\ bider[n] = NoOne
         /\ \A u \in Bidders : bidValue[n][u] = 0
         /\ n \in Listed => auctionList[n].nowValue = auctionList[n].startValue

\* A collected lot has a winner and its deadline is behind it for good.
SoldIsOver ==
  \A n \in Listed : auctionList[n].state = 2 =>
    bider[n] # NoOne /\ auctionList[n].timeOver < now
=============================================================================
