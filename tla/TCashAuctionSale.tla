-------------------------- MODULE TCashAuctionSale --------------------------
(***************************************************************************)
(* The TCash auctions as ascending auctions: the refinement of Sale.  The  *)
(* deadline is the hammer, and it falls on a lot once someone leads it: an *)
(* expired auction without a bid is still open, waiting for upgradeState.  *)
(***************************************************************************)
EXTENDS TCashAuction

Stage(n) == IF n \notin Listed THEN "unlisted"
            ELSE IF auctionList[n].state = 2 THEN "sold"
            ELSE IF auctionList[n].timeOver <= now /\ bider[n] # NoOne THEN "fallen"
            ELSE "open"

Price(n) == IF n \in Listed THEN auctionList[n].nowValue ELSE 0

SaleOf == INSTANCE Sale WITH
            LotIds <- AuctionIds, Buyers <- Bidders, Nobody <- NoOne,
            stage <- [n \in AuctionIds |-> Stage(n)],
            leader <- bider,
            price <- [n \in AuctionIds |-> Price(n)]

\* Whatever is bid, withdrawn, restarted or collected, and however the clock and
\* the bid duration move, the auctions behave as ascending auctions: a leader
\* changes only for a strictly higher price, a price never falls, nothing moves
\* after the deadline of an auction that has a leader, and it is collected once.
IsSale == SaleOf!SaleSpec

\* A collected auction has a winner and its deadline is behind it for good, so
\* that no late bid and no restart can reach it.
SoldIsOver ==
  \A n \in Listed : auctionList[n].state = 2 =>
    bider[n] # NoOne /\ auctionList[n].timeOver < now
=============================================================================
