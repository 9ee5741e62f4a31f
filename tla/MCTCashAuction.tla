--------------------------- MODULE MCTCashAuction ---------------------------
(***************************************************************************)
(* TLC instance of TCashAuction: two bidders and the auction manager, two  *)
(* auctions whose bids compete for the same balances.                      *)
(***************************************************************************)
EXTENDS TCashAuctionSale, TLC

BidderSymmetry == Permutations(Bidders)

MCLots == {[mortgage |-> 3, debt |-> 1, interest |-> 0],
           [mortgage |-> 3, debt |-> 2, interest |-> 1]}
=============================================================================
