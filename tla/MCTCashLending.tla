--------------------------- MODULE MCTCashLending ---------------------------
(***************************************************************************)
(* TLC instances of TCashLending: one borrower, one bidder and the auction *)
(* manager, two loans and two auctions.                                    *)
(***************************************************************************)
EXTENDS TCashLending
=============================================================================
