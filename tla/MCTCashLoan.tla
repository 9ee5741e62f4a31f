---------------------------- MODULE MCTCashLoan ----------------------------
(***************************************************************************)
(* TLC instance of TCashLoan: the loan book alone, with records and        *)
(* statuses set by hand.                                                   *)
(***************************************************************************)
EXTENDS TCashLoan
=============================================================================
