------------------------------- MODULE MCUSTN -------------------------------
(***************************************************************************)
(* TLC instance of the USTN bank.                                          *)
(***************************************************************************)
EXTENDS USTNSale
=============================================================================
