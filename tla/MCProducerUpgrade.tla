------------------------- MODULE MCProducerUpgrade -------------------------
(***************************************************************************)
(* A TLC instance of ProducerUpgrade: two of the four kinds.               *)
(***************************************************************************)
EXTENDS ProducerUpgrade

TwoKinds == <<"OIL", "GAS">>
=============================================================================
