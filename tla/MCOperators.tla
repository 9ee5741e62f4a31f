---------------------------- MODULE MCOperators ----------------------------
(***************************************************************************)
(* A TLC instance of Operators: two managers, one with a local key, used   *)
(* on three terminals, and one with a key in AWS KMS.                      *)
(***************************************************************************)
EXTENDS Operators

CONSTANTS m1, m2

Keys == [t \in Terminals |-> IF t = "kms" THEN m2 ELSE m1]

Otter == [type |-> 5, treasure |-> "OIL", dapp |-> "otter"]
UnitMapping == <<[type |-> 6, token |-> "UNIT", info |-> "ethereum"]>>
Proposals == {Otter, UnitMapping[1]}
=============================================================================
