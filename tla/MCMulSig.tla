------------------------------ MODULE MCMulSig ------------------------------
(***************************************************************************)
(* TLC instances of MulSig: an agenda that changes the roles of two        *)
(* managers and of the multisig itself and every registry, and one that    *)
(* changes roles only.                                                     *)
(***************************************************************************)
EXTENDS MulSig

CONSTANTS m1, m2

RoleChange(grant, role, account) ==
  [type |-> 1, grant |-> grant, role |-> role, account |-> account]

MixedAgenda == {RoleChange(FALSE, "FOUNDATION_MANAGER", m1),
                RoleChange(TRUE, "FOUNDATION_MANAGER", m1),
                RoleChange(FALSE, "ADMIN", MulSig),
                [type |-> 2, treasure |-> "OIL"],
                [type |-> 3, key |-> "TCASHMCT", value |-> 600000],
                [type |-> 3, key |-> "TCASHLT", value |-> 700000],
                [type |-> 4, curve |-> <<9000, 8000, 7000, 6000>>],
                [type |-> 5, treasure |-> "OIL", dapp |-> "otter"],
                [type |-> 6, token |-> "TCASH", info |-> "ethereum"]}

RoleAgenda == {RoleChange(TRUE, "FOUNDATION_MANAGER", m1),
               RoleChange(FALSE, "FOUNDATION_MANAGER", m1),
               RoleChange(TRUE, "AUCTION_MANAGER", m1)}
=============================================================================
