------------------------------- MODULE MCDAO -------------------------------
(***************************************************************************)
(* TLC instance of DAO: a proposal without calls, and one that drops the   *)
(* quorum and the delays and pays from the balance.                        *)
(***************************************************************************)
EXTENDS DAOBallot, TLC

CONSTANTS manual, reform

MCContent ==
  manual :> [calls |-> FALSE, sets |-> <<>>, pays |-> 0]
  @@ reform :> [calls |-> TRUE, sets |-> ("blockReward" :> 0 @@ "minDelay" :> 0), pays |-> 3]

VoterSymmetry == Permutations(Voters)
=============================================================================
