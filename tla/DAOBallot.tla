----------------------------- MODULE DAOBallot -----------------------------
(***************************************************************************)
(* The DAO implements Ballot: a proposal is a question, open until its     *)
(* deadline has passed.                                                    *)
(***************************************************************************)
EXTENDS DAO

StageOf(p) ==
  LET core == proposals[p]
  IN  IF core.executed \/ core.manualExecuted THEN "done"
      ELSE IF core.queued THEN "queued"
      ELSE IF core.voteStart = 0 THEN "none"
      ELSE IF core.voteEnd >= block THEN "open" ELSE "closed"

B == INSTANCE Ballot WITH Questions <- Proposals,
                          Weights   <- Amounts \ {0},
                          stage     <- [p \in Proposals |-> StageOf(p)],
                          tally     <- proposalVotes

\* The governor's life cycle of a proposal is a ballot: no vote counts after the
\* deadline, what is queued was carried by the final tally, and nothing is executed
\* twice or both ways (state, propose, castVote, queue, execute, manualExecuted).
IsBallot == B!BallotSpec
=============================================================================
