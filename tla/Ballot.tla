------------------------------- MODULE Ballot -------------------------------
(***************************************************************************)
(* What a governor promises about each question put to it: it is voted on  *)
(* while it is open, its tally is fixed when it closes, it is queued only  *)
(* if the tally carries it, and it is done at most once.                   *)
(***************************************************************************)
EXTENDS Naturals

CONSTANTS Questions, Weights

VARIABLES stage, tally

ballotVars == <<stage, tally>>

Supports == {"against", "for", "abstain"}
Stages   == {"none", "open", "closed", "queued", "done"}

BallotInit ==
  /\ stage = [q \in Questions |-> "none"]
  /\ tally = [q \in Questions |-> [s \in Supports |-> 0]]

Ask(q) ==
  /\ stage[q] = "none"
  /\ stage' = [stage EXCEPT ![q] = "open"]
  /\ tally' = tally

\* Whoever asks may vote for the question at once.
AskAndVote(q, weight) ==
  /\ stage[q] = "none"
  /\ stage' = [stage EXCEPT ![q] = "open"]
  /\ tally' = [tally EXCEPT ![q]["for"] = @ + weight]

Vote(q, support, weight) ==
  /\ stage[q] = "open"
  /\ tally' = [tally EXCEPT ![q][support] = @ + weight]
  /\ stage' = stage

Close(closing) ==
  /\ \A q \in closing : stage[q] = "open"
  /\ stage' = [q \in Questions |-> IF q \in closing THEN "closed" ELSE stage[q]]
  /\ tally' = tally

Carry(q) ==
  /\ stage[q] = "closed"
  /\ tally[q]["for"] > tally[q]["against"]
  /\ stage' = [stage EXCEPT ![q] = "queued"]
  /\ tally' = tally

Do(q) ==
  /\ stage[q] = "queued"
  /\ stage' = [stage EXCEPT ![q] = "done"]
  /\ tally' = tally

BallotNext ==
  \/ \E q \in Questions :
       \/ Ask(q) \/ Carry(q) \/ Do(q)
       \/ \E weight \in Weights :
            AskAndVote(q, weight) \/ \E support \in Supports : Vote(q, support, weight)
  \/ \E closing \in SUBSET Questions : Close(closing)

BallotSpec == BallotInit /\ [][BallotNext]_ballotVars
=============================================================================
