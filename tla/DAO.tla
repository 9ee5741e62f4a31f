-------------------------------- MODULE DAO --------------------------------
(***************************************************************************)
(* The DAO (contracts/Governance/DAO/GovernorUpgradeable.sol and DAO.sol): *)
(* proposals, votes weighted by the native token sent with them, a queue   *)
(* with a delay, execution, and withdrawal of the stakes.                  *)
(*                                                                         *)
(* A proposal is its content, as its id is the content's hash.  It may     *)
(* make calls: of the DAO's setters, of relay, which pays an account, and  *)
(* of contracts that do not call back, which change nothing here.  Without *)
(* calls it is manual.                                                     *)
(* Voting starts and ends at block numbers, the queue's delay is in time.  *)
(* One setting, minDelay, is the length of both delays.                    *)
(*                                                                         *)
(* Left out: _cancel, which nothing calls, and native tokens sent with     *)
(* execute and withdraw, which are donations.                              *)
(***************************************************************************)
EXTENDS Integers, FiniteSets, Functions

CONSTANTS Voters,
          Proposals,
          Content,          \* proposal -> whether it makes calls, the settings they
                            \* change, and the sum that they relay
          Amounts,          \* amounts of native token
          Unit,             \* 1e18 of them in the code
          BlockTimes,       \* the time between blocks
          InitialDelay, InitialPeriod,
          DeployedBlock,
          MaxBlock,         \* bounds for TLC: block numbers,
          MaxSurplus        \* fees and donations

SettingNames == {"minDelay", "votingPeriod", "blockReward", "blockRatio"}

ASSUME DAOAssumption ==
  /\ IsFiniteSet(Proposals) /\ IsFiniteSet(Voters)
  /\ \A p \in Proposals :
       /\ Content[p].calls \in BOOLEAN /\ Content[p].pays \in Nat
       /\ DOMAIN Content[p].sets \subseteq SettingNames
       /\ \A name \in DOMAIN Content[p].sets : Content[p].sets[name] \in Nat
       /\ ~Content[p].calls => DOMAIN Content[p].sets = {} /\ Content[p].pays = 0
  /\ Amounts \subseteq Nat /\ Unit \in Nat \ {0} /\ BlockTimes \subseteq Nat \ {0}
  /\ InitialDelay \in Nat /\ InitialPeriod \in Nat
  /\ DeployedBlock \in Nat \ {0, 1}
  /\ MaxBlock \in Nat /\ MaxSurplus \in Nat

VARIABLES proposals,    \* proposal -> ProposalCore
          timestamps,   \* proposal -> when its delay is over
          votes,        \* proposal -> voter -> stake
          hasVoted,     \* proposal -> voters
          proposalVotes, \* proposal -> support -> weight
          settings,
          funds,        \* the native balance of the contract
          surplus,      \* the part of it that is nobody's stake
          block, now    \* block.number, block.timestamp

daoVars == <<proposals, timestamps, votes, hasVoted, proposalVotes, settings, funds, surplus,
             block, now>>
voteVars == <<votes, hasVoted, proposalVotes>>

VoteTypes == {"against", "for", "abstain"}

ProposalCore == [voteStart : Nat, voteEnd : Nat, queued : BOOLEAN, executed : BOOLEAN,
                 manualExecuted : BOOLEAN]
Stake        == [amount : Nat, withdrawed : BOOLEAN]

DoneTimestamp == 1

DAOTypeOK ==
  /\ proposals \in [Proposals -> ProposalCore]
  /\ timestamps \in [Proposals -> Nat]
  /\ votes \in [Proposals -> [Voters -> Stake]]
  /\ hasVoted \in [Proposals -> SUBSET Voters]
  /\ proposalVotes \in [Proposals -> [VoteTypes -> Nat]]
  /\ settings \in [SettingNames -> Nat]
  /\ funds \in Nat /\ surplus \in Int
  /\ block \in Nat /\ now \in Nat

DAOInit ==
  /\ proposals = [p \in Proposals |-> [voteStart |-> 0, voteEnd |-> 0, queued |-> FALSE,
                                       executed |-> FALSE, manualExecuted |-> FALSE]]
  /\ timestamps = [p \in Proposals |-> 0]
  /\ votes = [p \in Proposals |-> [v \in Voters |-> [amount |-> 0, withdrawed |-> FALSE]]]
  /\ hasVoted = [p \in Proposals |-> {}]
  /\ proposalVotes = [p \in Proposals |-> [s \in VoteTypes |-> 0]]
  /\ settings = [name \in SettingNames |-> CASE name = "minDelay"     -> InitialDelay
                                             [] name = "votingPeriod" -> InitialPeriod
                                             [] name = "blockReward"  -> 10 * Unit
                                             [] name = "blockRatio"   -> 5 * 10000]
  /\ funds = 0 /\ surplus = 0
  /\ block = DeployedBlock /\ now = DeployedBlock

-----------------------------------------------------------------------------
(***************************************************************************)
(* The state of a proposal.                                                *)
(***************************************************************************)

Quorum(blockNumber) ==
  IF blockNumber <= DeployedBlock THEN 0
  ELSE (((blockNumber - DeployedBlock) * settings["blockReward"] * settings["blockRatio"])
          \div 100) \div 10000

QuorumReached(p) ==
  Quorum(proposals[p].voteStart) <= proposalVotes[p]["for"] + proposalVotes[p]["abstain"]

VoteSucceeded(p) == proposalVotes[p]["for"] > proposalVotes[p]["against"]

\* Mutant: votes are taken for one block more.
StateLate(p) ==
  LET core == proposals[p]
  IN  IF core.queued
      THEN IF timestamps[p] > 0 /\ timestamps[p] >= now THEN "Expired" ELSE "Queued"
      ELSE IF core.executed THEN "Executed"
      ELSE IF core.manualExecuted THEN "ManualExecuted"
      ELSE IF core.voteStart = 0 THEN "unknown"
      ELSE IF core.voteStart >= block THEN "Pending"
      ELSE IF core.voteEnd + 1 >= block THEN "Active"
      ELSE IF QuorumReached(p) /\ VoteSucceeded(p) THEN "Succeeded" ELSE "Defeated"

\* A proposal whose delay still runs reads as expired.  The quorum is that of the
\* settings of the moment at which it is asked for.
State(p) ==
  LET core == proposals[p]
  IN  IF core.queued
      THEN IF timestamps[p] > 0 /\ timestamps[p] >= now THEN "Expired" ELSE "Queued"
      ELSE IF core.executed THEN "Executed"
      ELSE IF core.manualExecuted THEN "ManualExecuted"
      ELSE IF core.voteStart = 0 THEN "unknown"
      ELSE IF core.voteStart >= block THEN "Pending"
      ELSE IF core.voteEnd >= block THEN "Active"
      ELSE IF QuorumReached(p) /\ VoteSucceeded(p) THEN "Succeeded" ELSE "Defeated"

NewBlock ==
  /\ block < MaxBlock
  /\ block' = block + 1
  /\ \E d \in BlockTimes : now' = now + d
  /\ UNCHANGED <<proposals, timestamps, voteVars, settings, funds, surplus>>

Donate(amount) ==
  /\ surplus + amount <= MaxSurplus
  /\ funds' = funds + amount /\ surplus' = surplus + amount
  /\ UNCHANGED <<proposals, timestamps, voteVars, settings, block, now>>

-----------------------------------------------------------------------------
(***************************************************************************)
(* Proposing and voting.                                                   *)
(***************************************************************************)

\* Mutant: who has voted is not marked.
CountVoteUnmarked(p, v, support, amount) ==
  /\ v \notin hasVoted[p]
  /\ votes' = [votes EXCEPT ![p][v] = [amount |-> amount, withdrawed |-> FALSE]]
  /\ hasVoted' = hasVoted
  /\ proposalVotes' = [proposalVotes EXCEPT ![p][support] = @ + amount]
  /\ funds' = funds + amount
  /\ surplus' = surplus

\* What a vote writes: the stake first, then, if v has not voted, the tally.
CountVote(p, v, support, amount) ==
  /\ v \notin hasVoted[p]
  /\ votes' = [votes EXCEPT ![p][v] = [amount |-> amount, withdrawed |-> FALSE]]
  /\ hasVoted' = [hasVoted EXCEPT ![p] = @ \cup {v}]
  /\ proposalVotes' = [proposalVotes EXCEPT ![p][support] = @ + amount]
  /\ funds' = funds + amount
  /\ surplus' = surplus

\* A proposal with a call waits for votingDelay, and what is sent with it is kept.
Propose(p, value) ==
  LET snapshot == block + settings["minDelay"]
  IN  /\ Content[p].calls
      /\ proposals[p].voteStart = 0
      /\ surplus + value <= MaxSurplus
      /\ proposals' = [proposals EXCEPT ![p].voteStart = snapshot,
                                        ![p].voteEnd = snapshot + settings["votingPeriod"]]
      /\ funds' = funds + value /\ surplus' = surplus + value
      /\ UNCHANGED <<timestamps, voteVars, settings, block, now>>

\* A proposal without calls is open at once, and its proposer votes for it with
\* what is sent, which must be possible now.
ProposeManual(p, proposer, value) ==
  LET snapshot == block - 1
  IN  /\ ~Content[p].calls
      /\ value >= Unit
      /\ proposals[p].voteStart = 0
      /\ snapshot + settings["votingPeriod"] >= block
      /\ proposals' = [proposals EXCEPT ![p].voteStart = snapshot,
                                        ![p].voteEnd = snapshot + settings["votingPeriod"]]
      /\ CountVote(p, proposer, "for", value)
      /\ UNCHANGED <<timestamps, settings, block, now>>

\* Mutant: whoever has voted may vote again.
CastVoteAgain(p, v, support, value) ==
  /\ value >= Unit
  /\ State(p) = "Active"
  /\ votes' = [votes EXCEPT ![p][v] = [amount |-> value, withdrawed |-> FALSE]]
  /\ hasVoted' = [hasVoted EXCEPT ![p] = @ \cup {v}]
  /\ proposalVotes' = [proposalVotes EXCEPT ![p][support] = @ + value]
  /\ funds' = funds + value
  /\ UNCHANGED <<proposals, timestamps, settings, surplus, block, now>>

CastVote(p, v, support, value) ==
  /\ value >= Unit
  /\ State(p) = "Active"
  /\ CountVote(p, v, support, value)
  /\ UNCHANGED <<proposals, timestamps, settings, block, now>>

-----------------------------------------------------------------------------
(***************************************************************************)
(* Queue, execution, withdrawal.                                           *)
(***************************************************************************)

Queue(p) ==
  /\ State(p) = "Succeeded"
  /\ proposals' = [proposals EXCEPT ![p].queued = TRUE]
  /\ timestamps' = [timestamps EXCEPT ![p] = now + settings["minDelay"]]
  /\ UNCHANGED <<voteVars, settings, funds, surplus, block, now>>

Ready(p) == State(p) = "Queued" /\ timestamps[p] # DoneTimestamp /\ timestamps[p] < now

\* Any proposal can be marked as executed by hand, also one that makes a call.
ManualExecuted(p) ==
  /\ Ready(p)
  /\ proposals' = [proposals EXCEPT ![p].queued = FALSE, ![p].manualExecuted = TRUE]
  /\ timestamps' = [timestamps EXCEPT ![p] = DoneTimestamp]
  /\ UNCHANGED <<voteVars, settings, funds, surplus, block, now>>

\* The settings after the calls of p.
Enacted(p) == [name \in SettingNames |->
                 IF name \in DOMAIN Content[p].sets THEN Content[p].sets[name]
                 ELSE settings[name]]

\* relay pays from the whole balance.
Execute(p) ==
  /\ Ready(p)
  /\ Content[p].pays <= funds
  /\ proposals' = [proposals EXCEPT ![p].queued = FALSE, ![p].executed = TRUE]
  /\ timestamps' = [timestamps EXCEPT ![p] = DoneTimestamp]
  /\ settings' = Enacted(p)
  /\ funds' = funds - Content[p].pays /\ surplus' = surplus - Content[p].pays
  /\ UNCHANGED <<voteVars, block, now>>

\* Mutant: a stake is paid without being marked.
WithdrawUnmarked(p, v) ==
  /\ State(p) \in {"Defeated", "Expired", "Executed", "ManualExecuted"}
  /\ ~votes[p][v].withdrawed
  /\ votes[p][v].amount <= funds
  /\ funds' = funds - votes[p][v].amount
  /\ UNCHANGED <<proposals, timestamps, voteVars, settings, surplus, block, now>>

Withdraw(p, v) ==
  /\ State(p) \in {"Defeated", "Expired", "Executed", "ManualExecuted"}
  /\ ~votes[p][v].withdrawed
  /\ votes[p][v].amount <= funds
  /\ votes' = [votes EXCEPT ![p][v].withdrawed = TRUE]
  /\ funds' = funds - votes[p][v].amount
  /\ UNCHANGED <<proposals, timestamps, hasVoted, proposalVotes, settings, surplus, block, now>>

-----------------------------------------------------------------------------

DAONext ==
  \/ NewBlock
  \/ \E amount \in Amounts : Donate(amount)
  \/ \E p \in Proposals :
       \/ Queue(p) \/ ManualExecuted(p) \/ Execute(p)
       \/ \E value \in Amounts : Propose(p, value)
       \/ \E v \in Voters :
            \/ Withdraw(p, v)
            \/ \E value \in Amounts :
                 \/ ProposeManual(p, v, value)
                 \/ \E support \in VoteTypes : CastVote(p, v, support, value)

DAOSpec == DAOInit /\ [][DAONext]_daoVars

-----------------------------------------------------------------------------
(***************************************************************************)
(* Properties.                                                             *)
(***************************************************************************)

StakeOf(p, v) == IF votes[p][v].withdrawed THEN 0 ELSE votes[p][v].amount

\* What the votes on p weigh, what was staked for them, what of it is still held.
Weighed(p) == SumFunctionOnSet(proposalVotes[p], VoteTypes)
Staked(p)  == SumFunction([v \in Voters |-> votes[p][v].amount])
Held(p)    == SumFunction([v \in Voters |-> StakeOf(p, v)])

\* Every weight in a tally is a stake of exactly one voter who is marked as having
\* voted, whichever of the two ways to vote it came by, and it stays in the tally
\* when the stake is withdrawn.
VotesAreStaked ==
  \A p \in Proposals : /\ Weighed(p) = Staked(p)
                      /\ hasVoted[p] = {v \in Voters : votes[p][v].amount > 0}

\* The balance is the stakes not yet withdrawn and what came in or went out
\* otherwise: no order of votes, withdrawals and executions pays a stake twice or
\* takes a fee for a stake.
StakesAreBacked == funds = surplus + SumFunction([p \in Proposals |-> Held(p)])

\* A vote is final: no later call of any account changes its stake, and once the
\* stake is withdrawn it stays so.
VotesStand ==
  [][\A p \in Proposals : \A v \in hasVoted[p] :
       /\ v \in hasVoted'[p]
       /\ votes'[p][v].amount = votes[p][v].amount
       /\ votes[p][v].withdrawed => votes'[p][v].withdrawed]_daoVars
=============================================================================
