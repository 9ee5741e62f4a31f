----------------------------- MODULE DAOProofs -----------------------------
(***************************************************************************)
(* Proofs about the DAO, for all voters, proposals, settings and amounts:  *)
(* types, the finality of votes, what the stakes add up to, and that it    *)
(* implements Ballot.                                                      *)
(***************************************************************************)
EXTENDS DAOBallot, Sums, TLAPS

Settled(core) == core.queued \/ core.executed \/ core.manualExecuted

\* A proposal is queued or executed, not both, and only after its deadline.
CoreOK(core) ==
  /\ core.queued => ~core.executed /\ ~core.manualExecuted
  /\ Settled(core) => core.voteStart # 0 /\ core.voteEnd < block

DAOInv ==
  /\ DAOTypeOK
  /\ block > 1
  /\ \A p \in Proposals : CoreOK(proposals[p])

USE DEF VoteTypes

-----------------------------------------------------------------------------
(***************************************************************************)
(* What a reading of the state says.                                       *)
(***************************************************************************)

\* Votes are taken only before the deadline, from proposals that are not settled (state).
LEMMA ActiveIsOpen ==
  ASSUME NEW p \in Proposals, State(p) = "Active"
  PROVE  /\ ~Settled(proposals[p]) /\ proposals[p].voteStart # 0
         /\ proposals[p].voteEnd >= block
  BY DEF State, Settled

\* Only what is closed and carried reads as succeeded (state).
LEMMA SucceededIsCarried ==
  ASSUME NEW p \in Proposals, State(p) = "Succeeded"
  PROVE  /\ ~Settled(proposals[p]) /\ proposals[p].voteStart # 0
         /\ ~(proposals[p].voteStart >= block) /\ ~(proposals[p].voteEnd >= block)
         /\ proposalVotes[p]["for"] > proposalVotes[p]["against"]
  BY DEF State, Settled, VoteSucceeded

\* Only what is queued reads as queued (state).
LEMMA ReadyIsQueued ==
  ASSUME NEW p \in Proposals, Ready(p)
  PROVE  proposals[p].queued
  BY DEF State, Ready

-----------------------------------------------------------------------------
(***************************************************************************)
(* The invariant.                                                          *)
(***************************************************************************)

LEMMA InitInv == DAOInit => DAOInv
<1> SUFFICES ASSUME DAOInit PROVE DAOInv
  OBVIOUS
<1> USE DAOAssumption
<1>1. settings \in [SettingNames -> Nat]
  BY DEF DAOInit, SettingNames
<1>2. proposals \in [Proposals -> ProposalCore]
  BY DEF DAOInit, ProposalCore
<1>3. votes \in [Proposals -> [Voters -> Stake]]
  BY DEF DAOInit, Stake
<1>4. \A p \in Proposals : CoreOK(proposals[p])
  BY DEF DAOInit, CoreOK, Settled
<1>5. /\ hasVoted \in [Proposals -> SUBSET Voters] /\ timestamps \in [Proposals -> Nat]
      /\ proposalVotes \in [Proposals -> [VoteTypes -> Nat]]
      /\ funds \in Nat /\ surplus \in Int
  BY DEF DAOInit
<1>6. DeployedBlock \in Nat /\ DeployedBlock > 1
  OBVIOUS
<1>7. block \in Nat /\ block > 1 /\ now \in Nat
  BY <1>6 DEF DAOInit
<1> QED
  BY <1>1, <1>2, <1>3, <1>4, <1>5, <1>7 DEF DAOInv, DAOTypeOK

\* Counting a vote keeps the types (_countVote).
LEMMA CountVoteTypes ==
  ASSUME DAOTypeOK, NEW p \in Proposals, NEW v \in Voters, NEW support \in VoteTypes,
         NEW amount \in Nat, CountVote(p, v, support, amount)
  PROVE  /\ votes' \in [Proposals -> [Voters -> Stake]]
         /\ hasVoted' \in [Proposals -> SUBSET Voters]
         /\ proposalVotes' \in [Proposals -> [VoteTypes -> Nat]]
         /\ funds' \in Nat /\ surplus' \in Int
<1>1. [amount |-> amount, withdrawed |-> FALSE] \in Stake
  BY DEF Stake
<1>2. proposalVotes[p][support] + amount \in Nat
  BY DEF DAOTypeOK
<1> QED
  BY <1>1, <1>2 DEF CountVote, DAOTypeOK

\* One step of the contract or of its surroundings keeps the invariant.
LEMMA StepInv == DAOInv /\ [DAONext]_daoVars => DAOInv'
<1> SUFFICES ASSUME DAOInv, [DAONext]_daoVars PROVE DAOInv'
  OBVIOUS
<1> USE DAOAssumption
<1>1. CASE UNCHANGED daoVars
  BY <1>1 DEF daoVars, DAOInv, DAOTypeOK, CoreOK, Settled
<1>2. CASE NewBlock
  <2>1. block' \in Nat /\ block' > block /\ now' \in Nat
    BY <1>2 DEF NewBlock, DAOInv, DAOTypeOK
  <2>2. ASSUME NEW p \in Proposals PROVE CoreOK(proposals[p])'
    <3>1. proposals[p] \in ProposalCore
      BY DEF DAOInv, DAOTypeOK
    <3>2. proposals'[p] = proposals[p] /\ CoreOK(proposals[p]) /\ block \in Nat
      BY <1>2 DEF NewBlock, DAOInv, DAOTypeOK
    <3>3. proposals[p].voteEnd \in Nat
      BY <3>1 DEF ProposalCore
    <3> QED
      BY <2>1, <3>2, <3>3 DEF CoreOK, Settled
  <2> QED
    BY <1>2, <2>1, <2>2 DEF NewBlock, DAOInv, DAOTypeOK, voteVars
<1>3. ASSUME NEW amount \in Amounts, Donate(amount) PROVE DAOInv'
  BY <1>3 DEF Donate, DAOInv, DAOTypeOK, CoreOK, Settled, voteVars
<1>4. ASSUME NEW p \in Proposals, NEW value \in Amounts, Propose(p, value) PROVE DAOInv'
  <2> DEFINE snapshot == block + settings["minDelay"]
             core     == [proposals[p] EXCEPT !.voteStart = snapshot,
                                              !.voteEnd = snapshot + settings["votingPeriod"]]
  <2>1. proposals[p] \in ProposalCore /\ snapshot \in Nat
        /\ snapshot + settings["votingPeriod"] \in Nat /\ value \in Nat
    BY DEF DAOInv, DAOTypeOK, SettingNames
  <2>2. proposals' = [proposals EXCEPT ![p] = core]
    BY <1>4, <2>1 DEF Propose, DAOInv, DAOTypeOK
  <2>3. core \in ProposalCore
    BY <2>1 DEF ProposalCore
  <2>4. ~Settled(core)
    BY <1>4, <2>1 DEF Propose, DAOInv, CoreOK, Settled, ProposalCore
  <2>5. DAOTypeOK' /\ block' = block
    BY <1>4, <2>1, <2>2, <2>3 DEF Propose, DAOInv, DAOTypeOK, voteVars
  <2> QED
    BY <2>2, <2>4, <2>5 DEF DAOInv, DAOTypeOK, CoreOK, Settled
<1>5. ASSUME NEW p \in Proposals, NEW v \in Voters, NEW value \in Amounts,
             ProposeManual(p, v, value)
      PROVE  DAOInv'
  <2> DEFINE snapshot == block - 1
             core     == [proposals[p] EXCEPT !.voteStart = snapshot,
                                              !.voteEnd = snapshot + settings["votingPeriod"]]
  <2>1. proposals[p] \in ProposalCore /\ snapshot \in Nat
        /\ snapshot + settings["votingPeriod"] \in Nat /\ value \in Nat
    BY DEF DAOInv, DAOTypeOK, SettingNames
  <2>2. proposals' = [proposals EXCEPT ![p] = core]
    BY <1>5, <2>1 DEF ProposeManual, DAOInv, DAOTypeOK
  <2>3. core \in ProposalCore
    BY <2>1 DEF ProposalCore
  <2>4. ~Settled(core)
    BY <1>5, <2>1 DEF ProposeManual, DAOInv, CoreOK, Settled, ProposalCore
  <2>5. CountVote(p, v, "for", value) /\ DAOTypeOK
    BY <1>5 DEF ProposeManual, DAOInv
  <2>6. DAOTypeOK' /\ block' = block
    BY <1>5, <2>1, <2>2, <2>3, <2>5, CountVoteTypes DEF ProposeManual, DAOInv, DAOTypeOK
  <2> QED
    BY <2>2, <2>4, <2>6 DEF DAOInv, DAOTypeOK, CoreOK, Settled
<1>6. ASSUME NEW p \in Proposals, NEW v \in Voters, NEW value \in Amounts,
             NEW support \in VoteTypes, CastVote(p, v, support, value)
      PROVE  DAOInv'
  <2>1. CountVote(p, v, support, value) /\ value \in Nat /\ DAOTypeOK
    BY <1>6 DEF CastVote, DAOInv
  <2>2. DAOTypeOK'
    BY <1>6, <2>1, CountVoteTypes DEF CastVote, DAOTypeOK
  <2> QED
    BY <1>6, <2>2 DEF CastVote, DAOInv, CoreOK, Settled
<1>7. ASSUME NEW p \in Proposals, Queue(p) PROVE DAOInv'
  <2> DEFINE core == [proposals[p] EXCEPT !.queued = TRUE]
  <2>1. proposals[p] \in ProposalCore /\ block \in Nat
        /\ now + settings["minDelay"] \in Nat
    BY DEF DAOInv, DAOTypeOK, SettingNames
  <2>2. proposals' = [proposals EXCEPT ![p] = core]
    BY <1>7 DEF Queue, DAOInv, DAOTypeOK
  <2>3. core \in ProposalCore
    BY <2>1 DEF ProposalCore
  <2>4. ~Settled(proposals[p]) /\ proposals[p].voteStart # 0 /\ ~(proposals[p].voteEnd >= block)
    BY <1>7, SucceededIsCarried DEF Queue
  <2>5. CoreOK(core)
    BY <2>1, <2>4 DEF CoreOK, Settled, ProposalCore
  <2>6. DAOTypeOK' /\ block' = block
    BY <1>7, <2>1, <2>2, <2>3 DEF Queue, DAOInv, DAOTypeOK, voteVars
  <2> QED
    BY <2>2, <2>5, <2>6 DEF DAOInv, DAOTypeOK, CoreOK, Settled
<1>8. ASSUME NEW p \in Proposals, ManualExecuted(p) PROVE DAOInv'
  <2> DEFINE core == [proposals[p] EXCEPT !.queued = FALSE, !.manualExecuted = TRUE]
  <2>1. proposals[p] \in ProposalCore /\ proposals[p].queued /\ CoreOK(proposals[p])
    BY <1>8, ReadyIsQueued DEF ManualExecuted, DAOInv, DAOTypeOK
  <2>2. proposals' = [proposals EXCEPT ![p] = core]
    BY <1>8 DEF ManualExecuted, DAOInv, DAOTypeOK
  <2>3. core \in ProposalCore /\ CoreOK(core)
    BY <2>1 DEF CoreOK, Settled, ProposalCore
  <2>4. DAOTypeOK' /\ block' = block
    BY <1>8, <2>2, <2>3 DEF ManualExecuted, DAOInv, DAOTypeOK, voteVars, DoneTimestamp
  <2> QED
    BY <2>2, <2>3, <2>4 DEF DAOInv, DAOTypeOK, CoreOK, Settled
<1>9. ASSUME NEW p \in Proposals, Execute(p) PROVE DAOInv'
  <2> DEFINE core == [proposals[p] EXCEPT !.queued = FALSE, !.executed = TRUE]
  <2>1. proposals[p] \in ProposalCore /\ proposals[p].queued /\ CoreOK(proposals[p])
    BY <1>9, ReadyIsQueued DEF Execute, DAOInv, DAOTypeOK
  <2>2. proposals' = [proposals EXCEPT ![p] = core]
    BY <1>9 DEF Execute, DAOInv, DAOTypeOK
  <2>3. core \in ProposalCore /\ CoreOK(core)
    BY <2>1 DEF CoreOK, Settled, ProposalCore
  <2>4. settings' \in [SettingNames -> Nat]
    BY <1>9 DEF Execute, Enacted, DAOInv, DAOTypeOK
  <2>5. funds' \in Nat /\ surplus' \in Int
    BY <1>9 DEF Execute, DAOInv, DAOTypeOK
  <2>6. DAOTypeOK' /\ block' = block
    BY <1>9, <2>2, <2>3, <2>4, <2>5 DEF Execute, DAOInv, DAOTypeOK, voteVars, DoneTimestamp
  <2> QED
    BY <2>2, <2>3, <2>6 DEF DAOInv, DAOTypeOK, CoreOK, Settled
<1>10. ASSUME NEW p \in Proposals, NEW v \in Voters, Withdraw(p, v) PROVE DAOInv'
  <2>0. votes[p][v] \in Stake
    BY DEF DAOInv, DAOTypeOK
  <2>1. [votes[p][v] EXCEPT !.withdrawed = TRUE] \in Stake /\ votes[p][v].amount \in Nat
    BY <2>0 DEF Stake
  <2>2. votes' \in [Proposals -> [Voters -> Stake]]
    BY <1>10, <2>1 DEF Withdraw, DAOInv, DAOTypeOK
  <2>3. funds' \in Nat
    BY <1>10, <2>1 DEF Withdraw, DAOInv, DAOTypeOK
  <2> QED
    BY <1>10, <2>2, <2>3 DEF Withdraw, DAOInv, DAOTypeOK, CoreOK, Settled
<1> QED
  BY <1>1, <1>2, <1>3, <1>4, <1>5, <1>6, <1>7, <1>8, <1>9, <1>10 DEF DAONext

\* The invariant holds always.
THEOREM DAOInvariant == DAOSpec => []DAOInv
<1> QED
  BY InitInv, StepInv, PTL DEF DAOSpec

\* In every reachable state balances, stakes and tallies are natural numbers: no
\* withdrawal and no execution pays more than there is.
THEOREM DAOTypeCorrect == DAOSpec => []DAOTypeOK
<1>1. DAOInv => DAOTypeOK
  BY DEF DAOInv
<1> QED
  BY <1>1, DAOInvariant, PTL

-----------------------------------------------------------------------------
(***************************************************************************)
(* Votes are final.                                                        *)
(***************************************************************************)

\* Once counted, a vote keeps its amount and stays withdrawn when it is: castVote
\* overwrites the stake before it looks whether the account has voted, and only the
\* revert of the whole call protects the earlier stake.
THEOREM VotesAreFinal == DAOSpec => VotesStand
<1> DEFINE Stands(p, v) == /\ v \in hasVoted'[p]
                           /\ votes'[p][v].amount = votes[p][v].amount
                           /\ votes[p][v].withdrawed => votes'[p][v].withdrawed
           Step == \A p \in Proposals : \A v \in hasVoted[p] : Stands(p, v)
<1>1. DAOInv /\ [DAONext]_daoVars => [Step]_daoVars
  <2> SUFFICES ASSUME DAOInv, [DAONext]_daoVars PROVE [Step]_daoVars
    OBVIOUS
  <2> SUFFICES ASSUME DAONext, NEW q \in Proposals, NEW w \in hasVoted[q] PROVE Stands(q, w)
    OBVIOUS
  <2>1. /\ votes \in [Proposals -> [Voters -> Stake]] /\ w \in Voters
        /\ hasVoted \in [Proposals -> SUBSET Voters]
    BY DEF DAOInv, DAOTypeOK
  <2>2. ASSUME UNCHANGED <<votes, hasVoted>> PROVE Stands(q, w)
    BY <2>2
  <2>3. ASSUME NEW p \in Proposals, NEW v \in Voters, NEW support \in VoteTypes, NEW value,
               CountVote(p, v, support, value)
        PROVE  Stands(q, w)
    <3>1. v \notin hasVoted[p] /\ (q # p \/ w # v)
      BY <2>3 DEF CountVote
    <3>2. votes'[q][w] = votes[q][w]
      BY <2>1, <2>3, <3>1 DEF CountVote
    <3>3. hasVoted[q] \subseteq hasVoted'[q]
      BY <2>1, <2>3 DEF CountVote
    <3> QED
      BY <3>2, <3>3
  <2>4. ASSUME NEW p \in Proposals, NEW v \in Voters, Withdraw(p, v) PROVE Stands(q, w)
    <3>1. votes[p][v] \in Stake /\ votes[q][w] \in Stake
      BY <2>1
    <3>2. votes'[q][w] = IF q = p /\ w = v THEN [votes[q][w] EXCEPT !.withdrawed = TRUE]
                         ELSE votes[q][w]
      BY <2>1, <2>4 DEF Withdraw
    <3>3. hasVoted' = hasVoted
      BY <2>4 DEF Withdraw
    <3> QED
      BY <3>1, <3>2, <3>3 DEF Stake
  <2>5. CASE NewBlock
    BY <2>5, <2>2 DEF NewBlock, voteVars
  <2>6. ASSUME NEW amount \in Amounts, Donate(amount) PROVE Stands(q, w)
    BY <2>6, <2>2 DEF Donate, voteVars
  <2>7. ASSUME NEW p \in Proposals, Queue(p) \/ ManualExecuted(p) \/ Execute(p)
        PROVE  Stands(q, w)
    BY <2>7, <2>2 DEF Queue, ManualExecuted, Execute, voteVars
  <2>8. ASSUME NEW p \in Proposals, NEW value \in Amounts, Propose(p, value)
        PROVE  Stands(q, w)
    BY <2>8, <2>2 DEF Propose, voteVars
  <2>9. ASSUME NEW p \in Proposals, NEW v \in Voters, NEW value \in Amounts,
               ProposeManual(p, v, value)
        PROVE  Stands(q, w)
    BY <2>9, <2>3 DEF ProposeManual
  <2>10. ASSUME NEW p \in Proposals, NEW v \in Voters, NEW value \in Amounts,
                NEW support \in VoteTypes, CastVote(p, v, support, value)
         PROVE  Stands(q, w)
    BY <2>10, <2>3 DEF CastVote
  <2> QED
    BY <2>4, <2>5, <2>6, <2>7, <2>8, <2>9, <2>10 DEF DAONext
<1> QED
  BY <1>1, DAOInvariant, PTL DEF DAOSpec, VotesStand

-----------------------------------------------------------------------------
(***************************************************************************)
(* Stakes, tallies and balance.                                            *)
(***************************************************************************)

Reconciled == VotesAreStaked /\ StakesAreBacked

AmountOn(p) == [v \in Voters |-> votes[p][v].amount]
HeldOn(p)   == [v \in Voters |-> StakeOf(p, v)]
HeldOf      == [p \in Proposals |-> Held(p)]

LEMMA VoteTypesAreFinite == IsFiniteSet(VoteTypes)
<1>1. IsFiniteSet({"against"})
  BY FS_Singleton
<1>2. IsFiniteSet({"against"} \cup {"for"})
  BY <1>1, FS_AddElement
<1>3. IsFiniteSet(({"against"} \cup {"for"}) \cup {"abstain"})
  BY <1>2, FS_AddElement
<1>4. VoteTypes = ({"against"} \cup {"for"}) \cup {"abstain"}
  OBVIOUS
<1> QED
  BY <1>3, <1>4

StakeFacts ==
  /\ \A p \in Proposals : \A v \in Voters : /\ AmountOn(p)[v] \in Nat /\ HeldOn(p)[v] \in Nat
                                          /\ AmountOn(p)[v] = votes[p][v].amount
                                          /\ HeldOn(p)[v] = StakeOf(p, v)
  /\ \A p \in Proposals : /\ Staked(p) = SumFunctionOnSet(AmountOn(p), Voters)
                          /\ Held(p) = SumFunctionOnSet(HeldOn(p), Voters)
                          /\ Staked(p) \in Nat /\ Held(p) \in Nat
                          /\ HeldOf[p] = Held(p) /\ Weighed(p) \in Nat
  /\ SumFunction([p \in Proposals |-> Held(p)]) = SumFunctionOnSet(HeldOf, Proposals)
  /\ SumFunctionOnSet(HeldOf, Proposals) \in Nat

\* What the sums are of, and that they are natural numbers.
LEMMA StakeSums == DAOTypeOK => StakeFacts
<1> SUFFICES ASSUME DAOTypeOK PROVE StakeFacts
  OBVIOUS
<1>1. ASSUME NEW p \in Proposals, NEW v \in Voters
      PROVE  /\ AmountOn(p)[v] \in Nat /\ HeldOn(p)[v] \in Nat
             /\ AmountOn(p)[v] = votes[p][v].amount
             /\ HeldOn(p)[v] = StakeOf(p, v)
  <2>1. votes[p][v] \in Stake
    BY DEF DAOTypeOK
  <2> QED
    BY <2>1 DEF AmountOn, HeldOn, StakeOf, Stake
<1>2. ASSUME NEW p \in Proposals
      PROVE  /\ Staked(p) = SumFunctionOnSet(AmountOn(p), Voters)
             /\ Held(p) = SumFunctionOnSet(HeldOn(p), Voters)
             /\ Staked(p) \in Nat /\ Held(p) \in Nat
             /\ HeldOf[p] = Held(p) /\ Weighed(p) \in Nat
  <2>1. /\ Staked(p) = SumFunctionOnSet(AmountOn(p), Voters)
        /\ Held(p) = SumFunctionOnSet(HeldOn(p), Voters)
    BY DEF Staked, Held, AmountOn, HeldOn, SumFunction
  <2>2. IsFiniteSet(Voters) /\ \A v \in Voters : AmountOn(p)[v] \in Nat /\ HeldOn(p)[v] \in Nat
    BY <1>1, DAOAssumption
  <2>3. SumFunctionOnSet(AmountOn(p), Voters) \in Nat
    BY <2>2, SumIsNat
  <2>4. SumFunctionOnSet(HeldOn(p), Voters) \in Nat
    BY <2>2, SumIsNat
  <2>5. IsFiniteSet(VoteTypes)
    BY VoteTypesAreFinite
  <2> HIDE DEF VoteTypes
  <2>6. \A s \in VoteTypes : proposalVotes[p][s] \in Nat
    BY DEF DAOTypeOK
  <2>7. SumFunctionOnSet(proposalVotes[p], VoteTypes) \in Nat
    BY <2>5, <2>6, SumIsNat
  <2> QED
    BY <2>1, <2>3, <2>4, <2>7 DEF HeldOf, Weighed
<1>3. SumFunctionOnSet(HeldOf, Proposals) \in Nat
  <2>1. IsFiniteSet(Proposals) /\ \A p \in Proposals : HeldOf[p] \in Nat
    BY <1>2, DAOAssumption
  <2> QED
    BY <2>1, SumIsNat
<1>4. SumFunction([p \in Proposals |-> Held(p)]) = SumFunctionOnSet(HeldOf, Proposals)
  BY DEF HeldOf, SumFunction
<1> QED
  BY <1>1, <1>2, <1>3, <1>4 DEF StakeFacts

\* The same of the next state.
LEMMA StakeSumsNext == DAOTypeOK' => StakeFacts'
BY StakeSums, PTL

\* One stake changes: the sums move by it.
LEMMA StakeMoves ==
  ASSUME DAOTypeOK, DAOTypeOK', NEW p \in Proposals, NEW v \in Voters,
         \A q \in Proposals : \A w \in Voters : q # p \/ w # v => votes'[q][w] = votes[q][w]
  PROVE  /\ \A q \in Proposals \ {p} : Staked(q)' = Staked(q)
         /\ Staked(p)' = Staked(p) + votes'[p][v].amount - votes[p][v].amount
         /\ SumFunctionOnSet(HeldOf', Proposals)
              = SumFunctionOnSet(HeldOf, Proposals) + StakeOf(p, v)' - StakeOf(p, v)
<1>1. StakeFacts /\ StakeFacts'
  BY StakeSums, StakeSumsNext
<1>2. IsFiniteSet(Voters) /\ IsFiniteSet(Proposals)
  BY DAOAssumption
<1>3. ASSUME NEW q \in Proposals \ {p} PROVE Staked(q)' = Staked(q) /\ Held(q)' = Held(q)
  <2>1. AmountOn(q)' = AmountOn(q) /\ HeldOn(q)' = HeldOn(q)
    BY DEF AmountOn, HeldOn, StakeOf
  <2> QED
    BY <1>1, <2>1 DEF StakeFacts
<1>4. Staked(p)' = Staked(p) + votes'[p][v].amount - votes[p][v].amount
  <2>1. /\ \A w \in Voters : AmountOn(p)[w] \in Int /\ AmountOn(p)'[w] \in Int
        /\ \A w \in Voters \ {v} : AmountOn(p)[w] = AmountOn(p)'[w]
        /\ AmountOn(p)[v] = votes[p][v].amount /\ AmountOn(p)'[v] = votes'[p][v].amount
    BY <1>1 DEF StakeFacts
  <2>2. SumFunctionOnSet(AmountOn(p)', Voters)
          = SumFunctionOnSet(AmountOn(p), Voters) + AmountOn(p)'[v] - AmountOn(p)[v]
    BY <1>2, <2>1, SumChange
  <2> QED
    BY <1>1, <2>1, <2>2 DEF StakeFacts
<1>5. Held(p)' = Held(p) + StakeOf(p, v)' - StakeOf(p, v)
  <2>1. /\ \A w \in Voters : HeldOn(p)[w] \in Int /\ HeldOn(p)'[w] \in Int
        /\ HeldOn(p)[v] = StakeOf(p, v) /\ HeldOn(p)'[v] = StakeOf(p, v)'
    BY <1>1 DEF StakeFacts
  <2>2. \A w \in Voters \ {v} : HeldOn(p)[w] = HeldOn(p)'[w]
    BY <1>1 DEF StakeFacts, StakeOf
  <2>3. SumFunctionOnSet(HeldOn(p)', Voters)
          = SumFunctionOnSet(HeldOn(p), Voters) + HeldOn(p)'[v] - HeldOn(p)[v]
    BY <1>2, <2>1, <2>2, SumChange
  <2> QED
    BY <1>1, <2>1, <2>3 DEF StakeFacts
<1>6. SumFunctionOnSet(HeldOf', Proposals)
        = SumFunctionOnSet(HeldOf, Proposals) + HeldOf'[p] - HeldOf[p]
  <2>1. /\ \A q \in Proposals : HeldOf[q] \in Int /\ HeldOf'[q] \in Int
        /\ \A q \in Proposals \ {p} : HeldOf[q] = HeldOf'[q]
    BY <1>1, <1>3 DEF StakeFacts
  <2> QED
    BY <1>2, <2>1, SumChange
<1> DEFINE before == StakeOf(p, v)
           after == StakeOf(p, v)'
           sum == SumFunctionOnSet(HeldOf, Proposals)
<1>7. /\ before \in Int /\ after \in Int /\ Held(p) \in Int /\ sum \in Int
      /\ HeldOf'[p] = Held(p)' /\ HeldOf[p] = Held(p)
  BY <1>1 DEF StakeFacts
<1> HIDE DEF before, after, sum
<1>8. sum + HeldOf'[p] - HeldOf[p] = sum + after - before
  BY <1>5, <1>7 DEF before, after
<1> QED
  BY <1>3, <1>4, <1>6, <1>8 DEF before, after, sum

\* A vote is counted: the tally, the stakes and the balance grow alike (_countVote).
LEMMA CountVoteReconciles ==
  ASSUME DAOTypeOK, DAOTypeOK', Reconciled, NEW p \in Proposals, NEW v \in Voters,
         NEW support \in VoteTypes, NEW amount \in Nat \ {0}, CountVote(p, v, support, amount)
  PROVE  Reconciled'
<1>1. /\ votes \in [Proposals -> [Voters -> Stake]]
      /\ hasVoted \in [Proposals -> SUBSET Voters]
      /\ proposalVotes \in [Proposals -> [VoteTypes -> Nat]]
      /\ funds \in Nat /\ surplus \in Int
  BY DEF DAOTypeOK
<1>2. /\ v \notin hasVoted[p]
      /\ votes' = [votes EXCEPT ![p][v] = [amount |-> amount, withdrawed |-> FALSE]]
      /\ hasVoted' = [hasVoted EXCEPT ![p] = @ \cup {v}]
      /\ proposalVotes' = [proposalVotes EXCEPT ![p][support] = @ + amount]
      /\ funds' = funds + amount /\ surplus' = surplus
  BY DEF CountVote
<1>3. StakeFacts /\ StakeFacts'
  BY StakeSums, StakeSumsNext
<1>4. votes[p][v].amount = 0 /\ StakeOf(p, v) = 0
  <2>1. votes[p][v] \in Stake /\ ~(votes[p][v].amount > 0)
    BY <1>1, <1>2 DEF Reconciled, VotesAreStaked
  <2> QED
    BY <2>1 DEF Stake, StakeOf
<1>5. /\ \A q \in Proposals : \A w \in Voters : q # p \/ w # v => votes'[q][w] = votes[q][w]
      /\ votes'[p][v].amount = amount /\ StakeOf(p, v)' = amount
  BY <1>1, <1>2 DEF StakeOf
<1>6. /\ \A q \in Proposals \ {p} : Staked(q)' = Staked(q)
      /\ Staked(p)' = Staked(p) + votes'[p][v].amount - votes[p][v].amount
      /\ SumFunctionOnSet(HeldOf', Proposals)
           = SumFunctionOnSet(HeldOf, Proposals) + StakeOf(p, v)' - StakeOf(p, v)
  BY <1>5, StakeMoves
<1>7. /\ \A q \in Proposals \ {p} : Weighed(q)' = Weighed(q)
      /\ Weighed(p)' = Weighed(p) + amount
  <2>1. \A q \in Proposals \ {p} : proposalVotes'[q] = proposalVotes[q]
    BY <1>1, <1>2
  <2>2. IsFiniteSet(VoteTypes)
    BY VoteTypesAreFinite
  <2> HIDE DEF VoteTypes
  <2> DEFINE f == proposalVotes[p]
             g == proposalVotes'[p]
  <2>3. f \in [VoteTypes -> Nat] /\ g = [f EXCEPT ![support] = @ + amount]
    BY <1>1, <1>2
  <2> HIDE DEF f, g
  <2>4. /\ \A s \in VoteTypes : f[s] \in Int /\ g[s] \in Int
        /\ \A s \in VoteTypes \ {support} : f[s] = g[s]
        /\ g[support] = f[support] + amount
    BY <2>3
  <2>5. SumFunctionOnSet(g, VoteTypes) = SumFunctionOnSet(f, VoteTypes) + g[support] - f[support]
    BY <2>2, <2>4, SumChange
  <2>6. SumFunctionOnSet(f, VoteTypes) \in Int
    BY <2>2, <2>4, SumIsInt
  <2>7. SumFunctionOnSet(g, VoteTypes) = SumFunctionOnSet(f, VoteTypes) + amount
    BY <2>4, <2>5, <2>6
  <2> QED
    BY <2>1, <2>7 DEF Weighed, f, g
<1>8. VotesAreStaked'
  <2>1. ASSUME NEW q \in Proposals PROVE Weighed(q)' = Staked(q)'
    <3>1. Weighed(q) = Staked(q) /\ Staked(q) \in Nat
      BY <1>3 DEF Reconciled, VotesAreStaked, StakeFacts
    <3> QED
      BY <1>4, <1>5, <1>6, <1>7, <3>1
  <2>2. ASSUME NEW q \in Proposals
        PROVE  hasVoted'[q] = {w \in Voters : votes'[q][w].amount > 0}
    <3>1. hasVoted[q] = {w \in Voters : votes[q][w].amount > 0}
      BY DEF Reconciled, VotesAreStaked
    <3>2. hasVoted'[q] = IF q = p THEN hasVoted[q] \cup {v} ELSE hasVoted[q]
      BY <1>1, <1>2
    <3> QED
      BY <1>5, <3>1, <3>2
  <2> QED
    BY <2>1, <2>2 DEF VotesAreStaked
<1>9. StakesAreBacked'
  <2>1. /\ funds = surplus + SumFunctionOnSet(HeldOf, Proposals)
        /\ SumFunctionOnSet(HeldOf, Proposals) \in Nat
    BY <1>3 DEF Reconciled, StakesAreBacked, StakeFacts
  <2>2. SumFunctionOnSet(HeldOf', Proposals) = SumFunctionOnSet(HeldOf, Proposals) + amount
    BY <1>4, <1>5, <1>6, <2>1
  <2>3. funds' = surplus' + SumFunctionOnSet(HeldOf', Proposals)
    BY <1>1, <1>2, <2>1, <2>2
  <2> QED
    BY <1>3, <2>3 DEF StakesAreBacked, StakeFacts
<1> QED
  BY <1>8, <1>9 DEF Reconciled

\* A stake leaves the balance, and what is held, once (withdraw).
LEMMA WithdrawReconciles ==
  ASSUME DAOTypeOK, DAOTypeOK', Reconciled, NEW p \in Proposals, NEW v \in Voters,
         Withdraw(p, v)
  PROVE  Reconciled'
<1>1. /\ votes \in [Proposals -> [Voters -> Stake]] /\ votes[p][v] \in Stake
      /\ funds \in Nat /\ surplus \in Int
  BY DEF DAOTypeOK
<1>2. /\ ~votes[p][v].withdrawed
      /\ votes' = [votes EXCEPT ![p][v].withdrawed = TRUE]
      /\ funds' = funds - votes[p][v].amount
      /\ UNCHANGED <<hasVoted, proposalVotes, surplus>>
  BY DEF Withdraw
<1>3. StakeFacts /\ StakeFacts'
  BY StakeSums, StakeSumsNext
<1>4. /\ \A q \in Proposals : \A w \in Voters : q # p \/ w # v => votes'[q][w] = votes[q][w]
      /\ votes'[p][v] = [votes[p][v] EXCEPT !.withdrawed = TRUE]
  BY <1>1, <1>2
<1>5. /\ votes'[p][v].amount = votes[p][v].amount
      /\ votes'[p][v].withdrawed
  BY <1>1, <1>4 DEF Stake
<1>6. /\ StakeOf(p, v) = votes[p][v].amount /\ StakeOf(p, v)' = 0
      /\ votes[p][v].amount \in Nat
  BY <1>1, <1>2, <1>5 DEF StakeOf, Stake
<1>7. /\ \A q \in Proposals \ {p} : Staked(q)' = Staked(q)
      /\ Staked(p)' = Staked(p) + votes'[p][v].amount - votes[p][v].amount
      /\ SumFunctionOnSet(HeldOf', Proposals)
           = SumFunctionOnSet(HeldOf, Proposals) + StakeOf(p, v)' - StakeOf(p, v)
  BY <1>4, StakeMoves
<1>8. VotesAreStaked'
  <2>1. ASSUME NEW q \in Proposals PROVE Weighed(q)' = Staked(q)'
    <3>1. Weighed(q) = Staked(q) /\ Staked(q) \in Nat /\ Weighed(q)' = Weighed(q)
      BY <1>2, <1>3 DEF Reconciled, VotesAreStaked, StakeFacts, Weighed
    <3> QED
      BY <1>5, <1>6, <1>7, <3>1
  <2>2. ASSUME NEW q \in Proposals
        PROVE  hasVoted'[q] = {w \in Voters : votes'[q][w].amount > 0}
    <3>1. hasVoted[q] = {w \in Voters : votes[q][w].amount > 0}
      BY DEF Reconciled, VotesAreStaked
    <3>2. \A w \in Voters : votes'[q][w].amount = votes[q][w].amount
      BY <1>4, <1>5
    <3> QED
      BY <1>2, <3>1, <3>2
  <2> QED
    BY <2>1, <2>2 DEF VotesAreStaked
<1>9. StakesAreBacked'
  <2>1. /\ funds = surplus + SumFunctionOnSet(HeldOf, Proposals)
        /\ SumFunctionOnSet(HeldOf, Proposals) \in Nat
    BY <1>3 DEF Reconciled, StakesAreBacked, StakeFacts
  <2>2. SumFunctionOnSet(HeldOf', Proposals)
          = SumFunctionOnSet(HeldOf, Proposals) - votes[p][v].amount
    BY <1>6, <1>7, <2>1
  <2>3. funds' = surplus' + SumFunctionOnSet(HeldOf', Proposals)
    BY <1>1, <1>2, <1>6, <2>1, <2>2
  <2> QED
    BY <1>3, <2>3 DEF StakesAreBacked, StakeFacts
<1> QED
  BY <1>8, <1>9 DEF Reconciled

\* What leaves the votes alone, and what is nobody's stake with the balance.
LEMMA OthersReconcile ==
  ASSUME Reconciled, DAOTypeOK, UNCHANGED voteVars, NEW d \in Int,
         funds' = funds + d, surplus' = surplus + d
  PROVE  Reconciled'
<1>1. UNCHANGED <<votes, hasVoted, proposalVotes>>
  BY DEF voteVars
<1>2. VotesAreStaked'
  BY <1>1 DEF Reconciled, VotesAreStaked, Weighed, Staked
<1>3. SumFunction([p \in Proposals |-> Held(p)])' = SumFunction([p \in Proposals |-> Held(p)])
  BY <1>1 DEF Held, StakeOf
<1>4. SumFunction([p \in Proposals |-> Held(p)]) \in Nat /\ surplus \in Int
  BY StakeSums DEF StakeFacts, DAOTypeOK
<1>5. StakesAreBacked'
  BY <1>3, <1>4 DEF Reconciled, StakesAreBacked
<1> QED
  BY <1>2, <1>5 DEF Reconciled

LEMMA InitReconciles == DAOInit => Reconciled
<1> SUFFICES ASSUME DAOInit PROVE Reconciled
  OBVIOUS
<1>0. DAOTypeOK /\ StakeFacts
  BY InitInv, StakeSums DEF DAOInv
<1>1. \A p \in Proposals : \A v \in Voters : votes[p][v].amount = 0 /\ StakeOf(p, v) = 0
  BY DEF DAOInit, StakeOf
<1>2. IsFiniteSet(Voters) /\ IsFiniteSet(Proposals)
  BY DAOAssumption
<1>3. ASSUME NEW p \in Proposals PROVE Staked(p) = 0 /\ Held(p) = 0 /\ Weighed(p) = 0
  <2>1. SumFunctionOnSet(AmountOn(p), Voters) = 0
    BY <1>0, <1>1, <1>2, SumOfZeros DEF StakeFacts
  <2>2. SumFunctionOnSet(HeldOn(p), Voters) = 0
    BY <1>0, <1>1, <1>2, SumOfZeros DEF StakeFacts
  <2>3. \A s \in VoteTypes : proposalVotes[p][s] = 0
    BY DEF DAOInit
  <2>4. IsFiniteSet(VoteTypes)
    BY VoteTypesAreFinite
  <2> HIDE DEF VoteTypes
  <2>5. Weighed(p) = 0
    BY <2>3, <2>4, SumOfZeros DEF Weighed
  <2> QED
    BY <1>0, <2>1, <2>2, <2>5 DEF StakeFacts
<1>4. SumFunctionOnSet(HeldOf, Proposals) = 0
  BY <1>0, <1>2, <1>3, SumOfZeros DEF StakeFacts
<1>5. VotesAreStaked
  <2>1. \A p \in Proposals : hasVoted[p] = {}
    BY DEF DAOInit
  <2> QED
    BY <1>1, <1>3, <2>1 DEF VotesAreStaked
<1>6. StakesAreBacked
  BY <1>0, <1>4 DEF StakeFacts, StakesAreBacked, DAOInit
<1> QED
  BY <1>5, <1>6 DEF Reconciled

LEMMA StepReconciles ==
  DAOInv /\ DAOInv' /\ Reconciled /\ [DAONext]_daoVars => Reconciled'
<1> SUFFICES ASSUME DAOTypeOK, DAOTypeOK', Reconciled, [DAONext]_daoVars PROVE Reconciled'
  BY DEF DAOInv
<1> USE DAOAssumption
<1>a. funds \in Nat /\ surplus \in Int
  BY DEF DAOTypeOK
<1>1. ASSUME UNCHANGED voteVars, UNCHANGED <<funds, surplus>> PROVE Reconciled'
  <2>1. funds' = funds + 0 /\ surplus' = surplus + 0
    BY <1>1, <1>a
  <2> QED
    BY <1>1, <2>1, OthersReconcile
<1>2. CASE UNCHANGED daoVars
  BY <1>1, <1>2 DEF daoVars, voteVars
<1>3. CASE NewBlock
  BY <1>1, <1>3 DEF NewBlock
<1>4. ASSUME NEW amount \in Amounts, Donate(amount) PROVE Reconciled'
  BY <1>4, OthersReconcile DEF Donate
<1>5. ASSUME NEW p \in Proposals, Queue(p) \/ ManualExecuted(p) PROVE Reconciled'
  BY <1>1, <1>5 DEF Queue, ManualExecuted
<1>6. ASSUME NEW p \in Proposals, Execute(p) PROVE Reconciled'
  <2>1. Content[p].pays \in Nat
    OBVIOUS
  <2>2. -Content[p].pays \in Int /\ funds' = funds + (-Content[p].pays)
        /\ surplus' = surplus + (-Content[p].pays)
    BY <1>a, <1>6, <2>1 DEF Execute
  <2> QED
    BY <1>6, <2>2, OthersReconcile DEF Execute
<1>7. ASSUME NEW p \in Proposals, NEW value \in Amounts, Propose(p, value) PROVE Reconciled'
  BY <1>7, OthersReconcile DEF Propose
<1>8. ASSUME NEW p \in Proposals, NEW v \in Voters, NEW value \in Amounts,
             ProposeManual(p, v, value)
      PROVE  Reconciled'
  <2>1. value \in Nat \ {0} /\ CountVote(p, v, "for", value)
    BY <1>8 DEF ProposeManual
  <2> QED
    BY <2>1, CountVoteReconciles
<1>9. ASSUME NEW p \in Proposals, NEW v \in Voters, NEW value \in Amounts,
             NEW support \in VoteTypes, CastVote(p, v, support, value)
      PROVE  Reconciled'
  <2>1. value \in Nat \ {0} /\ CountVote(p, v, support, value)
    BY <1>9 DEF CastVote
  <2> QED
    BY <2>1, CountVoteReconciles
<1>10. ASSUME NEW p \in Proposals, NEW v \in Voters, Withdraw(p, v) PROVE Reconciled'
  BY <1>10, WithdrawReconciles
<1> QED
  BY <1>2, <1>3, <1>4, <1>5, <1>6, <1>7, <1>8, <1>9, <1>10 DEF DAONext

\* Both reconciliations hold along every run: the first needs nothing else, the
\* second needs it, as a stake that is overwritten must have been nothing.
THEOREM VotesAreAlwaysStaked == DAOSpec => []VotesAreStaked
<1>1. Reconciled => VotesAreStaked
  BY DEF Reconciled
<1> QED
  BY <1>1, DAOInvariant, InitReconciles, StepReconciles, PTL DEF DAOSpec

\* The balance of the DAO is the stakes not yet withdrawn and what is nobody's
\* stake, for any number of voters and proposals (castVote, withdraw, execute).
THEOREM StakesAreAlwaysBacked == DAOSpec => []StakesAreBacked
<1>1. Reconciled => StakesAreBacked
  BY DEF Reconciled
<1> QED
  BY <1>1, DAOInvariant, InitReconciles, StepReconciles, PTL DEF DAOSpec

-----------------------------------------------------------------------------
(***************************************************************************)
(* The DAO implements Ballot.                                              *)
(***************************************************************************)

\* A proposal that a step does not touch stays at its stage.
LEMMA StageKept ==
  ASSUME NEW p \in Proposals, proposals'[p] = proposals[p], block' = block
  PROVE  StageOf(p)' = StageOf(p)
  BY DEF StageOf

\* Each step of the DAO is a step of the ballot, or changes nothing of it.
LEMMA StepIsBallot ==
  ASSUME DAOInv, [DAONext]_daoVars
  PROVE  [B!BallotNext]_(B!ballotVars)
<1> USE DEF B!ballotVars, B!BallotNext, B!Supports
<1> DEFINE stage == [p \in Proposals |-> StageOf(p)]
<1>a. /\ proposals \in [Proposals -> ProposalCore] /\ block \in Nat /\ block > 1
      /\ settings \in [SettingNames -> Nat] /\ \A p \in Proposals : CoreOK(proposals[p])
  BY DEF DAOInv, DAOTypeOK
<1>b. settings["minDelay"] \in Nat /\ settings["votingPeriod"] \in Nat /\ Amounts \subseteq Nat
      /\ Unit \in Nat \ {0}
  BY <1>a, DAOAssumption DEF SettingNames
<1>c. ASSUME NEW p \in Proposals, NEW core, proposals' = [proposals EXCEPT ![p] = core],
             block' = block
      PROVE  stage' = [stage EXCEPT ![p] = StageOf(p)']
  <2>1. ASSUME NEW q \in Proposals, q # p PROVE StageOf(q)' = StageOf(q)
    BY <1>a, <1>c, <2>1, StageKept
  <2> QED
    BY <2>1
<1>1. CASE UNCHANGED daoVars
  BY <1>1, StageKept DEF daoVars
<1>2. CASE NewBlock
  <2> DEFINE closing == {p \in Proposals : StageOf(p) = "open" /\ ~(proposals[p].voteEnd >= block')}
  <2>1. block' \in Nat /\ block' > block /\ proposals' = proposals
        /\ proposalVotes' = proposalVotes
    BY <1>2, <1>a DEF NewBlock, voteVars
  <2>2. ASSUME NEW p \in Proposals
        PROVE  StageOf(p)' = IF p \in closing THEN "closed" ELSE StageOf(p)
    <3>1. proposals[p] \in ProposalCore
      BY <1>a
    <3> QED
      BY <1>a, <2>1, <3>1 DEF StageOf, ProposalCore
  <2>3. stage' = [p \in Proposals |-> IF p \in closing THEN "closed" ELSE stage[p]]
    BY <2>2
  <2>4. B!Close(closing)
    BY <2>1, <2>3 DEF B!Close
  <2> QED
    BY <2>4
<1>3. ASSUME NEW amount \in Amounts, Donate(amount) PROVE [B!BallotNext]_(B!ballotVars)
  BY <1>3, StageKept DEF Donate, voteVars
<1>4. ASSUME NEW p \in Proposals, NEW value \in Amounts, Propose(p, value)
      PROVE  [B!BallotNext]_(B!ballotVars)
  <2> DEFINE snapshot == block + settings["minDelay"]
             core     == [proposals[p] EXCEPT !.voteStart = snapshot,
                                              !.voteEnd = snapshot + settings["votingPeriod"]]
  <2>1. proposals[p] \in ProposalCore /\ proposals[p].voteStart = 0 /\ ~Settled(proposals[p])
    BY <1>4, <1>a DEF Propose, CoreOK
  <2>2. proposals' = [proposals EXCEPT ![p] = core] /\ block' = block
        /\ proposalVotes' = proposalVotes
    BY <1>4, <1>a DEF Propose, voteVars
  <2>3. core.voteStart # 0 /\ core.voteEnd >= block /\ ~Settled(core)
    BY <1>a, <1>b, <2>1 DEF ProposalCore, Settled
  <2>4. StageOf(p) = "none" /\ StageOf(p)' = "open"
    BY <1>a, <2>1, <2>2, <2>3 DEF StageOf, Settled
  <2>5. B!Ask(p)
    BY <1>c, <2>2, <2>4 DEF B!Ask
  <2> QED
    BY <2>5
<1>5. ASSUME NEW p \in Proposals, NEW v \in Voters, NEW value \in Amounts,
             ProposeManual(p, v, value)
      PROVE  [B!BallotNext]_(B!ballotVars)
  <2> DEFINE snapshot == block - 1
             core     == [proposals[p] EXCEPT !.voteStart = snapshot,
                                              !.voteEnd = snapshot + settings["votingPeriod"]]
  <2>1. proposals[p] \in ProposalCore /\ proposals[p].voteStart = 0 /\ ~Settled(proposals[p])
    BY <1>5, <1>a DEF ProposeManual, CoreOK
  <2>2. proposals' = [proposals EXCEPT ![p] = core] /\ block' = block
        /\ proposalVotes' = [proposalVotes EXCEPT ![p]["for"] = @ + value]
    BY <1>5, <1>a DEF ProposeManual, CountVote
  <2>3. core.voteStart # 0 /\ core.voteEnd >= block /\ ~Settled(core)
    BY <1>a, <1>b, <1>5, <2>1 DEF ProposeManual, ProposalCore, Settled
  <2>4. StageOf(p) = "none" /\ StageOf(p)' = "open"
    BY <1>a, <2>1, <2>2, <2>3 DEF StageOf, Settled
  <2>5. value \in Amounts \ {0}
    BY <1>5, <1>b DEF ProposeManual
  <2>6. B!AskAndVote(p, value)
    BY <1>c, <2>2, <2>4 DEF B!AskAndVote
  <2> QED
    BY <2>5, <2>6
<1>6. ASSUME NEW p \in Proposals, NEW v \in Voters, NEW value \in Amounts,
             NEW support \in VoteTypes, CastVote(p, v, support, value)
      PROVE  [B!BallotNext]_(B!ballotVars)
  <2>1. StageOf(p) = "open"
    BY <1>6, ActiveIsOpen DEF CastVote, StageOf, Settled
  <2>2. stage' = stage
    BY <1>6, StageKept DEF CastVote
  <2>3. proposalVotes' = [proposalVotes EXCEPT ![p][support] = @ + value]
    BY <1>6 DEF CastVote, CountVote
  <2>4. value \in Amounts \ {0}
    BY <1>6, <1>b DEF CastVote
  <2>5. B!Vote(p, support, value)
    BY <2>1, <2>2, <2>3 DEF B!Vote
  <2> QED
    BY <2>4, <2>5
<1>7. ASSUME NEW p \in Proposals, Queue(p) PROVE [B!BallotNext]_(B!ballotVars)
  <2> DEFINE core == [proposals[p] EXCEPT !.queued = TRUE]
  <2>1. proposals[p] \in ProposalCore /\ StageOf(p) = "closed" /\ ~Settled(proposals[p])
        /\ proposalVotes[p]["for"] > proposalVotes[p]["against"]
    BY <1>7, <1>a, SucceededIsCarried DEF Queue, StageOf, Settled
  <2>2. proposals' = [proposals EXCEPT ![p] = core] /\ block' = block
        /\ proposalVotes' = proposalVotes
    BY <1>7, <1>a DEF Queue, voteVars
  <2>3. core.queued /\ ~core.executed /\ ~core.manualExecuted
    BY <2>1 DEF ProposalCore, Settled
  <2>4. StageOf(p)' = "queued"
    BY <1>a, <2>2, <2>3 DEF StageOf
  <2>5. B!Carry(p)
    BY <1>c, <2>1, <2>2, <2>4 DEF B!Carry
  <2> QED
    BY <2>5
<1>8. ASSUME NEW p \in Proposals, ManualExecuted(p) \/ Execute(p)
      PROVE  [B!BallotNext]_(B!ballotVars)
  <2>1. proposals[p] \in ProposalCore /\ StageOf(p) = "queued"
    BY <1>8, <1>a, ReadyIsQueued DEF ManualExecuted, Execute, StageOf, CoreOK
  <2>2. PICK core : /\ proposals' = [proposals EXCEPT ![p] = core]
                    /\ core.executed \/ core.manualExecuted
    <3>1. CASE ManualExecuted(p)
      <4> DEFINE core == [proposals[p] EXCEPT !.queued = FALSE, !.manualExecuted = TRUE]
      <4>1. core.manualExecuted /\ proposals' = [proposals EXCEPT ![p] = core]
        BY <3>1, <1>a, <2>1 DEF ManualExecuted, ProposalCore
      <4> QED
        BY <4>1
    <3>2. CASE Execute(p)
      <4> DEFINE core == [proposals[p] EXCEPT !.queued = FALSE, !.executed = TRUE]
      <4>1. core.executed /\ proposals' = [proposals EXCEPT ![p] = core]
        BY <3>2, <1>a, <2>1 DEF Execute, ProposalCore
      <4> QED
        BY <4>1
    <3> QED
      BY <1>8, <3>1, <3>2
  <2>3. block' = block /\ proposalVotes' = proposalVotes
    BY <1>8 DEF ManualExecuted, Execute, voteVars
  <2>4. StageOf(p)' = "done"
    BY <1>a, <2>2, <2>3 DEF StageOf
  <2>5. B!Do(p)
    BY <1>c, <2>1, <2>2, <2>3, <2>4 DEF B!Do
  <2> QED
    BY <2>5
<1>9. ASSUME NEW p \in Proposals, NEW v \in Voters, Withdraw(p, v)
      PROVE  [B!BallotNext]_(B!ballotVars)
  BY <1>9, StageKept DEF Withdraw
<1> QED
  BY <1>1, <1>2, <1>3, <1>4, <1>5, <1>6, <1>7, <1>8, <1>9 DEF DAONext

\* The DAO is a ballot for any voters, proposals, settings and clock: the tally of a
\* proposal is final at its deadline, carries it, and it is done once.
THEOREM DAOImplementsBallot == DAOSpec => IsBallot
<1>1. DAOInit => B!BallotInit
  BY DEF DAOInit, B!BallotInit, B!Supports, StageOf
<1> QED
  BY <1>1, StepIsBallot, DAOInvariant, PTL DEF DAOSpec, IsBallot, B!BallotSpec
=============================================================================
