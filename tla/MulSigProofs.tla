---------------------------- MODULE MulSigProofs ----------------------------
(***************************************************************************)
(* Proofs about MulSig, for any principals, agenda and bound on the ids,   *)
(* and about the operators' scripts of Operators over it.                  *)
(***************************************************************************)
EXTENDS Operators, FiniteSetTheorems, SequenceTheorems, TLAPS

\* MulSigTypeOK in two halves: an effect touches one, the votes are the other.
VoteTypeOK ==
  /\ proposalIDx \in 0..MaxProposals
  /\ pendingProposals \in Seq(Ids)
  /\ content \in [Ids -> Agenda \cup {NoContent}]
  /\ signatures \in [Ids -> SUBSET Principals]
  /\ signatureCount \in [Ids -> Nat]
  /\ excuteTime \in [Ids -> Nat]

RegistryTypeOK ==
  /\ RolesTypeOK
  /\ treasures \subseteq Treasures
  /\ platformConfig \in [ConfigKeys -> Nat]
  /\ discountConfig \in [1..4 -> Nat]
  /\ dapps \subseteq Treasures \X DApps
  /\ crosschainTokens \in [Tokens -> TokenInfos \cup {NoToken}]

VoteInv == VoteTypeOK /\ PendingAreLive /\ VotesAreDistinct

\* The inductive invariant.
MulSigInv == VoteInv /\ RegistryTypeOK /\ now \in Nat

-----------------------------------------------------------------------------
(***************************************************************************)
(* The votes and the pending list.                                         *)
(***************************************************************************)

LEMMA IdsAreNumbers == MaxProposals \in Nat /\ Ids \subseteq Nat
BY MulSigAssumption DEF Ids

LEMMA ProposeKeepsVotes ==
  ASSUME VoteInv, NEW m, NEW c \in Agenda, Propose(m, c)
  PROVE  VoteInv'
<1> USE IdsAreNumbers DEF VoteInv, VoteTypeOK
<1> DEFINE p == pendingProposals
<1>1. /\ proposalIDx \in Ids
      /\ proposalIDx' = proposalIDx + 1
      /\ pendingProposals' = Append(p, proposalIDx)
      /\ content' = [content EXCEPT ![proposalIDx] = c]
      /\ signatureCount' = [signatureCount EXCEPT ![proposalIDx] = 0]
      /\ UNCHANGED <<signatures, excuteTime>>
  BY DEF Propose, Ids
<1>2. /\ pendingProposals' \in Seq(Ids)
      /\ Len(pendingProposals') = Len(p) + 1
      /\ \A i \in 1..Len(p) : pendingProposals'[i] = p[i]
      /\ pendingProposals'[Len(p) + 1] = proposalIDx
  BY <1>1, AppendProperties
<1>3. VoteTypeOK'
  BY <1>1, <1>2 DEF Ids
<1>4. c # NoContent
  BY MulSigAssumption
<1>5. content[proposalIDx] = NoContent
  BY <1>1 DEF PendingAreLive
<1>6. PendingAreLive'
  <2>1. Len(p) \in Nat /\ DOMAIN p = 1..Len(p) /\ DOMAIN pendingProposals' = 1..Len(p) + 1
    BY <1>2, LenProperties
  <2>2. \A i \in 1..Len(p) : p[i] # proposalIDx
    BY <2>1, <1>5 DEF PendingAreLive, Range
  <2>3. \A i, j \in DOMAIN pendingProposals' :
          pendingProposals'[i] = pendingProposals'[j] => i = j
    BY <2>1, <2>2, <1>2 DEF PendingAreLive
  <2>4. Range(pendingProposals') = Range(p) \cup {proposalIDx}
    BY <2>1, <1>2 DEF Range
  <2>5. \A id \in Ids : content'[id] # NoContent <=> id = proposalIDx \/ content[id] # NoContent
    BY <1>1, <1>4
  <2>6. Range(pendingProposals') = {id \in Ids : content'[id] # NoContent}
    BY <2>4, <2>5, <1>1 DEF PendingAreLive
  <2>7. \A id \in Ids : content'[id] # NoContent => id < proposalIDx'
    BY <2>5, <1>1 DEF PendingAreLive
  <2>8. QED
    BY <2>3, <2>6, <2>7 DEF PendingAreLive
<1>7. VotesAreDistinct'
  <2>1. \A id \in Ids : Cardinality(signatures[id]) \in Nat
    BY RolesAssumption, FS_Subset, FS_CardinalityType
  <2>2. QED
    BY <2>1, <1>1 DEF VotesAreDistinct
<1>8. QED
  BY <1>3, <1>6, <1>7

LEMMA SignKeepsVotes ==
  ASSUME VoteInv, now \in Nat, NEW m \in Principals, NEW id \in Ids, SignTransaction(m, id)
  PROVE  VoteInv'
<1> USE DEF VoteInv, VoteTypeOK
<1>1. /\ m \notin signatures[id]
      /\ signatures' = [signatures EXCEPT ![id] = @ \cup {m}]
      /\ signatureCount' = [signatureCount EXCEPT ![id] = @ + 1]
      /\ UNCHANGED <<proposalIDx, pendingProposals, content>>
  BY DEF SignTransaction
<1>2. LockEnd \in Nat
  BY MulSigAssumption DEF LockEnd
<1>3. excuteTime' \in [Ids -> Nat]
  BY <1>2 DEF SignTransaction
<1>4. VoteTypeOK'
  <2>1. signatures' \in [Ids -> SUBSET Principals]
    BY <1>1
  <2>2. signatureCount' \in [Ids -> Nat]
    BY <1>1
  <2>3. QED
    BY <1>1, <1>3, <2>1, <2>2
<1>5. PendingAreLive'
  BY <1>1 DEF PendingAreLive
<1>6. Cardinality(signatures'[id]) = Cardinality(signatures[id]) + 1
      /\ Cardinality(signatures[id]) \in Nat
  <2>1. IsFiniteSet(signatures[id])
    BY RolesAssumption, FS_Subset
  <2>2. signatures'[id] = signatures[id] \cup {m}
    BY <1>1
  <2>3. QED
    BY <2>1, <2>2, <1>1, FS_AddElement, FS_CardinalityType
<1>7. VotesAreDistinct'
  <2> SUFFICES ASSUME NEW k \in Ids
               PROVE  signatureCount'[k] <= Cardinality(signatures'[k])
    BY DEF VotesAreDistinct
  <2>1. CASE k = id
    BY <2>1, <1>1, <1>6 DEF VotesAreDistinct
  <2>2. CASE k # id
    BY <2>2, <1>1 DEF VotesAreDistinct
  <2>3. QED
    BY <2>1, <2>2
<1>8. QED
  BY <1>4, <1>5, <1>7

LEMMA RemoveKeepsVotes ==
  ASSUME VoteInv, NEW id \in Ids, RemoveProposal(id)
  PROVE  VoteInv'
<1> USE IdsAreNumbers DEF VoteInv, VoteTypeOK
<1> DEFINE p == pendingProposals
<1>1. PICK k \in DOMAIN p :
        /\ p[k] = id
        /\ pendingProposals' = [i \in 1..Len(p) - 1 |-> p[IF i < k THEN i ELSE i + 1]]
  BY DEF RemoveProposal, RemovePending
<1>2. /\ content' = [content EXCEPT ![id] = NoContent]
      /\ signatureCount' = [signatureCount EXCEPT ![id] = 0]
      /\ excuteTime' = [excuteTime EXCEPT ![id] = 0]
      /\ UNCHANGED <<proposalIDx, signatures>>
  BY DEF RemoveProposal
<1>3. /\ Len(p) \in Nat /\ DOMAIN p = 1..Len(p) /\ k \in 1..Len(p)
      /\ \A i \in 1..Len(p) : p[i] \in Ids
  BY <1>1, LenProperties, ElementOfSeq
<1>4. pendingProposals' \in [1..Len(p) - 1 -> Ids]
  BY <1>1, <1>3
<1>5. pendingProposals' \in Seq(Ids)
  BY <1>3, <1>4, IsASeq
<1>6. VoteTypeOK'
  BY <1>2, <1>5
<1>7. PendingAreLive'
  <2>1. \A i \in 1..Len(p) - 1 : pendingProposals'[i] = p[IF i < k THEN i ELSE i + 1]
    BY <1>1
  <2>2. \A i, j \in DOMAIN pendingProposals' :
          pendingProposals'[i] = pendingProposals'[j] => i = j
    <3> SUFFICES ASSUME NEW i \in 1..Len(p) - 1, NEW j \in 1..Len(p) - 1,
                        pendingProposals'[i] = pendingProposals'[j]
                 PROVE  i = j
      BY <1>4
    <3> DEFINE a == IF i < k THEN i ELSE i + 1
               b == IF j < k THEN j ELSE j + 1
    <3>1. a \in 1..Len(p) /\ b \in 1..Len(p)
      BY <1>3
    <3>2. p[a] = p[b]
      BY <2>1
    <3>3. a = b
      BY <3>1, <3>2, <1>3 DEF PendingAreLive
    <3>4. QED
      BY <3>3, <1>3
  <2>3. Range(pendingProposals') = Range(p) \ {id}
    <3>1. ASSUME NEW i \in 1..Len(p) - 1
          PROVE  pendingProposals'[i] \in Range(p) /\ pendingProposals'[i] # id
      <4> DEFINE a == IF i < k THEN i ELSE i + 1
      <4>1. a \in 1..Len(p) /\ a # k
        BY <1>3
      <4>2. p[a] \in Range(p) /\ p[a] # id
        BY <4>1, <1>1, <1>3 DEF PendingAreLive, Range
      <4>3. QED
        BY <4>2, <2>1
    <3>2. \A e \in Range(p) \ {id} :
            \E i \in 1..Len(p) - 1 : pendingProposals'[i] = e
      <4> SUFFICES ASSUME NEW e \in Range(p) \ {id}
                   PROVE  \E i \in 1..Len(p) - 1 : pendingProposals'[i] = e
        OBVIOUS
      <4>1. PICK j \in 1..Len(p) : p[j] = e
        BY <1>3 DEF Range
      <4>2. CASE j < k
        <5>1. j \in 1..Len(p) - 1
          BY <4>2, <1>3
        <5>2. QED
          BY <5>1, <4>1, <4>2, <2>1
      <4>3. CASE k < j
        <5>1. j - 1 \in 1..Len(p) - 1 /\ ~(j - 1 < k) /\ (j - 1) + 1 = j
          BY <4>3, <1>3
        <5>2. QED
          BY <5>1, <4>1, <2>1
      <4>4. QED
        BY <4>1, <4>2, <4>3, <1>1, <1>3
    <3>3. QED
      BY <3>1, <3>2, <1>4 DEF Range
  <2>4. \A i \in Ids : content'[i] # NoContent <=> i # id /\ content[i] # NoContent
    BY <1>2
  <2>5. Range(pendingProposals') = {i \in Ids : content'[i] # NoContent}
    BY <2>3, <2>4 DEF PendingAreLive
  <2>6. QED
    BY <2>2, <2>4, <2>5, <1>2 DEF PendingAreLive
<1>8. VotesAreDistinct'
  <2>1. \A i \in Ids : Cardinality(signatures[i]) \in Nat
    BY RolesAssumption, FS_Subset, FS_CardinalityType
  <2>2. QED
    BY <2>1, <1>2 DEF VotesAreDistinct
<1>9. QED
  BY <1>6, <1>7, <1>8

-----------------------------------------------------------------------------
(***************************************************************************)
(* The roles and the registries.                                           *)
(***************************************************************************)

LEMMA GrantKeepsRoles ==
  ASSUME RolesTypeOK, NEW caller, NEW role \in RoleNames, NEW account \in Principals,
         GrantRole(caller, role, account) \/ RevokeRole(caller, role, account)
  PROVE  RolesTypeOK'
BY DEF RolesTypeOK, GrantRole, RevokeRole

LEMMA RenounceKeepsRoles ==
  ASSUME RolesTypeOK, NEW caller, NEW role \in RoleNames, RenounceRole(caller, role)
  PROVE  RolesTypeOK'
BY DEF RolesTypeOK, RenounceRole

\* A type tells the contents apart.
LEMMA ContentsByType ==
  ASSUME NEW c \in Agenda
  PROVE  /\ c.type = 1 => c \in RoleChanges
         /\ c.type = 2 => c \in AddResources
         /\ c.type = 3 => c \in ConfigSets
         /\ c.type = 4 => c \in DiscountSets
         /\ c.type = 5 => c \in DAppRegs
         /\ c.type = 6 => c \in TokenSets
<1>1. \/ c \in RoleChanges \/ c \in AddResources \/ c \in ConfigSets
      \/ c \in DiscountSets \/ c \in DAppRegs \/ c \in TokenSets
  BY MulSigAssumption
<1>2. /\ c \in RoleChanges => c.type = 1
      /\ c \in AddResources => c.type = 2
      /\ c \in ConfigSets => c.type = 3
      /\ c \in DiscountSets => c.type = 4
      /\ c \in DAppRegs => c.type = 5
      /\ c \in TokenSets => c.type = 6
  BY DEF RoleChanges, AddResources, ConfigSets, DiscountSets, DAppRegs, TokenSets
<1>3. QED
  BY <1>1, <1>2

LEMMA EffectKeepsTypes ==
  ASSUME RegistryTypeOK, NEW c \in Agenda, Effect(c)
  PROVE  RegistryTypeOK'
<1> USE DEF RegistryTypeOK, registryVars
<1>1. CASE ChangeRole(c)
  <2>1. c.role \in RoleNames /\ c.account \in Principals
    BY <1>1, ContentsByType DEF ChangeRole, RoleChanges
  <2>2. RolesTypeOK'
    BY <1>1, <2>1, GrantKeepsRoles DEF ChangeRole
  <2>3. QED
    BY <1>1, <2>2 DEF ChangeRole
<1>2. CASE AddTreasure(c)
  <2>1. c.treasure \in Treasures
    BY <1>2, ContentsByType DEF AddTreasure, AddResources
  <2>2. QED
    BY <1>2, <2>1 DEF AddTreasure, RolesTypeOK
<1>3. CASE SetPlatformConfig(c)
  <2>1. c.key \in ConfigKeys /\ c.value \in Nat
    BY <1>3, ContentsByType DEF SetPlatformConfig, ConfigSets
  <2>2. QED
    BY <1>3, <2>1 DEF SetPlatformConfig, RolesTypeOK
<1>4. CASE SetPriceDiscountConfig(c)
  <2>1. c.curve \in [1..4 -> Nat]
    BY <1>4, ContentsByType DEF SetPriceDiscountConfig, DiscountSets
  <2>2. QED
    BY <1>4, <2>1 DEF SetPriceDiscountConfig, RolesTypeOK
<1>5. CASE RegisterDAppConnect(c)
  <2>1. c.treasure \in Treasures /\ c.dapp \in DApps
    BY <1>5, ContentsByType DEF RegisterDAppConnect, DAppRegs
  <2>2. QED
    BY <1>5, <2>1 DEF RegisterDAppConnect, RolesTypeOK
<1>6. CASE SetCrosschainToken(c)
  <2>1. c.token \in Tokens /\ c.info \in TokenInfos
    BY <1>6, ContentsByType DEF SetCrosschainToken, TokenSets
  <2>2. QED
    BY <1>6, <2>1 DEF SetCrosschainToken, RolesTypeOK
<1>7. QED
  BY <1>1, <1>2, <1>3, <1>4, <1>5, <1>6 DEF Effect

-----------------------------------------------------------------------------
(***************************************************************************)
(* The inductive invariant.                                                *)
(***************************************************************************)

LEMMA StartEstablishesInv ==
  ASSUME RolesInit, BlockTimeInit, NoProposals, DefaultConfig, treasures \subseteq Treasures
  PROVE  MulSigInv
<1> USE DEF NoProposals, DefaultConfig
<1>1. VoteTypeOK
  BY IdsAreNumbers DEF VoteTypeOK
<1>2. PendingAreLive
  BY DEF PendingAreLive, Range
<1>3. VotesAreDistinct
  BY FS_EmptySet DEF VotesAreDistinct
<1>4. RolesTypeOK
  BY RolesAssumption DEF RolesInit, RolesTypeOK, RoleNames
<1>5. platformConfig \in [ConfigKeys -> Nat] /\ discountConfig \in [1..4 -> Nat]
  OBVIOUS
<1>6. QED
  BY <1>1, <1>2, <1>3, <1>4, <1>5 DEF MulSigInv, VoteInv, RegistryTypeOK, BlockTimeInit

LEMMA InitEstablishesInv == MulSigInit => MulSigInv
BY StartEstablishesInv DEF MulSigInit

LEMMA NextKeepsInv ==
  ASSUME MulSigInv, [MulSigNext]_mulSigVars
  PROVE  MulSigInv'
<1> USE DEF MulSigInv
<1>1. ASSUME NEW m \in Principals, NEW c \in Agenda, Propose(m, c), UNCHANGED now
      PROVE  MulSigInv'
  <2>1. VoteInv'
    BY <1>1, ProposeKeepsVotes
  <2>2. QED
    BY <1>1, <2>1 DEF Propose, registryVars, RegistryTypeOK, RolesTypeOK
<1>2. ASSUME NEW m \in Principals, NEW id \in Ids, SignTransaction(m, id), UNCHANGED now
      PROVE  MulSigInv'
  <2>1. VoteInv'
    BY <1>2, SignKeepsVotes
  <2>2. QED
    BY <1>2, <2>1 DEF SignTransaction, registryVars, RegistryTypeOK, RolesTypeOK
<1>3. ASSUME NEW m \in Principals, NEW id \in Ids, ExecuteProposal(m, id), UNCHANGED now
      PROVE  MulSigInv'
  <2>1. VoteInv'
    BY <1>3, RemoveKeepsVotes DEF ExecuteProposal
  <2>2. content[id] \in Agenda
    BY <1>3 DEF ExecuteProposal, VoteInv, VoteTypeOK
  <2>3. RegistryTypeOK'
    BY <1>3, <2>2, EffectKeepsTypes DEF ExecuteProposal
  <2>4. QED
    BY <1>3, <2>1, <2>3
<1>4. ASSUME NEW m \in Principals, NEW id \in Ids, DeleteProposals(m, id), UNCHANGED now
      PROVE  MulSigInv'
  <2>1. VoteInv'
    BY <1>4, RemoveKeepsVotes DEF DeleteProposals
  <2>2. QED
    BY <1>4, <2>1 DEF DeleteProposals, registryVars, RegistryTypeOK, RolesTypeOK
<1>5. ASSUME UNCHANGED voteVars
      PROVE  VoteInv'
  BY <1>5 DEF voteVars, VoteInv, VoteTypeOK, PendingAreLive, VotesAreDistinct
<1>6. CASE DirectRoleCall /\ UNCHANGED now
  <2>1. RolesTypeOK'
    BY <1>6, GrantKeepsRoles, RenounceKeepsRoles DEF DirectRoleCall, RegistryTypeOK
  <2>2. QED
    BY <1>5, <1>6, <2>1 DEF DirectRoleCall, registryVars, RegistryTypeOK
<1>7. CASE Tick /\ UNCHANGED <<members, voteVars, registryVars>>
  BY <1>5, <1>7 DEF Tick, registryVars, RegistryTypeOK, RolesTypeOK
<1>8. CASE UNCHANGED mulSigVars
  BY <1>5, <1>8 DEF mulSigVars, registryVars, RegistryTypeOK, RolesTypeOK
<1>9. QED
  BY <1>1, <1>2, <1>3, <1>4, <1>6, <1>7, <1>8 DEF MulSigNext, ManagerStep

-----------------------------------------------------------------------------
(***************************************************************************)
(* The theorems.                                                           *)
(***************************************************************************)

\* The votes, the pending list, the roles and the registries keep their types,
\* every pending id is live and every counted signature is a manager's own,
\* along every run of the multisig.
THEOREM MulSigInvariant == MulSigSpec => []MulSigInv
<1>1. MulSigInv /\ [MulSigNext]_mulSigVars => MulSigInv'
  BY NextKeepsInv
<1>2. QED
  BY InitEstablishesInv, <1>1, PTL DEF MulSigSpec

\* Type correctness of MulSig.sol and of the registries it writes.
THEOREM MulSigTypeCorrect == MulSigSpec => []MulSigTypeOK
<1>1. MulSigInv => MulSigTypeOK
  BY DEF MulSigInv, VoteInv, VoteTypeOK, RegistryTypeOK, MulSigTypeOK
<1>2. QED
  BY MulSigInvariant, <1>1, PTL

\* The loop of deleteProposals keeps the list of pending ids and the proposals
\* together: an id is listed once, and exactly while it has a content.
THEOREM PendingIdsAreLive == MulSigSpec => []PendingAreLive
<1>1. MulSigInv => PendingAreLive
  BY DEF MulSigInv, VoteInv
<1>2. QED
  BY MulSigInvariant, <1>1, PTL

\* signTransaction never counts a manager twice for a proposal.
THEOREM NobodyVotesTwice == MulSigSpec => []VotesAreDistinct
<1>1. MulSigInv => VotesAreDistinct
  BY DEF MulSigInv, VoteInv
<1>2. QED
  BY MulSigInvariant, <1>1, PTL

\* Executing or deleting a proposal (deleteProposals) is final: its id has been
\* given out and is not given out again.
THEOREM ExecutedIsGone == MulSigSpec => NothingRunsTwice
<1> DEFINE Gone == \A id \in Ids : id < proposalIDx /\ content[id] = NoContent =>
                     content'[id] = NoContent
<1>1. ASSUME MulSigInv, [MulSigNext]_mulSigVars
      PROVE  [Gone]_mulSigVars
  <2> USE <1>1, IdsAreNumbers DEF MulSigInv, VoteInv, VoteTypeOK
  <2>1. ASSUME NEW m, NEW c \in Agenda, Propose(m, c)
        PROVE  Gone
    BY <2>1 DEF Propose, Ids
  <2>2. ASSUME NEW id \in Ids, RemoveProposal(id)
        PROVE  Gone
    BY <2>2 DEF RemoveProposal
  <2>3. ASSUME UNCHANGED content
        PROVE  Gone
    BY <2>3
  <2>4. QED
    BY <2>1, <2>2, <2>3 DEF MulSigNext, ManagerStep, SignTransaction, ExecuteProposal,
                            DeleteProposals, DirectRoleCall, voteVars, mulSigVars
<1>2. QED
  BY MulSigInvariant, <1>1, PTL DEF MulSigSpec, NothingRunsTwice

\* The role check of deleteProposals, made again after the effect, rolls back
\* an executeProposal that would leave no foundation manager.
THEOREM AManagerRemains == MulSigSpec => ExecutionKeepsManagers
<1> DEFINE Remains == pendingProposals' # pendingProposals => FoundationManagers' # {}
<1>1. ASSUME [MulSigNext]_mulSigVars
      PROVE  [Remains]_mulSigVars
  <2>1. ASSUME NEW m, FoundationManagers' = FoundationManagers, m \in FoundationManagers
        PROVE  Remains
    BY <2>1
  <2>2. ASSUME NEW m, NEW c, Propose(m, c)
        PROVE  Remains
    BY <2>1, <2>2 DEF Propose, FoundationManagers
  <2>3. ASSUME NEW m, NEW id, SignTransaction(m, id) \/ DeleteProposals(m, id)
        PROVE  Remains
    BY <2>1, <2>3 DEF SignTransaction, DeleteProposals, FoundationManagers
  <2>4. ASSUME NEW m, NEW id, ExecuteProposal(m, id)
        PROVE  Remains
    BY <2>4 DEF ExecuteProposal
  <2>5. ASSUME UNCHANGED pendingProposals
        PROVE  Remains
    BY <2>5
  <2>6. QED
    BY <1>1, <2>2, <2>3, <2>4, <2>5
    DEF MulSigNext, ManagerStep, DirectRoleCall, voteVars, mulSigVars
<1>2. QED
  BY <1>1, PTL DEF MulSigSpec, ExecutionKeepsManagers

\* Revoking the multisig's ADMIN role is for good (Roles.sol): nobody can grant
\* ADMIN, FOUNDATION_MANAGER or FEEDER afterwards.
THEOREM AdminIsLostForGood == MulSigSpec => LostAdminIsLost
<1> DEFINE Lost == members["ADMIN"] = {} =>
                     /\ members'["ADMIN"] = {}
                     /\ members'["FOUNDATION_MANAGER"] \subseteq members["FOUNDATION_MANAGER"]
                     /\ members'["FEEDER"] \subseteq members["FEEDER"]
<1>1. ASSUME MulSigInv, [MulSigNext]_mulSigVars
      PROVE  [Lost]_mulSigVars
  <2>1. members \in [RoleNames -> SUBSET Principals]
    BY <1>1 DEF MulSigInv, RegistryTypeOK, RolesTypeOK
  <2>2. ASSUME NEW caller, NEW role \in RoleNames, NEW account, GrantRole(caller, role, account)
        PROVE  Lost
    BY <2>1, <2>2 DEF GrantRole, RoleAdmin, RoleNames
  <2>3. ASSUME NEW caller, NEW role \in RoleNames, NEW account,
               RevokeRole(caller, role, account) \/ RenounceRole(caller, role)
        PROVE  Lost
    BY <2>1, <2>3 DEF RevokeRole, RenounceRole, RoleNames
  <2>4. ASSUME UNCHANGED members
        PROVE  Lost
    BY <2>4
  <2>5. ASSUME NEW m, NEW id \in Ids, ExecuteProposal(m, id)
        PROVE  Lost
    <3>1. content[id] \in Agenda /\ Effect(content[id])
      BY <1>1, <2>5 DEF ExecuteProposal, MulSigInv, VoteInv, VoteTypeOK
    <3>2. CASE ChangeRole(content[id])
      <4>1. content[id].role \in RoleNames
        BY <3>1, <3>2, ContentsByType DEF ChangeRole, RoleChanges
      <4>2. QED
        BY <3>2, <4>1, <2>2, <2>3 DEF ChangeRole
    <3>3. CASE UNCHANGED members
      BY <3>3
    <3>4. QED
      BY <3>1, <3>2, <3>3 DEF Effect, AddTreasure, SetPlatformConfig, SetPriceDiscountConfig,
                              RegisterDAppConnect, SetCrosschainToken
  <2>6. CASE DirectRoleCall
    BY <2>2, <2>3, <2>6 DEF DirectRoleCall
  <2>7. QED
    BY <1>1, <2>4, <2>5, <2>6 DEF MulSigNext, ManagerStep, Propose, SignTransaction,
                                  DeleteProposals, mulSigVars
<1>2. QED
  BY MulSigInvariant, <1>1, PTL DEF MulSigSpec, LostAdminIsLost

-----------------------------------------------------------------------------
(***************************************************************************)
(* Operators: the scripts, their terminals and the pool, for any managers, *)
(* keys and mappings and any number of faults and stray runs.              *)
(*                                                                         *)
(* The contracts answer a script only through the proposal it holds the id *)
(* of, so the invariant says what that id stands for: a proposal to        *)
(* register the DApp, whose content is gone only if the DApp is registered.*)
(* It holds of what was announced, of what a script signs and executes,    *)
(* and, as a transaction may be mined long after it was sent, of what      *)
(* stands in the pool; a terminal waits for at most one of those.          *)
(***************************************************************************)

Runs == {"none", "register", "setup", "direct", "kms", "execute"}
Phases == {"done", "propose", "fetch", "sign", "execute", "direct"}
Script == [run : Runs, phase : Phases, tx : {"none", "waiting", "mined", "reverted"},
           id : Nat, auto : BOOLEAN, i : Nat, executed : BOOLEAN]

\* A terminal runs its own scripts, each of which has its own phases.
Staged(t, s) ==
  /\ s \in Script
  /\ s.phase \in {"done", "fetch"} => s.tx = "none"
  /\ s.phase # "done" =>
       CASE t = "proposer" -> s.run = "register" /\ s.phase \in {"propose", "sign", "execute"}
         [] t = "setup" -> \/ /\ s.run = "setup" /\ s.i \in 1..Len(Mappings)
                              /\ s.phase \in {"propose", "fetch", "sign", "execute"}
                           \/ s.run = "direct" /\ s.phase = "direct"
         [] t = "kms" -> s.run = "kms" /\ s.phase = "sign"
         [] OTHER -> s.run = "execute" /\ s.phase = "execute"

\* A proposal to register the DApp, executed or not.
Tracked(id) ==
  /\ id \in Ids /\ id < proposalIDx
  /\ content[id] \in {Registration, NoContent}
  /\ content[id] = NoContent => Registered

IsSet(j) == crosschainTokens[Mappings[j].token] # NoToken

\* A proposal to set the j-th mapping, executed or not.
Proposed(id, j) ==
  /\ id \in Ids /\ id < proposalIDx
  /\ content[id] \in {Mappings[j], NoContent}
  /\ content[id] = NoContent => IsSet(j)

\* setup-crosschain-tokens has its earlier mappings set, and the present one
\* proposed when it looks for the proposal.
SetupSound(s) ==
  /\ s.executed => \A j \in DOMAIN Mappings : IsSet(j)
  /\ s.run = "setup" => \A j \in DOMAIN Mappings : j < s.i => IsSet(j)
  /\ s.run = "setup" /\ (s.phase = "fetch" \/ (s.phase = "propose" /\ s.tx = "mined")) =>
       Proposed(s.id, s.i)

\* The proposals the scripts are about, and what their reports are worth.
ScriptSound(t, s) ==
  /\ Staged(t, s)
  /\ s.phase \in {"sign", "execute"} => s.id \in Ids /\ s.id < proposalIDx
  /\ t = "proposer" /\ (s.phase \in {"sign", "execute"} \/ (s.phase = "propose" /\ s.tx = "mined")) =>
       Tracked(s.id)
  /\ t \in {"kms", "executor"} /\ s.phase # "done" => Tracked(s.id)
  /\ t \in {"proposer", "executor"} /\ (s.executed \/ (s.phase = "execute" /\ s.tx = "mined")) =>
       Registered
  /\ t = "setup" => SetupSound(s)

\* The number of managers for which two signatures are a majority.
FewManagers == Cardinality(Managers) <= 3
\* Executed meanwhile, or with the signatures it needs.
Voted(id) == content[id] = NoContent \/ signatureCount[id] >= fmThreshold

\* A transaction is about proposals that were made, and executes one that has
\* its signatures, however long it is pending.
TxSound(tx) ==
  /\ tx = [call |-> tx.call, what |-> tx.what, by |-> tx.by, run |-> tx.run]
  /\ tx.call = "propose" => /\ tx.what \in Range(Mappings) \cup {Registration}
                            /\ tx.run = "register" => tx.what = Registration
  /\ tx.call \in {"sign", "execute"} => tx.what \in Ids /\ tx.what < proposalIDx
  /\ FewManagers /\ tx.call = "execute" /\ tx.run # "setup" => Voted(tx.what)

\* The transaction its script waits for, in the pool of the script's wallet.
Awaited(m, tx) ==
  /\ tx.by \in Terminals /\ m = Owner[tx.by]
  /\ LET s == script[tx.by]
     IN  /\ s.tx = "waiting" /\ tx.call = s.phase /\ tx.run = s.run
         /\ s.phase \in {"sign", "execute"} => tx.what = s.id
         /\ s.phase = "propose" /\ s.run = "setup" => tx.what = Mappings[s.i]

\* What stands in a pool: at most one transaction a terminal waits for.
PoolSound(m, p) ==
  /\ p \in Seq(Range(p))
  /\ \A i \in DOMAIN p : TxSound(p[i])
  /\ \A i \in DOMAIN p : p[i].by # "nobody" =>
       /\ Awaited(m, p[i])
       /\ \A j \in DOMAIN p : p[j].by = p[i].by => j = i

\* No proposal is about the managers.
Quiet == /\ FoundationManagers = Managers
         /\ \A id \in Ids : content[id] \in Range(Mappings) \cup {Registration, NoContent}

\* The inductive invariant.
OperatorsInv ==
  /\ MulSigInv
  /\ Quiet
  /\ \A id \in announced : Tracked(id)
  /\ script \in [Terminals -> Script]
  /\ \A t \in Terminals : ScriptSound(t, script[t])
  /\ DOMAIN pool = Wallets
  /\ \A m \in Wallets : PoolSound(m, pool[m])

-----------------------------------------------------------------------------

\* What a call does to the proposals that were there.
Advance ==
  /\ proposalIDx <= proposalIDx'
  /\ Registered => Registered'
  /\ \A j \in DOMAIN Mappings : IsSet(j) => IsSet(j)'
  /\ FoundationManagers' = FoundationManagers
  /\ \A id \in Ids : id < proposalIDx =>
       \/ content'[id] = content[id] /\ signatureCount'[id] >= signatureCount[id]
       \/ /\ content'[id] = NoContent
          /\ content[id] = Registration => Registered'
          /\ \A j \in DOMAIN Mappings : content[id] = Mappings[j] => IsSet(j)'

LEMMA ConstantsAreProposals ==
  /\ Registration \in Agenda /\ Registration.type = 5
  /\ \A c \in Range(Mappings) : c \in Agenda /\ c.type = 6 /\ c \in TokenSets
  /\ \A j \in DOMAIN Mappings : Mappings[j] \in Range(Mappings)
  /\ DOMAIN Mappings = 1..Len(Mappings) /\ Len(Mappings) \in Nat
  /\ NoContent \notin Agenda
  /\ \A t \in Terminals : Owner[t] \in Principals
  /\ Wallets \subseteq Principals
<1>1. Registration \in Agenda /\ Registration.type = 5
  BY OperatorsAssumption DEF DAppRegs
<1>2. ASSUME NEW c \in Range(Mappings) PROVE c \in Agenda /\ c.type = 6 /\ c \in TokenSets
  <2>1. Mappings \in Seq(Agenda \cap TokenSets)
    BY OperatorsAssumption
  <2>2. PICK i \in DOMAIN Mappings : c = Mappings[i]
    BY DEF Range
  <2>3. c \in Agenda \cap TokenSets
    BY <2>1, <2>2, ElementOfSeq
  <2>4. QED
    BY <2>3 DEF TokenSets
<1>3. \A t \in Terminals : Owner[t] \in Principals
  BY OperatorsAssumption, RolesAssumption
<1>4. DOMAIN Mappings = 1..Len(Mappings) /\ Len(Mappings) \in Nat
  BY OperatorsAssumption, LenProperties
<1>5. \A j \in DOMAIN Mappings : Mappings[j] \in Range(Mappings)
  BY DEF Range
<1>6. QED
  BY <1>1, <1>2, <1>3, <1>4, <1>5, MulSigAssumption DEF Wallets

LEMMA ThresholdIsNat ==
  ASSUME MulSigInv
  PROVE  fmThreshold \in Nat /\ \A id \in Ids : signatureCount[id] \in Nat
<1>1. FoundationManagers \subseteq Principals
  BY DEF MulSigInv, RegistryTypeOK, RolesTypeOK, RoleNames, FoundationManagers
<1>2. Cardinality(FoundationManagers) \in Nat
  BY <1>1, RolesAssumption, FS_Subset, FS_CardinalityType
<1>3. QED
  BY <1>2 DEF fmThreshold, MulSigInv, VoteInv, VoteTypeOK

LEMMA AnAdvance ==
  ASSUME Advance, NEW id, MulSigInv, MulSigInv'
  PROVE  /\ Tracked(id) => Tracked(id)'
         /\ \A j \in DOMAIN Mappings : Proposed(id, j) => Proposed(id, j)'
         /\ id \in Ids /\ id < proposalIDx => id < proposalIDx'
         /\ id \in Ids /\ id < proposalIDx /\ Voted(id) => Voted(id)'
<1>1. /\ proposalIDx \in Int /\ proposalIDx' \in Int
      /\ proposalIDx <= proposalIDx'
      /\ Registered => Registered'
      /\ Ids \subseteq Int
  BY IdsAreNumbers DEF Advance, MulSigInv, VoteInv, VoteTypeOK
<1>2. fmThreshold' = fmThreshold
  BY DEF Advance, fmThreshold
<1>3. fmThreshold \in Nat /\ \A k \in Ids : signatureCount[k] \in Nat /\ signatureCount'[k] \in Nat
  BY ThresholdIsNat DEF MulSigInv, VoteInv, VoteTypeOK
<1>4. id \in Ids /\ id < proposalIDx => id < proposalIDx'
  BY <1>1
<1>5. ASSUME id \in Ids, id < proposalIDx
      PROVE  \/ content'[id] = content[id] /\ signatureCount'[id] >= signatureCount[id]
             \/ /\ content'[id] = NoContent
                /\ content[id] = Registration => Registered'
                /\ \A j \in DOMAIN Mappings : content[id] = Mappings[j] => IsSet(j)'
  BY <1>5 DEF Advance
<1>6. ASSUME Tracked(id) PROVE Tracked(id)'
  <2>1. id \in Ids /\ id < proposalIDx
        /\ content[id] \in {Registration, NoContent} /\ (content[id] = NoContent => Registered)
    BY <1>6 DEF Tracked
  <2>2. content'[id] \in {Registration, NoContent} /\ (content'[id] = NoContent => Registered')
    BY <1>1, <1>5, <2>1, ConstantsAreProposals
  <2>3. QED
    BY <1>4, <2>1, <2>2 DEF Tracked
<1>7. ASSUME id \in Ids, id < proposalIDx, Voted(id) PROVE Voted(id)'
  <2>1. CASE content'[id] = NoContent
    BY <2>1 DEF Voted
  <2>2. CASE content'[id] = content[id] /\ signatureCount'[id] >= signatureCount[id]
    BY <1>2, <1>3, <1>7, <2>2 DEF Voted
  <2>3. QED
    BY <1>5, <1>7, <2>1, <2>2
<1>8. ASSUME NEW j \in DOMAIN Mappings, Proposed(id, j) PROVE Proposed(id, j)'
  <2>1. /\ id \in Ids /\ id < proposalIDx
        /\ content[id] \in {Mappings[j], NoContent} /\ (content[id] = NoContent => IsSet(j))
    BY <1>8 DEF Proposed
  <2>2. Mappings[j] # NoContent /\ (IsSet(j) => IsSet(j)')
    BY ConstantsAreProposals DEF Advance
  <2>3. content'[id] \in {Mappings[j], NoContent} /\ (content'[id] = NoContent => IsSet(j)')
    BY <1>5, <2>1, <2>2
  <2>4. QED
    BY <1>4, <2>1, <2>3 DEF Proposed
<1>9. QED
  BY <1>4, <1>6, <1>7, <1>8

LEMMA ScriptsAdvance ==
  ASSUME Advance, MulSigInv, MulSigInv', NEW t, NEW s, ScriptSound(t, s)
  PROVE  ScriptSound(t, s)'
<1>1. Staged(t, s) => Staged(t, s)'
  BY DEF Staged
<1>2. Registered => Registered'
  BY DEF Advance
<1>3. /\ Tracked(s.id) => Tracked(s.id)'
      /\ s.id \in Ids /\ s.id < proposalIDx => s.id < proposalIDx'
  BY AnAdvance
<1>4. ASSUME t = "setup" PROVE SetupSound(s)'
  <2>1. Staged(t, s) /\ SetupSound(s)
    BY <1>4 DEF ScriptSound
  <2>2. \A j \in DOMAIN Mappings : IsSet(j) => IsSet(j)'
    BY DEF Advance
  <2>3. s.run = "setup" /\ s.phase # "done" => s.i \in DOMAIN Mappings
    BY <1>4, <2>1, ConstantsAreProposals DEF Staged
  <2>4. s.i \in DOMAIN Mappings /\ Proposed(s.id, s.i) => Proposed(s.id, s.i)'
    BY AnAdvance
  <2>5. QED
    BY <2>1, <2>2, <2>3, <2>4 DEF SetupSound
<1>5. QED
  BY <1>1, <1>2, <1>3, <1>4 DEF ScriptSound

LEMMA TransactionsAdvance ==
  ASSUME Advance, MulSigInv, MulSigInv', NEW tx, TxSound(tx)
  PROVE  TxSound(tx)'
<1>1. /\ tx.what \in Ids /\ tx.what < proposalIDx => tx.what < proposalIDx'
      /\ tx.what \in Ids /\ tx.what < proposalIDx /\ Voted(tx.what) => Voted(tx.what)'
  BY AnAdvance
<1>2. QED
  BY <1>1 DEF TxSound

\* Nothing that was proposed changes where only scripts and pools do.
LEMMA NothingAdvances ==
  ASSUME MulSigInv, UNCHANGED contracts
  PROVE  Advance
<1>1. /\ proposalIDx \in Int /\ \A id \in Ids : signatureCount[id] \in Int
  BY IdsAreNumbers DEF MulSigInv, VoteInv, VoteTypeOK
<1>2. QED
  BY <1>1 DEF Advance, contracts, voteVars, registryVars, Registered, IsSet, FoundationManagers

LEMMA UntouchedKeepsMulSig ==
  ASSUME MulSigInv, UNCHANGED contracts, now' \in Nat
  PROVE  MulSigInv'
BY DEF MulSigInv, VoteInv, VoteTypeOK, PendingAreLive, VotesAreDistinct, RegistryTypeOK,
       RolesTypeOK, contracts, voteVars, registryVars

-----------------------------------------------------------------------------

LEMMA EffectOfProposal ==
  ASSUME MulSigInv, NEW c \in Range(Mappings) \cup {Registration}, Effect(c)
  PROVE  /\ members' = members
         /\ dapps \subseteq dapps'
         /\ c = Registration => Registered'
         /\ \A j \in DOMAIN Mappings : IsSet(j) \/ c = Mappings[j] => IsSet(j)'
<1>1. c.type \in {5, 6} /\ (c = Registration => c.type = 5)
  BY ConstantsAreProposals
<1>2. RegisterDAppConnect(c) \/ SetCrosschainToken(c)
  BY <1>1 DEF Effect, ChangeRole, AddTreasure, SetPlatformConfig, SetPriceDiscountConfig
<1>3. ASSUME NEW j \in DOMAIN Mappings, IsSet(j) \/ c = Mappings[j] PROVE IsSet(j)'
  <2>1. Mappings[j] \in TokenSets /\ Mappings[j].type = 6
    BY ConstantsAreProposals
  <2>2. CASE RegisterDAppConnect(c)
    <3>1. c.type = 5 /\ crosschainTokens' = crosschainTokens
      BY <2>2 DEF RegisterDAppConnect
    <3>2. QED
      BY <1>3, <2>1, <3>1 DEF IsSet
  <2>3. CASE SetCrosschainToken(c)
    <3>1. c.type = 6 /\ crosschainTokens' = [crosschainTokens EXCEPT ![c.token] = c.info]
      BY <2>3 DEF SetCrosschainToken
    <3>2. c \in TokenSets
      BY <3>1, <1>1, ConstantsAreProposals
    <3>3. c.token \in Tokens /\ c.info \in TokenInfos /\ Mappings[j].token \in Tokens
      BY <2>1, <3>2 DEF TokenSets
    <3>4. c.info # NoToken /\ crosschainTokens \in [Tokens -> TokenInfos \cup {NoToken}]
      BY <3>3, MulSigAssumption DEF MulSigInv, RegistryTypeOK
    <3>5. QED
      BY <1>3, <3>1, <3>3, <3>4 DEF IsSet
  <2>4. QED
    BY <1>2, <2>2, <2>3
<1>4. QED
  BY <1>1, <1>2, <1>3 DEF RegisterDAppConnect, SetCrosschainToken, Registered

\* A call of one of the operators' scripts, on proposals like theirs.
LEMMA ProposeAdvances ==
  ASSUME MulSigInv, Quiet, NEW m, NEW c \in Range(Mappings) \cup {Registration},
         Propose(m, c), UNCHANGED now
  PROVE  /\ MulSigInv' /\ Quiet' /\ Advance
         /\ proposalIDx \in Ids /\ proposalIDx' = proposalIDx + 1
         /\ content' = [content EXCEPT ![proposalIDx] = c]
<1>1. c \in Agenda
  BY ConstantsAreProposals
<1>2. VoteInv'
  BY <1>1, ProposeKeepsVotes DEF MulSigInv
<1>3. MulSigInv'
  BY <1>2 DEF Propose, registryVars, MulSigInv, RegistryTypeOK, RolesTypeOK
<1>4. /\ proposalIDx \in Ids /\ proposalIDx \in Int /\ proposalIDx' = proposalIDx + 1
      /\ content \in [Ids -> Agenda \cup {NoContent}] /\ signatureCount \in [Ids -> Nat]
      /\ content' = [content EXCEPT ![proposalIDx] = c]
      /\ signatureCount' = [signatureCount EXCEPT ![proposalIDx] = 0]
      /\ UNCHANGED <<members, registryVars>>
  BY IdsAreNumbers DEF Propose, Ids, MulSigInv, VoteInv, VoteTypeOK
<1>5. Ids \subseteq Int
  BY IdsAreNumbers
<1>6. Quiet'
  BY <1>4 DEF Quiet, FoundationManagers
<1>7. \A id \in Ids : id < proposalIDx =>
        content'[id] = content[id] /\ signatureCount'[id] >= signatureCount[id]
  BY <1>4, <1>5
<1>8. Advance
  BY <1>4, <1>7 DEF Advance, Registered, IsSet, registryVars, FoundationManagers
<1>9. QED
  BY <1>3, <1>4, <1>6, <1>8

LEMMA SignAdvances ==
  ASSUME MulSigInv, Quiet, NEW m \in Principals, NEW id \in Ids,
         SignTransaction(m, id), UNCHANGED now
  PROVE  MulSigInv' /\ Quiet' /\ Advance /\ content' = content
<1>1. VoteInv'
  BY SignKeepsVotes DEF MulSigInv
<1>2. MulSigInv'
  BY <1>1 DEF SignTransaction, registryVars, MulSigInv, RegistryTypeOK, RolesTypeOK
<1>3. /\ proposalIDx \in Int /\ signatureCount \in [Ids -> Nat]
      /\ signatureCount' = [signatureCount EXCEPT ![id] = @ + 1]
      /\ UNCHANGED <<members, proposalIDx, content, registryVars>>
  BY IdsAreNumbers DEF SignTransaction, MulSigInv, VoteInv, VoteTypeOK
<1>4. Quiet'
  BY <1>3 DEF Quiet, FoundationManagers
<1>5. \A k \in Ids : signatureCount'[k] >= signatureCount[k]
  BY <1>3
<1>6. Advance
  BY <1>3, <1>5 DEF Advance, Registered, IsSet, registryVars, FoundationManagers
<1>7. QED
  BY <1>2, <1>3, <1>4, <1>6

LEMMA ExecuteAdvances ==
  ASSUME MulSigInv, Quiet, NEW m \in Principals, NEW id \in Ids,
         ExecuteProposal(m, id), UNCHANGED now
  PROVE  /\ MulSigInv' /\ Quiet' /\ Advance
         /\ content' = [content EXCEPT ![id] = NoContent]
         /\ content[id] = Registration => Registered'
<1>1. /\ content[id] \in Range(Mappings) \cup {Registration}
      /\ Effect(content[id]) /\ RemoveProposal(id)
  BY DEF ExecuteProposal, Quiet
<1>2. content[id] \in Agenda
  BY <1>1, ConstantsAreProposals
<1>3. VoteInv'
  BY <1>1, RemoveKeepsVotes DEF MulSigInv
<1>4. RegistryTypeOK'
  BY <1>1, <1>2, EffectKeepsTypes DEF MulSigInv
<1>5. MulSigInv'
  BY <1>3, <1>4 DEF MulSigInv
<1>6. /\ members' = members /\ dapps \subseteq dapps'
      /\ content[id] = Registration => Registered'
      /\ \A j \in DOMAIN Mappings : IsSet(j) \/ content[id] = Mappings[j] => IsSet(j)'
  BY <1>1, EffectOfProposal
<1>7. /\ proposalIDx \in Int /\ proposalIDx' = proposalIDx
      /\ content \in [Ids -> Agenda \cup {NoContent}] /\ signatureCount \in [Ids -> Nat]
      /\ content' = [content EXCEPT ![id] = NoContent]
      /\ signatureCount' = [signatureCount EXCEPT ![id] = 0]
  BY <1>1, IdsAreNumbers DEF RemoveProposal, MulSigInv, VoteInv, VoteTypeOK
<1>8. Quiet'
  BY <1>6, <1>7 DEF Quiet, FoundationManagers
<1>9. \A k \in Ids : \/ content'[k] = content[k] /\ signatureCount'[k] >= signatureCount[k]
                     \/ /\ content'[k] = NoContent
                        /\ content[k] = Registration => Registered'
                        /\ \A j \in DOMAIN Mappings : content[k] = Mappings[j] => IsSet(j)'
  BY <1>6, <1>7
<1>10. Advance
  BY <1>6, <1>7, <1>9 DEF Advance, Registered, FoundationManagers
<1>11. QED
  BY <1>5, <1>6, <1>7, <1>8, <1>10

\* What a transaction that is mined does, when it does not revert.
LEMMA CallAdvances ==
  ASSUME MulSigInv, Quiet, NEW m \in Wallets, NEW tx, TxSound(tx), Call(m, tx), UNCHANGED now
  PROVE  /\ MulSigInv' /\ Quiet' /\ Advance
         /\ tx.call = "propose" => /\ proposalIDx \in Ids /\ proposalIDx' = proposalIDx + 1
                                   /\ content'[proposalIDx] = tx.what
         /\ tx.call = "execute" => /\ content'[tx.what] = NoContent
                                   /\ content[tx.what] = Registration => Registered'
         /\ \A id \in Ids : content[id] # NoContent /\ content'[id] = NoContent =>
              tx.call = "execute" /\ tx.what = id
<1>0. /\ m \in Principals /\ content \in [Ids -> Agenda \cup {NoContent}]
      /\ Registration # NoContent /\ NoContent \notin Range(Mappings) \cup {Registration}
  BY ConstantsAreProposals DEF MulSigInv, VoteInv, VoteTypeOK
<1>1. CASE tx.call = "propose" /\ Propose(m, tx.what)
  <2>1. tx.what \in Range(Mappings) \cup {Registration}
    BY <1>1 DEF TxSound
  <2>2. /\ MulSigInv' /\ Quiet' /\ Advance
        /\ proposalIDx \in Ids /\ proposalIDx' = proposalIDx + 1
        /\ content' = [content EXCEPT ![proposalIDx] = tx.what]
    BY <1>1, <2>1, ProposeAdvances
  <2>3. QED
    BY <1>0, <1>1, <2>1, <2>2
<1>2. CASE tx.call = "sign" /\ SignTransaction(m, tx.what)
  <2>1. tx.what \in Ids
    BY <1>2 DEF TxSound
  <2>2. MulSigInv' /\ Quiet' /\ Advance /\ content' = content
    BY <1>0, <1>2, <2>1, SignAdvances
  <2>3. QED
    BY <1>2, <2>2
<1>3. CASE tx.call = "execute" /\ ExecuteProposal(m, tx.what)
  <2>1. tx.what \in Ids
    BY <1>3 DEF TxSound
  <2>2. /\ MulSigInv' /\ Quiet' /\ Advance
        /\ content' = [content EXCEPT ![tx.what] = NoContent]
        /\ content[tx.what] = Registration => Registered'
    BY <1>0, <1>3, <2>1, ExecuteAdvances
  <2>3. QED
    BY <1>0, <1>3, <2>1, <2>2
<1>4. CASE tx.call = "execute" /\ ExecuteNothing(m, tx.what)
  <2>1. /\ content[tx.what] = NoContent /\ UNCHANGED contracts /\ content' = content
        /\ FoundationManagers' = FoundationManagers
    BY <1>4 DEF ExecuteNothing, contracts, voteVars, FoundationManagers
  <2>2. MulSigInv' /\ Advance
    BY <2>1, UntouchedKeepsMulSig, NothingAdvances DEF MulSigInv
  <2>3. Quiet'
    BY <2>1 DEF Quiet
  <2>4. QED
    BY <1>0, <1>4, <2>1, <2>2, <2>3
<1>5. QED
  BY <1>1, <1>2, <1>3, <1>4 DEF Call

-----------------------------------------------------------------------------

LEMMA OneFollows ==
  ASSUME NEW S, NEW p \in Seq(S), NEW x
  PROVE  /\ <<x>> \in Seq(Range(<<x>>)) /\ DOMAIN <<x>> = {1} /\ <<x>>[1] = x
         /\ Append(p, x) \in Seq(Range(Append(p, x)))
         /\ DOMAIN p = 1..Len(p) /\ Len(p) \in Nat
         /\ DOMAIN Append(p, x) = 1..(Len(p) + 1)
         /\ \A i \in 1..Len(p) : Append(p, x)[i] = p[i]
         /\ Append(p, x)[Len(p) + 1] = x
<1> DEFINE q == Append(p, x)
<1>1. Len(p) \in Nat /\ DOMAIN p = 1..Len(p) /\ \A i \in 1..Len(p) : p[i] \in S
  BY LenProperties, ElementOfSeq
<1>2. p \in Seq(S \cup {x})
  BY <1>1, IsASeq
<1>3. /\ q \in Seq(S \cup {x}) /\ Len(q) = Len(p) + 1
      /\ \A i \in 1..Len(p) : q[i] = p[i]
      /\ q[Len(p) + 1] = x
  BY <1>2, AppendProperties
<1>4. DOMAIN q = 1..(Len(p) + 1)
  BY <1>3, LenProperties
<1> HIDE DEF q
<1>5. q = [i \in DOMAIN q |-> q[i]]
  BY <1>3, LenProperties
<1>6. q \in [1..(Len(p) + 1) -> Range(q)]
  BY <1>4, <1>5 DEF Range
<1>7. q \in Seq(Range(q))
  BY <1>1, <1>6, IsASeq
<1>8. <<x>> \in Seq(Range(<<x>>)) /\ DOMAIN <<x>> = {1} /\ <<x>>[1] = x
  BY DEF Range
<1>9. QED
  BY <1>1, <1>3, <1>4, <1>7, <1>8 DEF q

LEMMA OneIsReplaced ==
  ASSUME NEW S, NEW p \in Seq(S), NEW x, NEW q, q = Replaced(p, x)
  PROVE  /\ q \in Seq(Range(q)) /\ 1 \in DOMAIN q /\ q[1] = x
         /\ \A i \in DOMAIN q : i = 1 \/ (i \in DOMAIN p /\ q[i] = p[i])
<1>1. CASE p = <<>>
  <2>1. q = <<x>>
    BY <1>1 DEF Replaced
  <2>2. q \in Seq(Range(q)) /\ DOMAIN q = {1} /\ q[1] = x
    BY <2>1 DEF Range
  <2>3. QED
    BY <2>2
<1>2. CASE p # <<>>
  <2>1. q = [p EXCEPT ![1] = x]
    BY <1>2 DEF Replaced
  <2>2. Len(p) \in Nat \ {0} /\ DOMAIN p = 1..Len(p) /\ p = [i \in DOMAIN p |-> p[i]]
    BY <1>2, LenProperties, EmptySeq
  <2>3. /\ DOMAIN q = 1..Len(p) /\ 1 \in DOMAIN q /\ q[1] = x
        /\ \A i \in DOMAIN q : i = 1 \/ q[i] = p[i]
        /\ q = [i \in DOMAIN q |-> q[i]]
    <3>1. q = [i \in DOMAIN p |-> IF i = 1 THEN x ELSE p[i]]
      BY <2>1, Zenon
    <3>2. 1 \in DOMAIN p
      BY <2>2
    <3>3. QED
      BY <2>2, <3>1, <3>2, Zenon
  <2>4. q \in [1..Len(p) -> Range(q)]
    BY <2>3 DEF Range
  <2>5. q \in Seq(Range(q))
    BY <2>2, <2>4, IsASeq
  <2>6. QED
    BY <2>2, <2>3, <2>5
<1>3. QED
  BY <1>1, <1>2

LEMMA OneLeaves ==
  ASSUME NEW S, NEW p \in Seq(S), p # <<>>
  PROVE  /\ Tail(p) \in Seq(Range(Tail(p)))
         /\ Len(p) \in Nat \ {0} /\ DOMAIN p = 1..Len(p)
         /\ DOMAIN Tail(p) = 1..(Len(p) - 1)
         /\ \A i \in 1..(Len(p) - 1) : Tail(p)[i] = p[i + 1]
         /\ Head(p) = p[1]
         /\ Tail(p) # p
<1>1. /\ Len(p) \in Nat \ {0} /\ DOMAIN p = 1..Len(p)
      /\ Tail(p) \in Seq(S) /\ Len(Tail(p)) = Len(p) - 1
      /\ \A i \in 1..(Len(p) - 1) : Tail(p)[i] = p[i + 1]
  BY LenProperties, EmptySeq, HeadTailProperties
<1> DEFINE q == Tail(p)
<1>3. q # p /\ Head(p) = p[1]
  <2>1. \A n \in Nat : n - 1 # n
    OBVIOUS
  <2>2. q # p
    BY <1>1, <2>1, Zenon
  <2>3. Head(p) = p[1]
    OBVIOUS
  <2>4. QED
    BY <2>2, <2>3
<1>4. Len(p) - 1 \in Nat
  BY <1>1
<1>8. q \in Seq(S) /\ Len(q) = Len(p) - 1
  BY <1>1
<1> HIDE DEF q
<1>2. DOMAIN q = 1..(Len(p) - 1) /\ q = [i \in DOMAIN q |-> q[i]]
  BY <1>8, LenProperties
<1>5. q \in [1..(Len(p) - 1) -> Range(q)]
  BY <1>2 DEF Range
<1>6. q \in Seq(Range(q))
  BY <1>4, <1>5, IsASeq
<1>7. QED
  BY <1>1, <1>2, <1>3, <1>6 DEF q

\* A pool stays sound while the scripts that wait for its transactions do.
LEMMA PoolStays ==
  ASSUME Advance, MulSigInv, MulSigInv', NEW m, NEW p, PoolSound(m, p),
         \A i \in DOMAIN p : p[i].by \in Terminals /\ script[p[i].by].tx = "waiting" =>
                              script'[p[i].by] = script[p[i].by]
  PROVE  PoolSound(m, p)'
<1>1. \A i \in DOMAIN p : TxSound(p[i])'
  BY TransactionsAdvance DEF PoolSound
<1>2. ASSUME NEW i \in DOMAIN p, p[i].by # "nobody"
      PROVE  Awaited(m, p[i])'
  BY <1>2 DEF PoolSound, Awaited
<1>3. QED
  BY <1>1, <1>2 DEF PoolSound

LEMMA ScriptsStay ==
  ASSUME OperatorsInv, Advance, MulSigInv', NEW t \in Terminals, NEW s,
         Set(t, s), ScriptSound(t, s)'
  PROVE  /\ script' \in [Terminals -> Script]
         /\ \A u \in Terminals : ScriptSound(u, script[u])'
<1>1. s \in Script
  BY DEF ScriptSound, Staged
<1>2. script \in [Terminals -> Script] /\ script' = [script EXCEPT ![t] = s]
  BY DEF OperatorsInv, Set
<1>3. ASSUME NEW u \in Terminals PROVE ScriptSound(u, script[u])'
  <2>1. CASE u = t
    BY <1>2, <2>1
  <2>2. CASE u # t
    <3>1. ScriptSound(u, script[u])
      BY DEF OperatorsInv
    <3>2. script'[u] = script[u]
      BY <1>2, <2>2
    <3>3. \A s1 : ScriptSound(u, s1) => ScriptSound(u, s1)'
      BY ScriptsAdvance DEF OperatorsInv
    <3>4. QED
      BY <3>1, <3>2, <3>3
  <2>3. QED
    BY <2>1, <2>2
<1>4. QED
  BY <1>1, <1>2, <1>3

-----------------------------------------------------------------------------
(* Steps of a script alone.                                                *)

\* The contracts, and with them all that was sound, stay as they are.
LEMMA ContractsStay ==
  ASSUME OperatorsInv, UNCHANGED contracts, now' \in Nat
  PROVE  /\ MulSigInv' /\ Quiet' /\ Advance
         /\ \A id : Tracked(id) => Tracked(id)'
         /\ \A t, s : ScriptSound(t, s) => ScriptSound(t, s)'
         /\ \A tx : TxSound(tx) => TxSound(tx)'
<1>1. MulSigInv /\ MulSigInv' /\ Advance
  BY UntouchedKeepsMulSig, NothingAdvances DEF OperatorsInv
<1>2. Quiet'
  BY DEF OperatorsInv, Quiet, contracts, voteVars, FoundationManagers
<1>3. QED
  BY <1>1, <1>2, AnAdvance, ScriptsAdvance, TransactionsAdvance

\* A script that waits for nothing goes on.
LEMMA ScriptMoves ==
  ASSUME OperatorsInv, UNCHANGED <<contracts, now, pool>>,
         NEW t \in Terminals, NEW s, Set(t, s), ScriptSound(t, s), script[t].tx # "waiting",
         \A id \in announced' : Tracked(id)
  PROVE  OperatorsInv'
<1>1. /\ MulSigInv /\ MulSigInv' /\ Quiet' /\ Advance
      /\ \A id : Tracked(id) => Tracked(id)'
      /\ ScriptSound(t, s)'
  BY ContractsStay DEF OperatorsInv, MulSigInv
<1>2. /\ script' \in [Terminals -> Script]
      /\ \A u \in Terminals : ScriptSound(u, script[u])'
  BY <1>1, ScriptsStay
<1>3. \A u \in Terminals : script[u].tx = "waiting" => script'[u] = script[u]
  BY DEF Set, OperatorsInv
<1>4. \A m \in Wallets : PoolSound(m, pool[m])'
  <2>1. \A m \in Wallets : PoolSound(m, pool[m]) /\ pool'[m] = pool[m]
    BY DEF OperatorsInv
  <2>2. \A m, p : PoolSound(m, p) => PoolSound(m, p)'
    BY <1>1, <1>3, PoolStays
  <2>3. QED
    BY <2>1, <2>2
<1>5. DOMAIN pool' = Wallets
  BY DEF OperatorsInv
<1>6. \A id \in announced' : Tracked(id)'
  BY <1>1
<1>7. QED
  BY <1>1, <1>2, <1>4, <1>5, <1>6 DEF OperatorsInv

\* A terminal stops waiting for what it has sent.
DisownedIn(p, t) ==
  [i \in DOMAIN p |-> IF p[i].by = t THEN [p[i] EXCEPT !.by = "nobody"] ELSE p[i]]

LEMMA DisownedPoolStays ==
  ASSUME Advance, MulSigInv, MulSigInv', NEW m, NEW p, NEW q, NEW t, PoolSound(m, p),
         q = DisownedIn(p, t),
         \A u \in Terminals \ {t} : script'[u] = script[u]
  PROVE  PoolSound(m, q)'
<1>1. q = [i \in DOMAIN p |-> IF p[i].by = t THEN [p[i] EXCEPT !.by = "nobody"] ELSE p[i]]
      /\ DOMAIN q = DOMAIN p
  BY DEF DisownedIn
<1>2. q \in Seq(Range(q))
  <2>1. DOMAIN p = 1..Len(p) /\ Len(p) \in Nat
    BY LenProperties DEF PoolSound
  <2>2. q \in [1..Len(p) -> Range(q)]
    BY <1>1, <2>1 DEF Range
  <2>3. QED
    BY <2>1, <2>2, IsASeq
<1>3. ASSUME NEW i \in DOMAIN q
      PROVE  /\ TxSound(q[i])'
             /\ q[i].by = (IF p[i].by = t THEN "nobody" ELSE p[i].by)
             /\ p[i].by # t => q[i] = p[i]
  <2> DEFINE tx == p[i]
  <2>1. TxSound(tx)
    BY <1>1 DEF PoolSound
  <2>2. q[i] = IF tx.by = t THEN [tx EXCEPT !.by = "nobody"] ELSE tx
    BY <1>1
  <2> HIDE DEF tx
  <2>3. LET x == [tx EXCEPT !.by = "nobody"]
        IN  x.call = tx.call /\ x.what = tx.what /\ x.run = tx.run /\ x.by = "nobody"
            /\ x = [call |-> x.call, what |-> x.what, by |-> x.by, run |-> x.run]
    BY <2>1 DEF TxSound
  <2>4. TxSound([tx EXCEPT !.by = "nobody"])
    BY <2>1, <2>3 DEF TxSound
  <2>5. TxSound(q[i])
    BY <2>1, <2>2, <2>4
  <2>6. q[i].by = (IF tx.by = t THEN "nobody" ELSE tx.by) /\ (tx.by # t => q[i] = tx)
    BY <2>2, <2>3
  <2>7. TxSound(q[i])'
    BY <2>5, TransactionsAdvance
  <2>8. QED
    BY <2>6, <2>7 DEF tx
<1>4. ASSUME NEW i \in DOMAIN q, q[i].by # "nobody"
      PROVE  /\ Awaited(m, q[i])'
             /\ \A j \in DOMAIN q : q[j].by = q[i].by => j = i
  <2>1. p[i].by # t /\ q[i] = p[i] /\ i \in DOMAIN p
    BY <1>1, <1>3, <1>4
  <2>2. /\ Awaited(m, q[i])
        /\ \A j \in DOMAIN p : p[j].by = p[i].by => j = i
    BY <1>4, <2>1 DEF PoolSound
  <2>3. Awaited(m, q[i])'
    BY <2>1, <2>2 DEF Awaited
  <2>4. \A j \in DOMAIN q : q[j].by = q[i].by => j = i
    BY <1>1, <1>3, <1>4, <2>1, <2>2
  <2>5. QED
    BY <2>3, <2>4
<1>5. QED
  BY <1>2, <1>3, <1>4 DEF PoolSound

LEMMA ScriptLeaves ==
  ASSUME OperatorsInv, UNCHANGED <<contracts, now, announced>>,
         NEW t \in Terminals, NEW s, Set(t, s), ScriptSound(t, s), Disowned(t)
  PROVE  OperatorsInv'
<1>1. /\ MulSigInv /\ MulSigInv' /\ Quiet' /\ Advance
      /\ \A id : Tracked(id) => Tracked(id)'
      /\ ScriptSound(t, s)'
  BY ContractsStay DEF OperatorsInv, MulSigInv
<1>2. /\ script' \in [Terminals -> Script]
      /\ \A u \in Terminals : ScriptSound(u, script[u])'
  BY <1>1, ScriptsStay
<1>3. \A u \in Terminals \ {t} : script'[u] = script[u]
  BY DEF Set, OperatorsInv
<1>4. \A m \in Wallets : PoolSound(m, pool[m])'
  <2>1. \A m \in Wallets : PoolSound(m, pool[m]) /\ pool'[m] = DisownedIn(pool[m], t)
    BY DEF OperatorsInv, Disowned, DisownedIn
  <2>2. \A m, p, q : PoolSound(m, p) /\ q = DisownedIn(p, t) => PoolSound(m, q)'
    BY <1>1, <1>3, DisownedPoolStays
  <2>3. QED
    BY <2>1, <2>2
<1>5. DOMAIN pool' = Wallets
  BY DEF Disowned
<1>6. \A id \in announced' : Tracked(id)'
  BY <1>1 DEF OperatorsInv
<1>7. QED
  BY <1>1, <1>2, <1>4, <1>5, <1>6 DEF OperatorsInv

-----------------------------------------------------------------------------
(* Steps of a pool.                                                        *)

\* The pools change, and the scripts do not.
LEMMA PoolsMove ==
  ASSUME OperatorsInv, UNCHANGED <<contracts, announced, script>>, now' \in Nat,
         DOMAIN pool' = Wallets, \A w \in Wallets : PoolSound(w, pool'[w])
  PROVE  OperatorsInv'
<1>1. /\ MulSigInv /\ MulSigInv' /\ Quiet' /\ Advance
      /\ \A id : Tracked(id) => Tracked(id)'
      /\ \A t, s : ScriptSound(t, s) => ScriptSound(t, s)'
  BY ContractsStay DEF OperatorsInv
<1>2. \A w, p : PoolSound(w, p) => PoolSound(w, p)'
  BY <1>1, PoolStays
<1>4. \A w \in Wallets : PoolSound(w, pool[w])'
  BY <1>2
<1>5. \A t \in Terminals : ScriptSound(t, script[t])'
  <2>1. \A t \in Terminals : ScriptSound(t, script[t]) /\ script'[t] = script[t]
    BY DEF OperatorsInv
  <2>2. QED
    BY <1>1, <2>1
<1>6. script' \in [Terminals -> Script]
  BY DEF OperatorsInv
<1>7. \A id \in announced' : Tracked(id)'
  BY <1>1 DEF OperatorsInv
<1>8. QED
  BY <1>1, <1>4, <1>5, <1>6, <1>7 DEF OperatorsInv

\* A wallet's transactions are replaced by one nobody waits for, or lost.
LEMMA PoolMoves ==
  ASSUME OperatorsInv, UNCHANGED <<contracts, announced, script>>, now' \in Nat,
         NEW m \in Wallets, NEW q, pool' = [pool EXCEPT ![m] = q], PoolSound(m, q)
  PROVE  OperatorsInv'
<1>1. DOMAIN pool' = Wallets /\ \A w \in Wallets : PoolSound(w, pool'[w])
  BY DEF OperatorsInv
<1>2. QED
  BY <1>1, PoolsMove

LEMMA NobodyWaits ==
  ASSUME NEW m, NEW p, PoolSound(m, p), NEW tx, TxSound(tx), tx.by = "nobody",
         NEW q, q = Replaced(p, tx)
  PROVE  PoolSound(m, q)
<1>1. p \in Seq(Range(p))
  BY DEF PoolSound
<1>2. /\ q \in Seq(Range(q)) /\ q[1] = tx
      /\ \A i \in DOMAIN q : i = 1 \/ (i \in DOMAIN p /\ q[i] = p[i])
  BY <1>1, OneIsReplaced
<1>3. QED
  BY <1>2 DEF PoolSound

LEMMA NothingPending ==
  ASSUME NEW m
  PROVE  PoolSound(m, <<>>)
BY EmptySeq DEF PoolSound

LEMMA OneIsAwaited ==
  ASSUME NEW m, NEW p, NEW tx, PoolSound(m, p)', Awaited(m, tx)', TxSound(tx)',
         \A i \in DOMAIN p : p[i].by # tx.by
  PROVE  /\ \A r : r = Replaced(p, tx) => PoolSound(m, r)'
         /\ PoolSound(m, Append(p, tx))'
<1>2. p \in Seq(Range(p))
  BY DEF PoolSound
<1>1. ASSUME NEW r, r = Replaced(p, tx) PROVE PoolSound(m, r)'
  <2>1. /\ r \in Seq(Range(r)) /\ r[1] = tx
        /\ \A i \in DOMAIN r : i = 1 \/ (i \in DOMAIN p /\ r[i] = p[i])
    BY <1>1, <1>2, OneIsReplaced
  <2>2. \A i \in DOMAIN r : TxSound(r[i])'
    BY <2>1 DEF PoolSound
  <2>3. ASSUME NEW i \in DOMAIN r, r[i].by # "nobody"
        PROVE  /\ Awaited(m, r[i])'
               /\ \A j \in DOMAIN r : r[j].by = r[i].by => j = i
    BY <2>1, <2>3 DEF PoolSound
  <2>4. QED
    BY <2>1, <2>2, <2>3 DEF PoolSound
<1> DEFINE n == Len(p)
           q == Append(p, tx)
<1>3. /\ DOMAIN p = 1..n /\ n \in Nat /\ DOMAIN q = 1..(n + 1)
      /\ q \in Seq(Range(q)) /\ q[n + 1] = tx
      /\ \A i \in 1..n : q[i] = p[i]
  BY <1>2, OneFollows
<1> HIDE DEF n, q
<1>4. \A i \in DOMAIN q : (i \in DOMAIN p /\ q[i] = p[i]) \/ (i = n + 1 /\ q[i] = tx)
  BY <1>3
<1>5. \A i \in DOMAIN q : TxSound(q[i])'
  BY <1>4 DEF PoolSound
<1>6. ASSUME NEW i \in DOMAIN q, q[i].by # "nobody"
      PROVE  /\ Awaited(m, q[i])'
             /\ \A j \in DOMAIN q : q[j].by = q[i].by => j = i
  BY <1>4, <1>6 DEF PoolSound
<1>7. PoolSound(m, q)'
  BY <1>3, <1>5, <1>6 DEF PoolSound
<1>8. QED
  BY <1>1, <1>7 DEF q

\* A script sends a transaction and waits for it.
LEMMA ScriptSends ==
  ASSUME OperatorsInv, UNCHANGED <<contracts, now, announced>>,
         NEW t \in Terminals, NEW m, m = Owner[t], NEW tx, TxSound(tx), Acting(t),
         tx.by = t, tx.call = script[t].phase, tx.run = script[t].run,
         script[t].phase \in {"sign", "execute"} => tx.what = script[t].id,
         script[t].phase = "propose" /\ script[t].run = "setup" => tx.what = Mappings[script[t].i],
         Submit(m, tx) \/ Enqueue(m, tx),
         Set(t, [script[t] EXCEPT !.tx = "waiting"])
  PROVE  OperatorsInv'
<1> DEFINE s == script[t]
           w == [s EXCEPT !.tx = "waiting"]
<1>1. /\ MulSigInv /\ MulSigInv' /\ Quiet' /\ Advance
      /\ \A id : Tracked(id) => Tracked(id)'
      /\ \A x : TxSound(x) => TxSound(x)'
      /\ \A u, x : ScriptSound(u, x) => ScriptSound(u, x)'
  BY ContractsStay DEF OperatorsInv, MulSigInv
<1>2. m \in Wallets /\ DOMAIN pool = Wallets /\ PoolSound(m, pool[m]) /\ ScriptSound(t, s)
      /\ s \in Script /\ s.tx = "none" /\ s.phase \notin {"done", "fetch"}
  BY DEF OperatorsInv, Wallets, Acting, Done
<1>3. script' = [script EXCEPT ![t] = w] /\ script \in [Terminals -> Script]
  BY DEF Set, OperatorsInv
<1> HIDE DEF s
<1>4. /\ w \in Script /\ w.tx = "waiting" /\ w.phase = s.phase /\ w.run = s.run /\ w.id = s.id
      /\ w.i = s.i /\ w.executed = s.executed
  BY <1>2 DEF Script
<1> HIDE DEF w
<1>5. ScriptSound(t, w)
  <2>1. Staged(t, w)
    BY <1>2, <1>4 DEF ScriptSound, Staged
  <2>2. SetupSound(s) => SetupSound(w)
    BY <1>2, <1>4 DEF SetupSound
  <2>3. QED
    BY <1>2, <1>4, <2>1, <2>2 DEF ScriptSound
<1>6. /\ script' \in [Terminals -> Script]
      /\ \A u \in Terminals : ScriptSound(u, script[u])'
  <2>1. \A x : x = w => ScriptSound(t, x)'
    BY <1>1, <1>5
  <2>2. \A x : x = w => Set(t, x)
    BY <1>3 DEF Set
  <2>3. PICK x : x = w
    OBVIOUS
  <2>4. QED
    BY <1>1, <2>1, <2>2, <2>3, ScriptsStay
<1>7. \A u \in Terminals : script[u].tx = "waiting" => script'[u] = script[u]
  BY <1>2, <1>3 DEF s
<1>8. \A v, q : PoolSound(v, q) => PoolSound(v, q)'
  BY <1>1, <1>7, PoolStays
<1>9. script'[t] = w
  BY <1>3
<1>10. Awaited(m, tx)'
  BY <1>4, <1>9 DEF Awaited, s
<1>11. TxSound(tx)' /\ t # "nobody"
  BY <1>1 DEF Terminals
<1>12. \A i \in DOMAIN pool[m] : pool[m][i].by # t
  <2>1. \A i \in DOMAIN pool[m] : pool[m][i].by # "nobody" => Awaited(m, pool[m][i])
    BY <1>2 DEF PoolSound
  <2>2. script[t].tx # "waiting"
    BY <1>2 DEF s
  <2>3. QED
    BY <1>11, <2>1, <2>2 DEF Awaited
<1>13. \A q : PoolSound(m, q) /\ (\A i \in DOMAIN q : q[i].by # t) =>
          /\ \A r : r = Replaced(q, tx) => PoolSound(m, r)'
          /\ PoolSound(m, Append(q, tx))'
  BY <1>8, <1>10, <1>11, OneIsAwaited
<1>14. \/ pool' = [pool EXCEPT ![m] = Replaced(pool[m], tx)]
       \/ pool' = [pool EXCEPT ![m] = Append(pool[m], tx)]
  BY <1>2 DEF Submit, Enqueue
<1>15. PICK q : q = pool[m]
  OBVIOUS
<1>16. PoolSound(m, q) /\ \A i \in DOMAIN q : q[i].by # t
  BY <1>2, <1>12, <1>15
<1>17. \A v \in Wallets : PoolSound(v, pool[v])'
  <2>1. /\ \A r : r = Replaced(q, tx) => PoolSound(m, r)'
        /\ PoolSound(m, Append(q, tx))'
    BY <1>13, <1>16
  <2>2. pool'[m] = Replaced(q, tx) \/ pool'[m] = Append(q, tx)
    BY <1>2, <1>14, <1>15
  <2>3. PoolSound(m, pool[m])'
    BY <2>1, <2>2
  <2>4. ASSUME NEW v \in Wallets, v # m PROVE PoolSound(v, pool[v])'
    <3>1. PoolSound(v, pool[v]) /\ pool'[v] = pool[v]
      BY <1>2, <1>14, <2>4 DEF OperatorsInv
    <3>2. QED
      BY <1>8, <3>1
  <2>5. QED
    BY <2>3, <2>4
<1>18. DOMAIN pool' = Wallets
  BY <1>2, <1>14
<1>19. \A id \in announced' : Tracked(id)'
  BY <1>1 DEF OperatorsInv
<1>20. QED
  BY <1>1, <1>6, <1>17, <1>18, <1>19 DEF OperatorsInv

\* A script gets the receipt it waits for.
LEMMA SettledIsSound ==
  ASSUME Advance, MulSigInv, MulSigInv',
         NEW t \in Terminals, NEW s, ScriptSound(t, s), s.tx = "waiting",
         NEW tx, TxSound(tx), tx.call = s.phase, tx.run = s.run,
         s.phase \in {"sign", "execute"} => tx.what = s.id,
         s.phase = "propose" /\ s.run = "setup" => tx.what = Mappings[s.i],
         NEW outcome \in {"mined", "reverted"},
         outcome = "mined" /\ tx.call = "propose" =>
           /\ proposalIDx \in Ids /\ proposalIDx' = proposalIDx + 1
           /\ content'[proposalIDx] = tx.what,
         outcome = "mined" /\ tx.call = "execute" => content'[tx.what] = NoContent,
         NEW x, x = [s EXCEPT !.tx = outcome, !.id = IF tx.call = "propose" THEN proposalIDx ELSE @]
  PROVE  ScriptSound(t, x)'
<1>1. proposalIDx \in Nat /\ s \in Script /\ Staged(t, s)
  BY IdsAreNumbers DEF MulSigInv, VoteInv, VoteTypeOK, ScriptSound, Staged
<1>2. /\ x \in Script /\ x.tx = outcome /\ x.phase = s.phase /\ x.run = s.run
      /\ x.i = s.i /\ x.executed = s.executed
      /\ x.id = IF s.phase = "propose" THEN proposalIDx ELSE s.id
  BY <1>1 DEF Script
<1>3. s.phase \notin {"done", "fetch"}
  BY <1>1 DEF Staged
<1>4. Staged(t, x)'
  BY <1>1, <1>2, <1>3 DEF Staged
<1>5. ScriptSound(t, s)'
  BY ScriptsAdvance
<1>6. x.phase \in {"sign", "execute"} => x.id = s.id
  BY <1>2
<1>7. ASSUME t = "proposer", x.phase = "propose", x.tx = "mined" PROVE Tracked(x.id)'
  <2>1. s.run = "register"
    BY <1>1, <1>2, <1>3, <1>7 DEF Staged
  <2>2. tx.what = Registration
    BY <1>2, <1>7, <2>1 DEF TxSound
  <2>3. /\ x.id = proposalIDx /\ proposalIDx \in Ids /\ proposalIDx' = proposalIDx + 1
        /\ content'[x.id] = Registration
    BY <1>2, <1>7, <2>2
  <2>4. x.id \in Ids /\ x.id < proposalIDx'
    BY <1>1, <2>3
  <2>5. Registration # NoContent
    BY ConstantsAreProposals
  <2>6. QED
    BY <2>3, <2>4, <2>5 DEF Tracked
<1>8. ASSUME t \in {"kms", "executor"} PROVE x.phase \in {"sign", "execute"}
  BY <1>1, <1>2, <1>3, <1>8 DEF Staged
<1>9. ASSUME t \in {"proposer", "executor"}, x.executed \/ (x.phase = "execute" /\ x.tx = "mined")
      PROVE  Registered'
  <2>1. CASE s.executed
    BY <1>5, <1>9, <2>1 DEF ScriptSound
  <2>2. CASE x.phase = "execute" /\ x.tx = "mined"
    <3>1. Tracked(s.id)'
      BY <1>2, <1>5, <1>9, <2>2 DEF ScriptSound
    <3>2. content'[s.id] = NoContent
      BY <1>2, <2>2
    <3>3. QED
      BY <3>1, <3>2 DEF Tracked
  <2>3. QED
    BY <1>2, <1>9, <2>1, <2>2
<1>10. /\ x.phase \in {"sign", "execute"} => x.id \in Ids /\ x.id < proposalIDx'
       /\ t = "proposer" /\ x.phase \in {"sign", "execute"} => Tracked(x.id)'
       /\ t \in {"kms", "executor"} /\ x.phase # "done" => Tracked(x.id)'
  BY <1>2, <1>3, <1>5, <1>6, <1>8 DEF ScriptSound
<1>11. ASSUME t = "setup" PROVE SetupSound(x)'
  <2>1. SetupSound(s)'
    BY <1>5, <1>11 DEF ScriptSound
  <2>2. ASSUME x.run = "setup", x.phase = "propose", x.tx = "mined" PROVE Proposed(x.id, x.i)'
    <3>1. x.i \in DOMAIN Mappings
      BY <1>1, <1>2, <1>3, <1>11, <2>2, ConstantsAreProposals DEF Staged
    <3>2. /\ x.id = proposalIDx /\ proposalIDx \in Ids /\ proposalIDx' = proposalIDx + 1
          /\ content'[x.id] = Mappings[x.i]
      BY <1>2, <2>2
    <3>3. x.id \in Ids /\ x.id < proposalIDx'
      BY <1>1, <3>2
    <3>4. Mappings[x.i] # NoContent
      BY <3>1, ConstantsAreProposals
    <3>5. QED
      BY <3>2, <3>3, <3>4 DEF Proposed
  <2>3. QED
    BY <1>2, <1>3, <2>1, <2>2 DEF SetupSound
<1>12. QED
  BY <1>4, <1>7, <1>9, <1>10, <1>11 DEF ScriptSound

LEMMA HeadLeavesPool ==
  ASSUME NEW m, NEW p, p # <<>>, PoolSound(m, p)
  PROVE  /\ PoolSound(m, Tail(p)) /\ TxSound(Head(p)) /\ Tail(p) # p
         /\ Head(p).by # "nobody" => /\ Awaited(m, Head(p))
                                     /\ \A i \in DOMAIN Tail(p) : Tail(p)[i].by # Head(p).by
<1> DEFINE q == Tail(p)
           n == Len(p)
<1>1. p \in Seq(Range(p))
  BY DEF PoolSound
<1>2. /\ q \in Seq(Range(q)) /\ q # p /\ Head(p) = p[1]
      /\ n \in Nat \ {0} /\ DOMAIN p = 1..n /\ DOMAIN q = 1..(n - 1)
      /\ \A i \in 1..(n - 1) : q[i] = p[i + 1]
  BY <1>1, OneLeaves
<1> HIDE DEF q, n
<1>3. /\ 1 \in DOMAIN p
      /\ \A i \in DOMAIN q : i \in Int /\ i + 1 \in DOMAIN p /\ i + 1 # 1 /\ q[i] = p[i + 1]
  BY <1>2
<1>4. \A i, j \in DOMAIN q : i + 1 = j + 1 => i = j
  BY <1>3
<1>5. \A i \in DOMAIN q : TxSound(q[i])
  BY <1>3 DEF PoolSound
<1>6. ASSUME NEW i \in DOMAIN q, q[i].by # "nobody"
      PROVE  /\ Awaited(m, q[i])
             /\ \A j \in DOMAIN q : q[j].by = q[i].by => j = i
  BY <1>3, <1>4, <1>6 DEF PoolSound
<1>7. PoolSound(m, q)
  BY <1>2, <1>5, <1>6 DEF PoolSound
<1>8. /\ TxSound(p[1])
      /\ p[1].by # "nobody" => /\ Awaited(m, p[1])
                               /\ \A i \in DOMAIN q : q[i].by # p[1].by
  BY <1>3 DEF PoolSound
<1>9. QED
  BY <1>2, <1>7, <1>8 DEF q

\* A transaction leaves the pool, mined or reverted.
LEMMA SettleKeeps ==
  ASSUME OperatorsInv, MulSigInv', Quiet', Advance, UNCHANGED announced,
         NEW m \in Wallets, NEW tx, pool[m] # <<>>, tx = Head(pool[m]),
         pool' = [pool EXCEPT ![m] = Tail(@)],
         NEW outcome \in {"mined", "reverted"}, Settle(tx, outcome),
         outcome = "mined" /\ tx.call = "propose" =>
           /\ proposalIDx \in Ids /\ proposalIDx' = proposalIDx + 1
           /\ content'[proposalIDx] = tx.what,
         outcome = "mined" /\ tx.call = "execute" => content'[tx.what] = NoContent
  PROVE  OperatorsInv'
<1>1. PICK p : p = pool[m]
  OBVIOUS
<1>2. MulSigInv /\ PoolSound(m, p) /\ p # <<>> /\ tx = Head(p) /\ DOMAIN pool = Wallets
  BY <1>1 DEF OperatorsInv
<1>3. /\ PoolSound(m, Tail(p)) /\ TxSound(tx)
      /\ tx.by # "nobody" => /\ Awaited(m, tx)
                             /\ \A i \in DOMAIN Tail(p) : Tail(p)[i].by # tx.by
  BY <1>2, HeadLeavesPool
<1>4. \A u \in Terminals : u # tx.by => script'[u] = script[u]
  BY DEF Settle
<1>5. "nobody" \notin Terminals
  BY DEF Terminals
<1>6. \A v, q : PoolSound(v, q) /\ (tx.by # "nobody" => \A i \in DOMAIN q : q[i].by # tx.by) =>
          PoolSound(v, q)'
  <2>1. SUFFICES ASSUME NEW v, NEW q, PoolSound(v, q),
                        tx.by # "nobody" => \A i \in DOMAIN q : q[i].by # tx.by
                 PROVE  PoolSound(v, q)'
    OBVIOUS
  <2>2. \A i \in DOMAIN q : q[i].by \in Terminals => script'[q[i].by] = script[q[i].by]
    BY <1>4, <1>5, <2>1
  <2>3. QED
    BY <1>2, <2>1, <2>2, PoolStays
<1>7. \A v \in Wallets : PoolSound(v, pool[v])'
  <2>1. PoolSound(m, pool[m])'
    <3>1. PoolSound(m, Tail(p))'
      BY <1>3, <1>6
    <3>2. pool'[m] = Tail(p)
      BY <1>1, <1>2
    <3>3. QED
      BY <3>1, <3>2
  <2>2. ASSUME NEW v \in Wallets, v # m PROVE PoolSound(v, pool[v])'
    <3>1. PICK q : q = pool[v]
      OBVIOUS
    <3>2. PoolSound(v, q) /\ pool'[v] = q
      BY <1>2, <2>2, <3>1 DEF OperatorsInv
    <3>3. ASSUME tx.by # "nobody" PROVE \A i \in DOMAIN q : q[i].by # tx.by
      <4>1. m = Owner[tx.by]
        BY <1>3, <3>3 DEF Awaited
      <4>2. \A i \in DOMAIN q : q[i].by # "nobody" => v = Owner[q[i].by]
        BY <3>2 DEF PoolSound, Awaited
      <4>3. QED
        BY <2>2, <3>3, <4>1, <4>2
    <3>4. PoolSound(v, q)'
      BY <1>6, <3>2, <3>3
    <3>5. QED
      BY <3>2, <3>4
  <2>3. QED
    BY <2>1, <2>2
<1>8. \A u \in Terminals : u # tx.by => ScriptSound(u, script[u])' /\ script'[u] \in Script
  <2>1. \A u \in Terminals : ScriptSound(u, script[u]) /\ script[u] \in Script
    BY DEF OperatorsInv
  <2>2. \A u, s : ScriptSound(u, s) => ScriptSound(u, s)'
    BY <1>2, ScriptsAdvance
  <2>3. QED
    BY <1>4, <2>1, <2>2
<1>9. ASSUME tx.by \in Terminals
      PROVE  ScriptSound(tx.by, script[tx.by])' /\ script'[tx.by] \in Script
  <2>1. PICK t \in Terminals : t = tx.by
    BY <1>9
  <2>2. PICK s : s = script[t]
    OBVIOUS
  <2>3. PICK x : x = [s EXCEPT !.tx = outcome, !.id = IF tx.call = "propose" THEN proposalIDx ELSE @]
    OBVIOUS
  <2>4. script'[t] = x
    BY <2>1, <2>2, <2>3 DEF Settle
  <2>5. Awaited(m, tx)
    BY <1>3, <1>5, <1>9
  <2>6. /\ ScriptSound(t, s) /\ s.tx = "waiting" /\ tx.call = s.phase /\ tx.run = s.run
        /\ s.phase \in {"sign", "execute"} => tx.what = s.id
        /\ s.phase = "propose" /\ s.run = "setup" => tx.what = Mappings[s.i]
    BY <2>1, <2>2, <2>5 DEF Awaited, OperatorsInv
  <2>7. ScriptSound(t, x)'
    BY <1>2, <1>3, <2>3, <2>6, SettledIsSound
  <2>8. x \in Script
    BY <2>7 DEF ScriptSound, Staged
  <2>9. QED
    BY <2>1, <2>4, <2>7, <2>8
<1>10. \A u \in Terminals : ScriptSound(u, script[u])' /\ script'[u] \in Script
  BY <1>8, <1>9
<1>11. script' \in [Terminals -> Script]
  <2>1. script' = [u \in Terminals |-> script'[u]]
    BY DEF Settle
  <2>2. QED
    BY <1>10, <2>1
<1>12. \A id \in announced' : Tracked(id)'
  BY <1>2, AnAdvance DEF OperatorsInv
<1>13. DOMAIN pool' = Wallets
  BY <1>2
<1>14. QED
  BY <1>7, <1>10, <1>11, <1>12, <1>13 DEF OperatorsInv

LEMMA MineKeeps ==
  ASSUME OperatorsInv, NEW m \in Wallets, Mine(m)
  PROVE  OperatorsInv'
<1>1. PICK tx : tx = Head(pool[m])
  OBVIOUS
<1>2. /\ pool[m] # <<>> /\ UNCHANGED <<now, announced>>
      /\ pool' = [pool EXCEPT ![m] = Tail(@)]
      /\ \/ Call(m, tx) /\ Settle(tx, "mined")
         \/ Settle(tx, "reverted") /\ UNCHANGED contracts
  BY <1>1 DEF Mine
<1>3. MulSigInv /\ Quiet /\ TxSound(tx)
  BY <1>1, <1>2, HeadLeavesPool DEF OperatorsInv
<1>4. CASE Call(m, tx) /\ Settle(tx, "mined")
  BY <1>1, <1>2, <1>3, <1>4, CallAdvances, SettleKeeps
<1>5. CASE Settle(tx, "reverted") /\ UNCHANGED contracts
  <2>1. MulSigInv' /\ Quiet' /\ Advance
    BY <1>2, <1>3, <1>5, ContractsStay DEF MulSigInv
  <2>2. QED
    BY <1>1, <1>2, <1>5, <2>1, SettleKeeps
<1>6. QED
  BY <1>2, <1>4, <1>5

-----------------------------------------------------------------------------
(* What a script turns to.                                                 *)

LEMMA IdleIsSound ==
  ASSUME NEW t \in Terminals
  PROVE  ScriptSound(t, Idle)
BY DEF ScriptSound, SetupSound, Staged, Script, Runs, Phases, Idle

\* Entering a phase keeps everything but the phase and what was sent.
LEMMA FieldsOfNext ==
  ASSUME NEW s \in Script
  PROVE  /\ \A phase \in Phases :
              LET x == Enter(s, phase)
              IN  /\ x \in Script /\ x.phase = phase /\ x.tx = "none" /\ x.run = s.run
                  /\ x.id = s.id /\ x.i = s.i /\ x.executed = s.executed
         /\ \A e \in BOOLEAN :
              /\ Finish(e) \in Script /\ Finish(e).phase = "done" /\ Finish(e).tx = "none"
              /\ Finish(e).executed = e /\ Finish(e).run = "none"
BY DEF Script, Runs, Phases, Enter, Finish, Idle

LEMMA FinishedIsSound ==
  ASSUME NEW t \in Terminals, NEW e \in BOOLEAN,
         e /\ t \in {"proposer", "executor"} => Registered,
         e /\ t = "setup" => \A j \in DOMAIN Mappings : IsSet(j)
  PROVE  ScriptSound(t, Finish(e))
<1>1. /\ Finish(e) \in Script /\ Finish(e).phase = "done" /\ Finish(e).tx = "none"
      /\ Finish(e).executed = e /\ Finish(e).run = "none"
  BY DEF Script, Runs, Phases, Finish, Idle
<1>2. t = "setup" => SetupSound(Finish(e))
  BY <1>1 DEF SetupSound
<1>3. QED
  BY <1>1, <1>2 DEF ScriptSound, Staged

LEMMA AbortedIsSound ==
  ASSUME NEW t \in Terminals, NEW s, ScriptSound(t, s)
  PROVE  ScriptSound(t, Abort(s))
<1>1. CASE s.run = "setup" /\ s.phase = "sign"
  <2>1. s \in Script /\ t = "setup"
    BY <1>1 DEF ScriptSound, Staged, Terminals
  <2>2. PICK x : x = Enter(s, "execute")
    OBVIOUS
  <2>3. /\ x \in Script /\ x.phase = "execute" /\ x.tx = "none" /\ x.run = s.run
        /\ x.id = s.id /\ x.i = s.i /\ x.executed = s.executed
    BY <2>1, <2>2, FieldsOfNext DEF Phases
  <2>4. Staged(t, x)
    BY <1>1, <2>1, <2>3 DEF ScriptSound, Staged
  <2>5. SetupSound(x)
    BY <2>1, <2>3 DEF ScriptSound, SetupSound
  <2>6. ScriptSound(t, x)
    BY <1>1, <2>1, <2>3, <2>4, <2>5 DEF ScriptSound
  <2>7. QED
    BY <1>1, <2>2, <2>6 DEF Abort
<1>2. CASE ~(s.run = "setup" /\ s.phase = "sign")
  BY <1>2, IdleIsSound DEF Abort
<1>3. QED
  BY <1>1, <1>2

\* setup-crosschain-tokens goes on when the mapping is set.
LEMMA NextMappingIsSound ==
  ASSUME NEW s, ScriptSound("setup", s), s.run = "setup", s.phase # "done", IsSet(s.i)
  PROVE  ScriptSound("setup", NextMapping(s))
<1>1. /\ s \in Script /\ SetupSound(s) /\ s.i \in 1..Len(Mappings)
      /\ DOMAIN Mappings = 1..Len(Mappings) /\ Len(Mappings) \in Nat
  BY ConstantsAreProposals DEF ScriptSound, Staged, Terminals
<1>2. \A j \in DOMAIN Mappings : j < s.i + 1 => IsSet(j)
  <2>1. SUFFICES ASSUME NEW j \in DOMAIN Mappings, j < s.i + 1 PROVE IsSet(j)
    OBVIOUS
  <2>2. j < s.i \/ j = s.i
    BY <1>1, <2>1
  <2>3. QED
    BY <1>1, <2>2 DEF SetupSound
<1>3. CASE s.i < Len(Mappings)
  <2>1. PICK y : y = Enter(s, "propose")
    OBVIOUS
  <2>2. /\ y \in Script /\ y.phase = "propose" /\ y.tx = "none" /\ y.run = s.run /\ y.i = s.i
        /\ y.executed = s.executed
    BY <1>1, <2>1, FieldsOfNext DEF Phases
  <2>3. PICK x : x = [y EXCEPT !.i = @ + 1]
    OBVIOUS
  <2>4. /\ x \in Script /\ x.phase = "propose" /\ x.tx = "none" /\ x.run = "setup"
        /\ x.i = s.i + 1 /\ x.executed = s.executed
    BY <2>2, <2>3 DEF Script
  <2>5. Staged("setup", x)
    BY <1>1, <1>3, <2>4 DEF Staged
  <2>6. SetupSound(x)
    BY <1>1, <1>2, <2>4 DEF SetupSound
  <2>7. ScriptSound("setup", x)
    BY <2>4, <2>5, <2>6 DEF ScriptSound
  <2>8. NextMapping(s) = x
    BY <1>3, <2>1, <2>3 DEF NextMapping
  <2>9. QED
    BY <2>7, <2>8
<1>4. CASE ~(s.i < Len(Mappings))
  <2>1. \A j \in DOMAIN Mappings : j < s.i + 1
    BY <1>1, <1>4
  <2>2. QED
    BY <1>2, <1>4, <2>1, FinishedIsSound DEF NextMapping, Terminals
<1>5. QED
  BY <1>3, <1>4

\* A script goes on after a transaction that was mined, or a signature it did
\* not wait for.
LEMMA ContinuedIsSound ==
  ASSUME NEW t \in Terminals, NEW s, ScriptSound(t, s), s.phase \notin {"done", "fetch"},
         s.tx = "mined" \/ s.phase = "sign"
  PROVE  ScriptSound(t, Continue(s))
<1>1. s \in Script /\ Staged(t, s)
  BY DEF ScriptSound, Staged
<1>2. CASE t = "proposer"
  <2>1. s.run = "register" /\ s.phase \in {"propose", "sign", "execute"}
    BY <1>1, <1>2 DEF Staged
  <2>2. Continue(s) = CASE s.phase = "propose" -> IF s.auto THEN Enter(s, "sign") ELSE Finish(FALSE)
                        [] s.phase = "sign" -> Enter(s, "execute")
                        [] OTHER -> Finish(TRUE)
    BY <2>1 DEF Continue, AfterRegister
  <2>3. s.phase \in {"propose", "sign"} => Tracked(s.id)
    BY <1>2 DEF ScriptSound
  <2>4. ASSUME NEW phase \in {"sign", "execute"}, Tracked(s.id), s.executed => Registered
        PROVE  ScriptSound(t, Enter(s, phase))
    <3>1. PICK x : x = Enter(s, phase)
      OBVIOUS
    <3>2. /\ x \in Script /\ x.phase = phase /\ x.tx = "none" /\ x.run = s.run
          /\ x.id = s.id /\ x.executed = s.executed
      BY <1>1, <3>1, FieldsOfNext DEF Phases
    <3>3. Staged(t, x)
      BY <1>2, <2>1, <3>2 DEF Staged
    <3>4. ScriptSound(t, x)
      BY <1>2, <2>4, <3>2, <3>3 DEF ScriptSound, Tracked
    <3>5. QED
      BY <3>1, <3>4
  <2>5. s.executed => Registered
    BY <1>2 DEF ScriptSound
  <2>6. CASE s.phase = "propose"
    BY <2>2, <2>3, <2>4, <2>5, <2>6, FinishedIsSound
  <2>7. CASE s.phase = "sign"
    BY <2>2, <2>3, <2>4, <2>5, <2>7
  <2>8. CASE s.phase = "execute"
    <3>1. Registered
      BY <1>2, <2>8 DEF ScriptSound
    <3>2. QED
      BY <1>2, <2>2, <2>8, <3>1, FinishedIsSound
  <2>9. QED
    BY <2>1, <2>6, <2>7, <2>8
<1>3. CASE t = "setup" /\ s.run = "setup"
  <2>1. s.i \in 1..Len(Mappings) /\ s.phase \in {"propose", "sign", "execute"}
    BY <1>1, <1>3 DEF Staged
  <2>2. Continue(s) = AfterSetup(s)
    BY <1>3 DEF Continue
  <2>3. CASE s.phase = "propose"
    <3>1. PICK x : x = Enter(s, "fetch")
      OBVIOUS
    <3>2. /\ x \in Script /\ x.phase = "fetch" /\ x.tx = "none" /\ x.run = s.run
          /\ x.i = s.i /\ x.id = s.id /\ x.executed = s.executed
      BY <1>1, <3>1, FieldsOfNext DEF Phases
    <3>3. Staged(t, x)
      BY <1>3, <2>1, <3>2 DEF Staged
    <3>4. SetupSound(x)
      BY <1>3, <2>3, <3>2 DEF ScriptSound, SetupSound
    <3>5. ScriptSound(t, x)
      BY <1>3, <3>2, <3>3, <3>4 DEF ScriptSound
    <3>6. Continue(s) = x
      BY <2>2, <2>3, <3>1 DEF AfterSetup
    <3>7. QED
      BY <3>5, <3>6
  <2>4. CASE s.phase = "sign"
    <3>1. PICK x : x = Enter(s, "execute")
      OBVIOUS
    <3>2. /\ x \in Script /\ x.phase = "execute" /\ x.tx = "none" /\ x.run = s.run
          /\ x.i = s.i /\ x.id = s.id /\ x.executed = s.executed
      BY <1>1, <3>1, FieldsOfNext DEF Phases
    <3>3. Staged(t, x)
      BY <1>3, <2>1, <3>2 DEF Staged
    <3>4. SetupSound(x)
      BY <1>3, <3>2 DEF ScriptSound, SetupSound
    <3>5. ScriptSound(t, x)
      BY <1>3, <2>4, <3>2, <3>3, <3>4 DEF ScriptSound
    <3>6. Continue(s) = x
      BY <2>2, <2>4, <3>1 DEF AfterSetup
    <3>7. QED
      BY <3>5, <3>6
  <2>5. CASE s.phase = "execute"
    <3>1. \/ Continue(s) = Idle
          \/ IsSet(s.i) /\ Continue(s) = NextMapping(s)
      BY <2>2, <2>5 DEF AfterSetup, IsSet
    <3>2. QED
      BY <1>3, <2>1, <3>1, IdleIsSound, NextMappingIsSound
  <2>6. QED
    BY <2>1, <2>3, <2>4, <2>5
<1>4. CASE t = "executor"
  <2>1. s.run = "execute" /\ s.phase = "execute" /\ s.tx = "mined"
    BY <1>1, <1>4 DEF Staged
  <2>2. Registered
    BY <1>4, <2>1 DEF ScriptSound
  <2>3. Continue(s) = Finish(TRUE)
    BY <2>1 DEF Continue
  <2>4. QED
    BY <1>4, <2>2, <2>3, FinishedIsSound
<1>5. CASE t = "kms" \/ (t = "setup" /\ s.run # "setup")
  <2>1. s.run \in {"kms", "direct"}
    BY <1>1, <1>5 DEF Staged
  <2>2. Continue(s) = Finish(FALSE)
    BY <2>1 DEF Continue
  <2>3. QED
    BY <2>2, FinishedIsSound
<1>6. QED
  BY <1>2, <1>3, <1>4, <1>5 DEF Terminals

LEMMA StartKeeps ==
  ASSUME OperatorsInv, UNCHANGED <<contracts, now, pool, announced>>,
         NEW t \in Terminals, NEW run \in Runs \ {"none"}, NEW phase \in Phases,
         NEW id, NEW auto \in BOOLEAN, Start(t, run, phase, id, auto),
         \/ t = "proposer" /\ run = "register" /\ phase = "propose" /\ id = 0
         \/ t = "setup" /\ run = "setup" /\ phase = "propose" /\ id = 0
         \/ t = "setup" /\ run = "direct" /\ phase = "direct" /\ id = 0
         \/ t = "kms" /\ run = "kms" /\ phase = "sign" /\ id \in announced
         \/ t = "executor" /\ run = "execute" /\ phase = "execute" /\ id \in announced
  PROVE  OperatorsInv'
<1>1. PICK s : s = [Idle EXCEPT !.run = run, !.phase = phase, !.id = id, !.auto = auto]
  OBVIOUS
<1>2. Set(t, s) /\ script[t].phase = "done" /\ ScriptSound(t, script[t])
  BY <1>1 DEF Start, Done, OperatorsInv
<1>3. script[t].tx # "waiting"
  BY <1>2 DEF ScriptSound, Staged
<1>4. /\ s.run = run /\ s.phase = phase /\ s.id = id /\ s.tx = "none" /\ s.i = 1
      /\ s.executed = FALSE
  BY <1>1 DEF Idle
<1>5. \A k \in announced : Tracked(k) /\ k \in Ids /\ k < proposalIDx
  BY DEF OperatorsInv, Tracked
<1>6. id \in Nat
  <2>1. CASE id = 0
    BY <2>1
  <2>2. CASE id \in announced
    BY <1>5, <2>2, IdsAreNumbers, Zenon
  <2>3. QED
    BY <2>1, <2>2
<1>7. s \in Script
  BY <1>1, <1>6 DEF Idle, Script, Runs, Phases
<1>8. 1 \in 1..Len(Mappings)
  <2>1. Mappings \in Seq(Agenda \cap TokenSets) /\ Mappings # <<>>
    BY OperatorsAssumption
  <2>2. Len(Mappings) \in Nat \ {0}
    BY <2>1, LenProperties, EmptySeq
  <2>3. QED
    BY <2>2
<1>9. Staged(t, s)
  BY <1>4, <1>7, <1>8 DEF Staged
<1>10. ScriptSound(t, s)
  <2>1. t = "setup" => SetupSound(s)
    BY <1>4, ConstantsAreProposals DEF SetupSound
  <2>2. QED
    BY <1>4, <1>5, <1>9, <2>1 DEF ScriptSound
<1>11. \A k \in announced' : Tracked(k)
  BY <1>5
<1>12. QED
  BY <1>2, <1>3, <1>10, <1>11, ScriptMoves

LEMMA FewManagersSuffice ==
  ASSUME MulSigInv, Quiet, FewManagers
  PROVE  fmThreshold <= 2
<1>1. Cardinality(Managers) \in Nat /\ Cardinality(Managers) <= 3
  BY RolesAssumption, FS_Subset, FS_CardinalityType DEF FewManagers
<1>2. \A n \in Nat : n <= 3 => n \div 2 + 1 <= 2
  OBVIOUS
<1>3. QED
  BY <1>1, <1>2 DEF fmThreshold, Quiet

\* What a script sends is about its proposal, and it executes what has the
\* signatures it was made for.
LEMMA SentIsSound ==
  ASSUME OperatorsInv, NEW t \in Terminals, Acting(t), Verdict(t) = "send",
         NEW tx, tx = Transaction(t)
  PROVE  /\ TxSound(tx)
         /\ tx.by = t /\ tx.call = script[t].phase /\ tx.run = script[t].run
         /\ script[t].phase \in {"sign", "execute"} => tx.what = script[t].id
         /\ script[t].phase = "propose" /\ script[t].run = "setup" =>
              tx.what = Mappings[script[t].i]
<1>1. PICK s : s = script[t]
  OBVIOUS
<1>2. ScriptSound(t, s) /\ Staged(t, s) /\ s.phase \notin {"done", "fetch"} /\ s \in Script
  BY <1>1 DEF OperatorsInv, ScriptSound, Staged, Acting, Done
<1>3. PICK what : what = IF s.phase # "propose" THEN s.id
                         ELSE IF s.run = "setup" THEN Mappings[s.i] ELSE Registration
  OBVIOUS
<1>4. tx = [call |-> s.phase, by |-> t, run |-> s.run, what |-> what]
  BY <1>1, <1>3 DEF Transaction
<1>5. /\ tx.call = s.phase /\ tx.by = t /\ tx.run = s.run /\ tx.what = what
      /\ tx = [call |-> tx.call, what |-> tx.what, by |-> tx.by, run |-> tx.run]
  BY <1>4
<1>6. s.phase \in {"sign", "execute"} => what = s.id /\ what \in Ids /\ what < proposalIDx
  BY <1>2, <1>3 DEF ScriptSound
<1>7. ASSUME s.phase = "propose"
      PROVE  /\ what \in Range(Mappings) \cup {Registration}
             /\ s.run = "register" => what = Registration
  <2>1. CASE s.run = "setup"
    <3>1. s.i \in 1..Len(Mappings)
      BY <1>2, <2>1 DEF Staged
    <3>2. Mappings[s.i] \in Range(Mappings)
      BY <3>1, OperatorsAssumption, LenProperties DEF Range
    <3>3. QED
      BY <1>3, <1>7, <2>1, <3>2
  <2>2. CASE s.run # "setup"
    BY <1>3, <1>7, <2>2
  <2>3. QED
    BY <2>1, <2>2
<1>8. ASSUME FewManagers, s.phase = "execute", s.run # "setup" PROVE Voted(what)
  <2>1. what = s.id /\ what \in Ids
    BY <1>6, <1>8
  <2>2. fmThreshold \in Nat /\ signatureCount[what] \in Nat /\ fmThreshold <= 2
    BY <1>8, <2>1, ThresholdIsNat, FewManagersSuffice DEF OperatorsInv
  <2>3. CASE t = "proposer"
    <3>1. s.run = "register"
      BY <1>2, <2>3 DEF Staged
    <3>2. RegisterVerdict(s, Owner[t]) = "send"
      BY <1>1, <3>1 DEF Verdict
    <3>3. signatureCount[what] >= fmThreshold
      BY <1>8, <2>1, <3>2 DEF RegisterVerdict
    <3>4. QED
      BY <3>3 DEF Voted
  <2>4. CASE t = "executor"
    <3>1. s.run = "execute"
      BY <1>2, <2>4 DEF Staged
    <3>2. ExecuteVerdict(t) = "send"
      BY <1>1, <3>1 DEF Verdict
    <3>3. signatureCount[what] >= 2
      BY <1>1, <2>1, <3>2 DEF ExecuteVerdict
    <3>4. QED
      BY <2>2, <3>3 DEF Voted
  <2>5. t \in {"proposer", "executor"}
    BY <1>2, <1>8 DEF Staged, Terminals
  <2>6. QED
    BY <2>3, <2>4, <2>5
<1>9. TxSound(tx)
  BY <1>5, <1>6, <1>7, <1>8 DEF TxSound
<1>10. s.phase = "propose" /\ s.run = "setup" => tx.what = Mappings[s.i]
  BY <1>3, <1>5
<1>11. QED
  BY <1>1, <1>5, <1>6, <1>9, <1>10

LEMMA SendKeeps ==
  ASSUME OperatorsInv, NEW t \in Terminals, Send(t)
  PROVE  OperatorsInv'
<1>1. PICK s : s = script[t]
  OBVIOUS
<1>2. PICK tx : tx = Transaction(t)
  OBVIOUS
<1>3. PICK m : m = Owner[t]
  OBVIOUS
<1>4. Acting(t) /\ Verdict(t) = "send" /\ UNCHANGED <<contracts, now, announced>>
  BY DEF Send, mulSigVars, contracts
<1>5. \/ (Submit(m, tx) \/ Enqueue(m, tx)) /\ Set(t, [script[t] EXCEPT !.tx = "waiting"])
      \/ Set(t, Abort(s)) /\ UNCHANGED pool
  BY <1>1, <1>2, <1>3 DEF Send
<1>6. CASE (Submit(m, tx) \/ Enqueue(m, tx)) /\ Set(t, [script[t] EXCEPT !.tx = "waiting"])
  BY <1>2, <1>3, <1>4, <1>6, SentIsSound, ScriptSends
<1>7. CASE Set(t, Abort(s)) /\ UNCHANGED pool
  <2>1. PICK x : x = Abort(s)
    OBVIOUS
  <2>2. ScriptSound(t, s) /\ script[t].tx # "waiting"
    BY <1>1, <1>4 DEF OperatorsInv, Acting
  <2>3. ScriptSound(t, x)
    BY <2>1, <2>2, AbortedIsSound
  <2>4. \A id \in announced' : Tracked(id)
    BY <1>4 DEF OperatorsInv
  <2>5. QED
    BY <1>4, <1>7, <2>1, <2>2, <2>3, <2>4, ScriptMoves
<1>8. QED
  BY <1>5, <1>6, <1>7

LEMMA DeclineKeeps ==
  ASSUME OperatorsInv, NEW t \in Terminals, Decline(t)
  PROVE  OperatorsInv'
<1>1. PICK s : s = script[t]
  OBVIOUS
<1>2. Acting(t) /\ UNCHANGED <<contracts, now, pool, announced>>
  BY DEF Decline, mulSigVars, contracts
<1>3. ScriptSound(t, s) /\ s.tx = "none" /\ s.phase \notin {"done", "fetch"}
  BY <1>1, <1>2 DEF OperatorsInv, Acting, Done
<1>4. PICK x : Set(t, x) /\ \/ x = Idle
                            \/ /\ Verdict(t) = "skip" \/ OthersSuffice(t)
                               /\ x = Continue(s)
                            \/ x = Abort(s)
  BY <1>1 DEF Decline
<1>5. Verdict(t) = "skip" \/ OthersSuffice(t) => s.phase = "sign"
  BY <1>1 DEF Verdict, RegisterVerdict, SetupVerdict, KmsVerdict, ExecuteVerdict, OthersSuffice
<1>6. ScriptSound(t, x)
  BY <1>3, <1>4, <1>5, IdleIsSound, ContinuedIsSound, AbortedIsSound
<1>7. \A id \in announced' : Tracked(id)
  BY <1>2 DEF OperatorsInv
<1>8. QED
  BY <1>1, <1>2, <1>3, <1>4, <1>6, <1>7, ScriptMoves

LEMMA ConfirmKeeps ==
  ASSUME OperatorsInv, NEW t \in Terminals, Confirm(t)
  PROVE  OperatorsInv'
<1>1. PICK s : s = script[t]
  OBVIOUS
<1>2. /\ s.tx \in {"mined", "reverted"} /\ UNCHANGED <<contracts, now, pool>>
      /\ announced' = IF s.run = "register" /\ s.phase = "propose" /\ s.tx = "mined"
                      THEN announced \cup {s.id} ELSE announced
  BY <1>1 DEF Confirm, mulSigVars, contracts
<1>3. ScriptSound(t, s) /\ s.phase \notin {"done", "fetch"} /\ Staged(t, s)
  BY <1>1, <1>2 DEF OperatorsInv, ScriptSound, Staged
<1>4. PICK x : Set(t, x) /\ x = IF s.tx = "mined" THEN Continue(s) ELSE Abort(s)
  BY <1>1 DEF Confirm
<1>5. ScriptSound(t, x)
  BY <1>2, <1>3, <1>4, ContinuedIsSound, AbortedIsSound
<1>6. \A id \in announced' : Tracked(id)
  <2>1. s.run = "register" => t = "proposer"
    BY <1>3 DEF Staged, Terminals
  <2>2. s.run = "register" /\ s.phase = "propose" /\ s.tx = "mined" => Tracked(s.id)
    BY <1>3, <2>1 DEF ScriptSound
  <2>3. QED
    BY <1>2, <2>2 DEF OperatorsInv
<1>7. QED
  BY <1>1, <1>2, <1>4, <1>5, <1>6, ScriptMoves

LEMMA FetchKeeps ==
  ASSUME OperatorsInv, NEW t \in Terminals, Fetch(t)
  PROVE  OperatorsInv'
<1>1. PICK s : s = script[t]
  OBVIOUS
<1>2. s.phase = "fetch" /\ UNCHANGED <<contracts, now, pool, announced>>
  BY <1>1 DEF Fetch, mulSigVars, contracts
<1>3. /\ ScriptSound(t, s) /\ s \in Script /\ s.tx = "none"
      /\ t = "setup" /\ s.run = "setup" /\ s.i \in 1..Len(Mappings)
  BY <1>1, <1>2 DEF OperatorsInv, ScriptSound, Staged, Terminals
<1>4. PICK x : Set(t, x) /\ x = IF pendingProposals = <<>> THEN NextMapping(s)
                 ELSE [Enter(s, "sign") EXCEPT !.id = pendingProposals[Len(pendingProposals)]]
  BY <1>1 DEF Fetch
<1>5. CASE pendingProposals = <<>>
  <2>1. ScriptSound(t, x)
    <3>1. Proposed(s.id, s.i)
      BY <1>2, <1>3 DEF ScriptSound, SetupSound
    <3>2. content[s.id] = NoContent
      <4>1. PendingAreLive /\ s.id \in Ids
        BY <3>1 DEF Proposed, OperatorsInv, MulSigInv, VoteInv
      <4>2. Range(pendingProposals) = {}
        BY <1>5 DEF Range
      <4>3. QED
        BY <4>1, <4>2 DEF PendingAreLive
    <3>3. IsSet(s.i)
      BY <3>1, <3>2 DEF Proposed
    <3>4. QED
      BY <1>2, <1>3, <1>4, <1>5, <3>3, NextMappingIsSound
  <2>2. \A id \in announced' : Tracked(id)
    BY <1>2 DEF OperatorsInv
  <2>3. QED
    BY <1>1, <1>2, <1>3, <1>4, <2>1, <2>2, ScriptMoves
<1>6. CASE pendingProposals # <<>>
  <2>1. PICK id : id = pendingProposals[Len(pendingProposals)]
    OBVIOUS
  <2>2. id \in Ids /\ id < proposalIDx /\ id \in Nat
    <3>1. pendingProposals \in Seq(Ids) /\ PendingAreLive
      BY DEF OperatorsInv, MulSigInv, VoteInv, VoteTypeOK
    <3>2. Len(pendingProposals) \in 1..Len(pendingProposals)
          /\ DOMAIN pendingProposals = 1..Len(pendingProposals)
      BY <1>6, <3>1, LenProperties, EmptySeq
    <3>3. id \in Range(pendingProposals)
      BY <2>1, <3>2 DEF Range
    <3>4. QED
      BY <3>1, <3>3, IdsAreNumbers DEF PendingAreLive
  <2>3. PICK y : y = Enter(s, "sign")
    OBVIOUS
  <2>4. /\ y \in Script /\ y.phase = "sign" /\ y.tx = "none" /\ y.run = s.run /\ y.i = s.i
        /\ y.executed = s.executed
    BY <1>3, <2>3, FieldsOfNext DEF Phases
  <2>5. x = [y EXCEPT !.id = id]
    BY <1>4, <1>6, <2>1, <2>3
  <2>6. /\ x \in Script /\ x.phase = "sign" /\ x.tx = "none" /\ x.run = s.run /\ x.i = s.i
        /\ x.id = id /\ x.executed = s.executed
    BY <2>2, <2>4, <2>5 DEF Script
  <2>7. Staged(t, x)
    BY <1>3, <2>6 DEF Staged
  <2>8. ScriptSound(t, x)
    <3>1. SetupSound(x)
      BY <1>3, <2>6 DEF ScriptSound, SetupSound
    <3>2. QED
      BY <1>3, <2>2, <2>6, <2>7, <3>1 DEF ScriptSound
  <2>9. \A k \in announced' : Tracked(k)
    BY <1>2 DEF OperatorsInv
  <2>10. QED
    BY <1>1, <1>2, <1>3, <1>4, <2>8, <2>9, ScriptMoves
<1>7. QED
  BY <1>5, <1>6

LEMMA LeaveKeeps ==
  ASSUME OperatorsInv, NEW t \in Terminals, GiveUp(t) \/ Crash(t)
  PROVE  OperatorsInv'
<1>1. PICK s : s = script[t]
  OBVIOUS
<1>2. UNCHANGED <<contracts, now, announced>> /\ Disowned(t)
  BY DEF GiveUp, Crash, mulSigVars, contracts
<1>3. ScriptSound(t, s) /\ Staged(t, s)
  BY <1>1 DEF OperatorsInv, ScriptSound
<1>4. PICK x : Set(t, x) /\ \/ x = Idle
                            \/ s.tx = "waiting" /\ s.run = "kms" /\ x = Continue(s)
                            \/ x = Abort(s)
  BY <1>1 DEF GiveUp, Crash
<1>5. s.tx = "waiting" /\ s.run = "kms" => s.phase = "sign"
  BY <1>3 DEF Staged
<1>6. ScriptSound(t, x)
  BY <1>3, <1>4, <1>5, IdleIsSound, ContinuedIsSound, AbortedIsSound
<1>7. QED
  BY <1>2, <1>4, <1>6, ScriptLeaves

LEMMA ByHandKeeps ==
  ASSUME OperatorsInv, NEW id \in Ids, SignByHand(id) \/ ExecuteByHand(id)
  PROVE  OperatorsInv'
<1>0. id \in announced /\ UNCHANGED <<contracts, announced, script, now>>
      /\ id < proposalIDx
  BY DEF SignByHand, ExecuteByHand, mulSigVars, contracts, OperatorsInv, Tracked
<1>1. PICK call \in {"sign", "execute"}, m \in Wallets :
        /\ Submit(m, ByHand(call, id))
        /\ call = "execute" => CanExecute(id)
  BY DEF SignByHand, ExecuteByHand, Wallets, Terminals
<1>2. PICK tx : tx = ByHand(call, id)
  OBVIOUS
<1>3. /\ tx.call = call /\ tx.what = id /\ tx.by = "nobody"
      /\ tx = [call |-> tx.call, what |-> tx.what, by |-> tx.by, run |-> tx.run]
  BY <1>2 DEF ByHand
<1>4. ASSUME FewManagers, call = "execute" PROVE Voted(id)
  <2>1. fmThreshold \in Nat /\ signatureCount[id] \in Nat /\ fmThreshold <= 2
    BY <1>4, ThresholdIsNat, FewManagersSuffice DEF OperatorsInv
  <2>2. signatureCount[id] >= 2
    BY <1>1, <1>4 DEF CanExecute
  <2>3. QED
    BY <2>1, <2>2 DEF Voted
<1>5. TxSound(tx)
  BY <1>0, <1>3, <1>4 DEF TxSound
<1>6. PICK q : q = Replaced(pool[m], tx)
  OBVIOUS
<1>7. PoolSound(m, q)
  <2>1. PICK p : p = pool[m]
    OBVIOUS
  <2>2. PoolSound(m, p) /\ q = Replaced(p, tx)
    BY <1>6, <2>1 DEF OperatorsInv
  <2>3. QED
    BY <1>3, <1>5, <2>2, NobodyWaits
<1>8. pool' = [pool EXCEPT ![m] = q] /\ now' \in Nat
  BY <1>0, <1>1, <1>2, <1>6 DEF Submit, OperatorsInv, MulSigInv
<1>9. QED
  BY <1>0, <1>7, <1>8, PoolMoves

LEMMA LoseKeeps ==
  ASSUME OperatorsInv, NEW m \in Wallets, Lose(m)
  PROVE  OperatorsInv'
<1>1. /\ UNCHANGED <<contracts, announced, script>> /\ now' \in Nat
      /\ pool' = [pool EXCEPT ![m] = <<>>]
  BY DEF Lose, mulSigVars, contracts, OperatorsInv, MulSigInv
<1>2. PICK q : q = <<>>
  OBVIOUS
<1>3. PoolSound(m, q)
  BY <1>2, NothingPending
<1>4. QED
  BY <1>1, <1>2, <1>3, PoolMoves

LEMMA NothingElseKeeps ==
  ASSUME OperatorsInv, UNCHANGED <<contracts, pool, script, announced>>, now' \in Nat
  PROVE  OperatorsInv'
<1>1. DOMAIN pool' = Wallets /\ \A w \in Wallets : PoolSound(w, pool'[w])
  BY DEF OperatorsInv
<1>2. QED
  BY <1>1, PoolsMove

-----------------------------------------------------------------------------

LEMMA OperatorsInit == Init => OperatorsInv
<1> SUFFICES ASSUME Init PROVE OperatorsInv
  OBVIOUS
<1>1. MulSigInv
  BY StartEstablishesInv DEF Init
<1>2. Quiet
  BY DEF Init, NoProposals, Quiet, RolesInit, RoleNames, FoundationManagers
<1>3. \A t \in Terminals : ScriptSound(t, script[t])
  BY IdleIsSound DEF Init
<1>4. script \in [Terminals -> Script]
  BY DEF Init, Idle, Script, Runs, Phases
<1>5. \A m \in Wallets : PoolSound(m, pool[m])
  BY NothingPending DEF Init
<1>6. DOMAIN pool = Wallets /\ announced = {}
  BY DEF Init
<1>7. QED
  BY <1>1, <1>2, <1>3, <1>4, <1>5, <1>6 DEF OperatorsInv

LEMMA OperatorsNext ==
  ASSUME OperatorsInv, [Next]_vars
  PROVE  OperatorsInv'
<1>1. ASSUME NEW m \in Wallets, Mine(m) PROVE OperatorsInv'
  BY <1>1, MineKeeps
<1>2. ASSUME NEW m \in Wallets, Lose(m) PROVE OperatorsInv'
  BY <1>2, LoseKeeps
<1>3. CASE Wait
  BY <1>3, NothingElseKeeps DEF Wait, Tick, OperatorsInv, MulSigInv
<1>4. ASSUME NEW auto \in BOOLEAN, StartRegister(auto) PROVE OperatorsInv'
  <2>1. Start("proposer", "register", "propose", 0, auto)
        /\ UNCHANGED <<contracts, now, pool, announced>>
    BY <1>4 DEF StartRegister, mulSigVars, contracts
  <2>2. QED
    BY <2>1, StartKeeps DEF Terminals, Runs, Phases
<1>5. CASE StartSetup
  <2>1. Start("setup", "setup", "propose", 0, FALSE)
        /\ UNCHANGED <<contracts, now, pool, announced>>
    BY <1>5 DEF StartSetup, StartStray, mulSigVars, contracts
  <2>2. QED
    BY <2>1, StartKeeps DEF Terminals, Runs, Phases
<1>6. CASE StartDirect
  <2>1. Start("setup", "direct", "direct", 0, FALSE)
        /\ UNCHANGED <<contracts, now, pool, announced>>
    BY <1>6 DEF StartDirect, StartStray, mulSigVars, contracts
  <2>2. QED
    BY <2>1, StartKeeps DEF Terminals, Runs, Phases
<1>7. CASE StartKms
  <2>1. PICK id \in announced : Start("kms", "kms", "sign", id, FALSE)
    BY <1>7 DEF StartKms
  <2>2. UNCHANGED <<contracts, now, pool, announced>>
    BY <1>7 DEF StartKms, mulSigVars, contracts
  <2>3. QED
    BY <2>1, <2>2, StartKeeps DEF Terminals, Runs, Phases
<1>8. CASE StartExecute
  <2>1. PICK id \in announced : Start("executor", "execute", "execute", id, FALSE)
    BY <1>8 DEF StartExecute
  <2>2. UNCHANGED <<contracts, now, pool, announced>>
    BY <1>8 DEF StartExecute, mulSigVars, contracts
  <2>3. QED
    BY <2>1, <2>2, StartKeeps DEF Terminals, Runs, Phases
<1>9. ASSUME NEW id \in Ids, SignByHand(id) \/ ExecuteByHand(id) PROVE OperatorsInv'
  BY <1>9, ByHandKeeps
<1>10. ASSUME NEW t \in Terminals, ScriptStep(t) PROVE OperatorsInv'
  BY <1>10, DeclineKeeps, SendKeeps, ConfirmKeeps, FetchKeeps, LeaveKeeps DEF ScriptStep
<1>11. ASSUME NEW t \in Terminals, Crash(t) PROVE OperatorsInv'
  BY <1>11, LeaveKeeps
<1>12. CASE UNCHANGED vars
  BY <1>12, NothingElseKeeps DEF vars, mulSigVars, contracts, OperatorsInv, MulSigInv
<1>13. QED
  BY <1>1, <1>2, <1>3, <1>4, <1>5, <1>6, <1>7, <1>8, <1>9, <1>10, <1>11, <1>12 DEF Next

\* What the scripts and the pool hold is about proposals that stand for the
\* DApp or for the mappings (the scripts over MulSig.sol).
THEOREM OperatorsInvariant == Spec => []OperatorsInv
<1>1. OperatorsInv /\ [Next]_vars => OperatorsInv'
  BY OperatorsNext
<1>2. QED
  BY OperatorsInit, <1>1, PTL DEF Spec

\* register-dapp-node and execute-proposal report "DApp registration completed"
\* only when the DApp is registered, whatever is lost, replaced, executed by
\* others or left by a crash meanwhile.
THEOREM ReportsAreTrue == Spec => []ExecutedIsRegistered
<1>1. OperatorsInv => ExecutedIsRegistered
  BY DEF OperatorsInv, ScriptSound, ExecutedIsRegistered, Terminals
<1>2. QED
  BY <1>1, OperatorsInvariant, PTL

\* setup-crosschain-tokens ends without an error only when all its mappings are
\* set, whichever proposals it took for its own and whoever executed them.
THEOREM SetupIsTrue == Spec => []FinishedIsSetUp
<1>1. OperatorsInv => FinishedIsSetUp
  BY DEF OperatorsInv, ScriptSound, SetupSound, IsSet, FinishedIsSetUp, Terminals
<1>2. QED
  BY <1>1, OperatorsInvariant, PTL

\* VotedUnlessSetup, of a step.
Counted ==
  \A id \in Ids : content[id] # NoContent /\ content'[id] = NoContent =>
       \/ signatureCount[id] >= fmThreshold
       \/ \E m \in Wallets : /\ pool'[m] # pool[m]
                             /\ Head(pool[m]).run = "setup"

LEMMA OnlyMiningExecutes ==
  ASSUME OperatorsInv, [Next]_vars, FewManagers
  PROVE  Counted
<1>1. ASSUME NEW m \in Wallets, Mine(m) PROVE Counted
  <2>1. PICK tx : tx = Head(pool[m])
    OBVIOUS
  <2>2. PICK p : p = pool[m]
    OBVIOUS
  <2>3. p # <<>> /\ PoolSound(m, p) /\ tx = Head(p) /\ now' = now /\ DOMAIN pool = Wallets
        /\ (Call(m, tx) \/ UNCHANGED contracts) /\ pool' = [pool EXCEPT ![m] = Tail(@)]
    BY <1>1, <2>1, <2>2 DEF Mine, OperatorsInv
  <2>4. TxSound(tx) /\ Tail(p) # p
    BY <2>3, HeadLeavesPool
  <2>5. pool'[m] # pool[m]
    BY <2>2, <2>3, <2>4
  <2>6. CASE UNCHANGED contracts
    BY <2>6 DEF contracts, voteVars, Counted
  <2>7. CASE Call(m, tx)
    <3>1. \A id \in Ids : content[id] # NoContent /\ content'[id] = NoContent =>
            tx.call = "execute" /\ tx.what = id
      BY <2>3, <2>4, <2>7, CallAdvances DEF OperatorsInv
    <3>2. SUFFICES ASSUME NEW id \in Ids, content[id] # NoContent, content'[id] = NoContent
                   PROVE  signatureCount[id] >= fmThreshold \/ tx.run = "setup"
      BY <2>1, <2>5 DEF Counted
    <3>3. tx.call = "execute" /\ tx.what = id
      BY <3>1, <3>2
    <3>4. QED
      BY <2>4, <3>2, <3>3 DEF TxSound, Voted
  <2>8. QED
    BY <2>3, <2>6, <2>7
<1>2. ASSUME content' = content PROVE Counted
  BY <1>2 DEF Counted
<1>3. CASE \E m \in Wallets : Lose(m)
  BY <1>2, <1>3 DEF Lose, mulSigVars, voteVars
<1>4. CASE \/ Wait
           \/ \E auto \in BOOLEAN : StartRegister(auto)
           \/ StartSetup \/ StartDirect \/ StartKms \/ StartExecute
  BY <1>2, <1>4 DEF Wait, StartRegister, StartSetup, StartDirect, StartStray, StartKms, StartExecute,
                    contracts, mulSigVars, voteVars
<1>5. CASE \E id \in Ids : SignByHand(id) \/ ExecuteByHand(id)
  BY <1>2, <1>5 DEF SignByHand, ExecuteByHand, mulSigVars, voteVars
<1>6. CASE \E t \in Terminals : ScriptStep(t) \/ Crash(t)
  BY <1>2, <1>6 DEF ScriptStep, Decline, Send, Confirm, Fetch, GiveUp, Crash, mulSigVars, voteVars
<1>7. CASE UNCHANGED vars
  BY <1>2, <1>7 DEF vars, mulSigVars, voteVars
<1>8. QED
  BY <1>1, <1>3, <1>4, <1>5, <1>6, <1>7 DEF Next

\* With up to three managers, for whom the two signatures that kms-multisig-signer,
\* execute-proposal and aws-multisig-runner look for are a majority, nothing is
\* executed without a majority's signatures, but by setup-crosschain-tokens.
THEOREM ExecutionsAreVoted ==
  ASSUME FewManagers
  PROVE  Spec => VotedUnlessSetup
<1>1. OperatorsInv /\ [Next]_vars => Counted
  BY OnlyMiningExecutes
<1>2. Spec => [][Counted]_vars
  BY <1>1, OperatorsInvariant, PTL DEF Spec
<1>3. QED
  BY <1>2 DEF VotedUnlessSetup, Counted
=============================================================================
