------------------------------- MODULE MulSig -------------------------------
(***************************************************************************)
(* The multisig (contracts/Governance/MulSig.sol): foundation managers     *)
(* propose, sign and execute changes of roles and of the registries of     *)
(* Governance.sol, ParameterInfo.sol, CrosschainTokens.sol and             *)
(* Producer.sol.  Signatures reaching the threshold start a time lock;     *)
(* execution looks at the time lock alone, and zero has always passed.     *)
(*                                                                         *)
(* A token's cross-chain addresses are a value nobody looks into, a        *)
(* discount curve its four discounts; of the platform's keys, the ones     *)
(* whose admissible range depends on another key (TCASHLT, TCASHMCT) stand *)
(* for all.  A DApp is its name and payee.                                 *)
(***************************************************************************)
EXTENDS Roles, BlockTime, Sequences, Functions

CONSTANTS Agenda,         \* the contents of the proposals made
          ConfirmDuration,
          Treasures, DApps, Tokens, TokenInfos,
          NoToken,        \* what an unset cross-chain token reads as
          NoContent,      \* the content of an id that is not in use
          MaxProposals    \* bound on the ids, for TLC only

ConfigKeys == {"TCASHMCT", "TCASHLT"}

RoleChanges  == [type : {1}, grant : BOOLEAN, role : RoleNames, account : Principals]
AddResources == [type : {2}, treasure : Treasures]
ConfigSets   == [type : {3}, key : ConfigKeys, value : Nat]
DiscountSets == [type : {4}, curve : [1..4 -> Nat]]
DAppRegs     == [type : {5}, treasure : Treasures, dapp : DApps]
TokenSets    == [type : {6}, token : Tokens, info : TokenInfos]

ASSUME MulSigAssumption ==
  /\ Agenda \subseteq RoleChanges \cup AddResources \cup ConfigSets
                      \cup DiscountSets \cup DAppRegs \cup TokenSets
  /\ NoContent \notin Agenda
  /\ NoToken \notin TokenInfos
  /\ ConfirmDuration \in Nat
  /\ MaxProposals \in Nat

VARIABLES proposalIDx,
          pendingProposals, \* a sequence of ids
          content,          \* id -> what executing it does
          signatures,       \* id -> the managers that have signed it
          signatureCount,
          excuteTime,
          treasures, platformConfig, discountConfig, dapps, crosschainTokens

voteVars == <<proposalIDx, pendingProposals, content, signatures, signatureCount, excuteTime>>
registryVars == <<treasures, platformConfig, discountConfig, dapps, crosschainTokens>>
mulSigVars == <<members, voteVars, registryVars, now>>

Ids == 0..MaxProposals - 1

\* Type correctness of the roles, the votes and the registries.
MulSigTypeOK ==
  /\ RolesTypeOK
  /\ now \in Nat
  /\ proposalIDx \in 0..MaxProposals
  /\ pendingProposals \in Seq(Ids)
  /\ content \in [Ids -> Agenda \cup {NoContent}]
  /\ signatures \in [Ids -> SUBSET Principals]
  /\ signatureCount \in [Ids -> Nat]
  /\ excuteTime \in [Ids -> Nat]
  /\ treasures \subseteq Treasures
  /\ platformConfig \in [ConfigKeys -> Nat]
  /\ discountConfig \in [1..4 -> Nat]
  /\ dapps \subseteq Treasures \X DApps
  /\ crosschainTokens \in [Tokens -> TokenInfos \cup {NoToken}]

NoProposals ==
  /\ proposalIDx = 0
  /\ pendingProposals = <<>>
  /\ content = [id \in Ids |-> NoContent]
  /\ signatures = [id \in Ids |-> {}]
  /\ signatureCount = [id \in Ids |-> 0]
  /\ excuteTime = [id \in Ids |-> 0]

DefaultConfig ==
  /\ platformConfig = [key \in ConfigKeys |-> IF key = "TCASHMCT" THEN 750000 ELSE 500000]
  /\ discountConfig = <<9000, 8500, 8000, 7500>>
  /\ dapps = {}
  /\ crosschainTokens = [t \in Tokens |-> NoToken]

MulSigInit ==
  /\ RolesInit
  /\ BlockTimeInit
  /\ NoProposals
  /\ treasures = {}
  /\ DefaultConfig

\* More than half of the managers, as they are now.
fmThreshold == Cardinality(FoundationManagers) \div 2 + 1

-----------------------------------------------------------------------------

\* Mutant: the number of pending proposals is the next id.
ProposeAtEnd(m, c) ==
  LET id == Len(pendingProposals)
  IN  /\ m \in FoundationManagers
      /\ c.type = 5 => c.treasure \in treasures
      /\ proposalIDx < MaxProposals
      /\ proposalIDx' = proposalIDx + 1
      /\ pendingProposals' = Append(pendingProposals, id)
      /\ content' = [content EXCEPT ![id] = c]
      /\ signatureCount' = [signatureCount EXCEPT ![id] = 0]
      /\ UNCHANGED <<members, signatures, excuteTime, registryVars>>

\* The propose calls.  The count of signatures starts again; the signatures
\* and the time lock an id may have got before it was used do not.
Propose(m, c) ==
  /\ m \in FoundationManagers
  /\ c.type = 5 => c.treasure \in treasures
  /\ proposalIDx < MaxProposals
  /\ proposalIDx' = proposalIDx + 1
  /\ pendingProposals' = Append(pendingProposals, proposalIDx)
  /\ content' = [content EXCEPT ![proposalIDx] = c]
  /\ signatureCount' = [signatureCount EXCEPT ![proposalIDx] = 0]
  /\ UNCHANGED <<members, signatures, excuteTime, registryVars>>

\* When the time lock that starts now ends.
LockEnd == now + ConfirmDuration

\* Mutant: a manager can sign twice.
SignAgain(m, id) ==
  /\ m \in FoundationManagers
  /\ signatureCount[id] < fmThreshold
  /\ signatures' = [signatures EXCEPT ![id] = @ \cup {m}]
  /\ signatureCount' = [signatureCount EXCEPT ![id] = @ + 1]
  /\ excuteTime' = [excuteTime EXCEPT ![id] =
                      IF signatureCount'[id] >= fmThreshold THEN LockEnd ELSE @]
  /\ UNCHANGED <<members, proposalIDx, pendingProposals, content, registryVars>>

\* Any id can be signed, in use or not.
SignTransaction(m, id) ==
  /\ m \in FoundationManagers
  /\ signatureCount[id] < fmThreshold
  /\ m \notin signatures[id]
  /\ signatures' = [signatures EXCEPT ![id] = @ \cup {m}]
  /\ signatureCount' = [signatureCount EXCEPT ![id] = @ + 1]
  /\ excuteTime' = [excuteTime EXCEPT ![id] =
                      IF signatureCount'[id] >= fmThreshold THEN LockEnd ELSE @]
  /\ UNCHANGED <<members, proposalIDx, pendingProposals, content, registryVars>>

\* The loop of deleteProposals: the entries behind the first occurrence of id
\* move up by one.
RemovePending(id) ==
  \E k \in DOMAIN pendingProposals :
    /\ pendingProposals[k] = id
    /\ \A i \in 1..k - 1 : pendingProposals[i] # id
    /\ pendingProposals' = [i \in 1..Len(pendingProposals) - 1 |->
                              pendingProposals[IF i < k THEN i ELSE i + 1]]

\* Every field of the proposal goes, except the mapping of its signatures.
RemoveProposal(id) ==
  /\ RemovePending(id)
  /\ content' = [content EXCEPT ![id] = NoContent]
  /\ signatureCount' = [signatureCount EXCEPT ![id] = 0]
  /\ excuteTime' = [excuteTime EXCEPT ![id] = 0]
  /\ UNCHANGED <<proposalIDx, signatures>>

DeleteProposals(m, id) ==
  /\ m \in FoundationManagers
  /\ RemoveProposal(id)
  /\ UNCHANGED <<members, registryVars>>

\* The multisig is the caller of the role contract.
ChangeRole(c) ==
  /\ c.type = 1
  /\ IF c.grant THEN GrantRole(MulSig, c.role, c.account)
                ELSE RevokeRole(MulSig, c.role, c.account)
  /\ UNCHANGED registryVars

AddTreasure(c) ==
  /\ c.type = 2
  /\ c.treasure \notin treasures
  /\ treasures' = treasures \cup {c.treasure}
  /\ UNCHANGED <<members, platformConfig, discountConfig, dapps, crosschainTokens>>

\* The liquidation line is bounded by the warning line, not the other way round.
SetPlatformConfig(c) ==
  /\ c.type = 3
  /\ \/ c.key = "TCASHMCT" /\ 500000 < c.value /\ c.value <= 2000000
     \/ c.key = "TCASHLT" /\ 400000 < c.value /\ c.value <= platformConfig["TCASHMCT"]
  /\ platformConfig' = [platformConfig EXCEPT ![c.key] = c.value]
  /\ UNCHANGED <<members, treasures, discountConfig, dapps, crosschainTokens>>

SetPriceDiscountConfig(c) ==
  /\ c.type = 4
  /\ c.curve[1] <= 10000
  /\ \A i \in 1..3 : c.curve[i] > c.curve[i + 1]
  /\ discountConfig' = c.curve
  /\ UNCHANGED <<members, treasures, platformConfig, dapps, crosschainTokens>>

RegisterDAppConnect(c) ==
  /\ c.type = 5
  /\ c.treasure \in treasures
  /\ <<c.treasure, c.dapp>> \notin dapps
  /\ dapps' = dapps \cup {<<c.treasure, c.dapp>>}
  /\ UNCHANGED <<members, treasures, platformConfig, discountConfig, crosschainTokens>>

SetCrosschainToken(c) ==
  /\ c.type = 6
  /\ crosschainTokens' = [crosschainTokens EXCEPT ![c.token] = c.info]
  /\ UNCHANGED <<members, treasures, platformConfig, discountConfig, dapps>>

Effect(c) == \/ ChangeRole(c)
             \/ AddTreasure(c)
             \/ SetPlatformConfig(c)
             \/ SetPriceDiscountConfig(c)
             \/ RegisterDAppConnect(c)
             \/ SetCrosschainToken(c)

\* Mutant: the role is checked before the effect only.
ExecuteProposalOnce(m, id) ==
  /\ m \in FoundationManagers
  /\ content[id] # NoContent
  /\ excuteTime[id] <= now
  /\ Effect(content[id])
  /\ RemoveProposal(id)

\* The call of deleteProposals at the end checks the caller's role again, after
\* the effect.
ExecuteProposal(m, id) ==
  /\ m \in FoundationManagers
  /\ content[id] # NoContent
  /\ excuteTime[id] <= now
  /\ Effect(content[id])
  /\ RemoveProposal(id)
  /\ m \in FoundationManagers'

-----------------------------------------------------------------------------

\* The role contract, called by an account and not by the multisig.
DirectRoleCall ==
  /\ \E caller \in Principals \ {MulSig}, role \in RoleNames :
       \/ \E account \in Principals : \/ GrantRole(caller, role, account)
                                      \/ RevokeRole(caller, role, account)
       \/ RenounceRole(caller, role)
  /\ UNCHANGED <<voteVars, registryVars>>

ManagerStep ==
  \E m \in Principals :
    \/ \E c \in Agenda : Propose(m, c)
    \/ \E id \in Ids : \/ SignTransaction(m, id)
                       \/ ExecuteProposal(m, id)
                       \/ DeleteProposals(m, id)

MulSigNext == \/ (ManagerStep \/ DirectRoleCall) /\ UNCHANGED now
              \/ Tick /\ UNCHANGED <<members, voteVars, registryVars>>

MulSigSpec == MulSigInit /\ [][MulSigNext]_mulSigVars

-----------------------------------------------------------------------------

\* An id is pending, once, exactly while it has something to execute.
PendingAreLive ==
  /\ \A i, j \in DOMAIN pendingProposals :
       pendingProposals[i] = pendingProposals[j] => i = j
  /\ Range(pendingProposals) = {id \in Ids : content[id] # NoContent}
  /\ \A id \in Ids : content[id] # NoContent => id < proposalIDx

\* A signature is counted at most once, whatever was signed before the id was
\* proposed or after it was deleted, and however often managers leave and come
\* back (signTransaction).
VotesAreDistinct ==
  \A id \in Ids : signatureCount[id] <= Cardinality(signatures[id])

\* What was executed or deleted never becomes executable again.
NothingRunsTwice ==
  [][\A id \in Ids : id < proposalIDx /\ content[id] = NoContent =>
       content'[id] = NoContent]_mulSigVars

\* No proposal, in no order of proposals, removes the last foundation manager:
\* whoever executes it is one afterwards (executeProposal, deleteProposals).
ExecutionKeepsManagers ==
  [][pendingProposals' # pendingProposals => FoundationManagers' # {}]_mulSigVars

\* Once nobody holds ADMIN, nobody ever does, and the roles it administers can
\* only be renounced: a proposal to revoke the multisig's own role is for good.
LostAdminIsLost ==
  [][members["ADMIN"] = {} =>
       /\ members'["ADMIN"] = {}
       /\ members'["FOUNDATION_MANAGER"] \subseteq members["FOUNDATION_MANAGER"]
       /\ members'["FEEDER"] \subseteq members["FEEDER"]]_mulSigVars
=============================================================================
