------------------------------- MODULE Roles -------------------------------
(***************************************************************************)
(* Who may call what (contracts/Governance/Roles.sol): role membership     *)
(* and, for each role, the role that grants and revokes it.  FEEDER stands *)
(* also for CROSSCHAIN_SENDER, TCASH_MINTER and TCASH_BURNER, which are    *)
(* administered the same way.  grantRole, revokeRole and renounceRole are  *)
(* OpenZeppelin's AccessControl.                                           *)
(***************************************************************************)
EXTENDS FiniteSets

CONSTANTS Principals,     \* the addresses that can hold a role
          MulSig,         \* the multisig contract
          Managers, AuctionManagers, Feeders      \* initialize's lists

ASSUME RolesAssumption == /\ IsFiniteSet(Principals)
                          /\ MulSig \in Principals
                          /\ Managers \subseteq Principals
                          /\ AuctionManagers \subseteq Principals
                          /\ Feeders \subseteq Principals

RoleNames == {"ADMIN", "FOUNDATION_MANAGER", "AUCTION_MANAGER", "FEEDER"}

VARIABLE members          \* role -> its members

RolesTypeOK == members \in [RoleNames -> SUBSET Principals]

\* _setRoleAdmin: the auction managers answer to the foundation managers alone.
RoleAdmin(role) ==
  IF role = "AUCTION_MANAGER" THEN "FOUNDATION_MANAGER" ELSE "ADMIN"

RolesInit ==
  members = [role \in RoleNames |-> CASE role = "ADMIN" -> {MulSig}
                                      [] role = "FOUNDATION_MANAGER" -> Managers
                                      [] role = "AUCTION_MANAGER" -> AuctionManagers
                                      [] role = "FEEDER" -> Feeders]

FoundationManagers == members["FOUNDATION_MANAGER"]

GrantRole(caller, role, account) ==
  /\ caller \in members[RoleAdmin(role)]
  /\ members' = [members EXCEPT ![role] = @ \cup {account}]

RevokeRole(caller, role, account) ==
  /\ caller \in members[RoleAdmin(role)]
  /\ members' = [members EXCEPT ![role] = @ \ {account}]

RenounceRole(caller, role) ==
  members' = [members EXCEPT ![role] = @ \ {caller}]
=============================================================================
