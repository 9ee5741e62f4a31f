---------------------------- MODULE MulSigClaims ----------------------------
(***************************************************************************)
(* What the documentation says of the multisig, stated of the modelled     *)
(* code, and what a run finds a behaviour to violate.                      *)
(***************************************************************************)
EXTENDS MCMulSig

\* docs/governance/mulsig/README.md:79: executeProposal executes a proposal that
\* has received enough signatures.  It compares the time lock with the clock,
\* and the time lock of a proposal nobody has signed is zero.
ExecutionIsVoted ==
  [][members' # members /\ pendingProposals' # pendingProposals =>
       \E id \in Ids : /\ content[id] # NoContent /\ content'[id] = NoContent
                       /\ signatureCount[id] >= fmThreshold]_mulSigVars
=============================================================================
