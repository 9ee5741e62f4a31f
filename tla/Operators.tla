----------------------------- MODULE Operators -----------------------------
(***************************************************************************)
(* The multisig of a live network as its operators use it, with scripts    *)
(* run on four terminals: register-dapp-node proposes a DApp, and in test  *)
(* mode signs and executes it; setup-crosschain-tokens proposes, signs and *)
(* executes a token mapping, and direct-register-dapp tries to do without  *)
(* the multisig; kms-multisig-signer signs with a key kept in AWS KMS; and *)
(* execute-proposal executes.  aws-multisig-runner only says when.         *)
(*                                                                         *)
(* The contracts are those of MulSig.  Between a script and them stands    *)
(* the pool, where a transaction waits, is replaced by one with the same   *)
(* nonce or gets lost; a script that waits too long goes on without it.    *)
(***************************************************************************)
EXTENDS MulSig

CONSTANTS Owner,          \* terminal -> the manager whose key it holds
          Registration,   \* the DApp to register, CONFIG
          Mappings,       \* the token mappings to set up, in order
          MaxPool,        \* bound: transactions of a wallet in the pool
          MaxStrays,      \* bound: runs of the scripts of terminal "setup"
          MaxFaults       \* bound: crashes, failed calls, timeouts, lost transactions

Terminals == {"proposer", "setup", "kms", "executor"}
Wallets == {Owner[t] : t \in Terminals}

ASSUME OperatorsAssumption ==
  /\ Owner \in [Terminals -> Managers]
  /\ Registration \in Agenda \cap DAppRegs
  /\ Mappings \in Seq(Agenda \cap TokenSets) \ {<<>>}
  /\ {MaxPool, MaxStrays, MaxFaults} \subseteq Nat
  /\ MaxProposals >= 1 + MaxFaults + MaxStrays * Len(Mappings)

VARIABLES pool,           \* wallet -> its transactions, in the order of their nonces
          script,         \* terminal -> the script it runs or has run last
          announced,      \* the ids register-dapp-node has printed
          strays, faults

contracts == <<members, voteVars, registryVars>>
vars == <<mulSigVars, pool, script, announced, strays, faults>>

\* tx is what became of the transaction it has sent, id the proposal it is about,
\* i the mapping; executed is its last report.
Idle == [run |-> "none", phase |-> "done", tx |-> "none", id |-> 0, auto |-> FALSE, i |-> 1, executed |-> FALSE]

Done(t) == script[t].phase = "done"
Set(t, s) == script' = [script EXCEPT ![t] = s]
Start(t, run, phase, id, auto) ==
  Done(t) /\ Set(t, [Idle EXCEPT !.run = run, !.phase = phase, !.id = id, !.auto = auto])

Fault == faults < MaxFaults /\ faults' = faults + 1

-----------------------------------------------------------------------------
(* The network.                                                            *)

\* An execution of what is no longer proposed, or not yet, succeeds and changes
\* nothing.
ExecuteNothing(m, id) ==
  /\ m \in FoundationManagers
  /\ content[id] = NoContent
  /\ excuteTime[id] <= now
  /\ UNCHANGED contracts

\* A DApp is registered directly by nobody but the multisig.
Call(m, tx) == \/ tx.call = "propose" /\ Propose(m, tx.what)
               \/ tx.call = "sign" /\ SignTransaction(m, tx.what)
               \/ /\ tx.call = "execute"
                  /\ ExecuteProposal(m, tx.what) \/ ExecuteNothing(m, tx.what)

Reverts(m, tx) == ~ENABLED Call(m, tx)

\* Whoever waits for a transaction gets its receipt; the event of a proposal
\* has its id.
Settle(tx, outcome) ==
  script' = [t \in Terminals |->
               IF t # tx.by THEN script[t]
               ELSE [script[t] EXCEPT !.tx = outcome,
                                      !.id = IF tx.call = "propose" THEN proposalIDx ELSE @]]

Mine(m) ==
  /\ pool[m] # <<>>
  /\ LET tx == Head(pool[m])
     IN  \/ Call(m, tx) /\ Settle(tx, "mined")
         \/ Reverts(m, tx) /\ Settle(tx, "reverted") /\ UNCHANGED contracts
  /\ pool' = [pool EXCEPT ![m] = Tail(@)]
  /\ UNCHANGED <<now, announced, strays, faults>>

Lose(m) ==
  /\ pool[m] # <<>>
  /\ Fault
  /\ pool' = [pool EXCEPT ![m] = <<>>]
  /\ UNCHANGED <<mulSigVars, script, announced, strays>>

\* Time matters while a time lock runs.
Wait ==
  /\ \E id \in Ids : excuteTime[id] > now
  /\ Tick
  /\ UNCHANGED <<contracts, pool, script, announced, strays, faults>>

\* The first pending transaction of a wallet is replaced, by one that asked for
\* the nonce of the last mined block; those behind it stay.
Replaced(p, tx) == IF p = <<>> THEN <<tx>> ELSE [p EXCEPT ![1] = tx]

Submit(m, tx) == pool' = [pool EXCEPT ![m] = Replaced(@, tx)]

\* kms-multisig-signer asks for the nonce after the pending ones.
Enqueue(m, tx) == Len(pool[m]) < MaxPool /\ pool' = [pool EXCEPT ![m] = Append(@, tx)]

-----------------------------------------------------------------------------
(* The operators.  A proposal is signed and executed by the id announced.  *)

StartRegister(auto) ==
  /\ announced = {}
  /\ Registration.treasure \in treasures /\ Owner["proposer"] \in FoundationManagers
  /\ Start("proposer", "register", "propose", 0, auto)
  /\ UNCHANGED <<mulSigVars, pool, announced, strays, faults>>

StartStray(run, phase) ==
  /\ strays < MaxStrays /\ strays' = strays + 1
  /\ Start("setup", run, phase, 0, FALSE)
  /\ UNCHANGED <<mulSigVars, pool, announced, faults>>

StartSetup == Owner["setup"] \in FoundationManagers /\ StartStray("setup", "propose")

\* direct-register-dapp, unless the DApp is registered.
StartDirect ==
  <<Registration.treasure, Registration.dapp>> \notin dapps /\ StartStray("direct", "direct")

StartKms ==
  /\ \E id \in announced : Start("kms", "kms", "sign", id, FALSE)
  /\ UNCHANGED <<mulSigVars, pool, announced, strays, faults>>

StartExecute ==
  /\ Owner["executor"] \in FoundationManagers
  /\ \E id \in announced : Start("executor", "execute", "execute", id, FALSE)
  /\ UNCHANGED <<mulSigVars, pool, announced, strays, faults>>

ByHand(call, id) == [call |-> call, what |-> id, by |-> "nobody", run |-> "hand"]

CanSign(m, id) == ENABLED SignTransaction(m, id)

\* As register-dapp-node tells the managers to; a call that would revert fails
\* its estimate.
SignByHand(id) ==
  LET m == Owner["executor"]
  IN  /\ id \in announced
      /\ m \notin signatures[id]
      /\ CanSign(m, id)
      /\ Submit(m, ByHand("sign", id))
      /\ UNCHANGED <<mulSigVars, script, announced, strays, faults>>

\* aws-multisig-runner tries to sign, which never succeeds, and an estimate
\* that fails ends the run.
RunnerGoesOn(id) ==
  Owner["kms"] \in signatures[id] \/ CanSign(Owner["kms"], id)

\* It reads the time lock by a name its ABI does not have, and so as zero.
CanExecute(id) == signatureCount[id] >= 2

\* What it has found executable stays so until somebody executes it.
ExecuteByHand(id) ==
  /\ id \in announced
  /\ RunnerGoesOn(id) /\ CanExecute(id)
  /\ Submit(Owner["kms"], ByHand("execute", id))
  /\ UNCHANGED <<mulSigVars, script, announced, strays, faults>>

-----------------------------------------------------------------------------
(* The scripts.                                                            *)

Transaction(t) ==
  LET s == script[t]
  IN  [call |-> s.phase, by |-> t, run |-> s.run,
       what |-> IF s.phase # "propose" THEN s.id
                ELSE IF s.run = "setup" THEN Mappings[s.i] ELSE Registration]

Enter(s, phase) == [s EXCEPT !.phase = phase, !.tx = "none"]
Finish(executed) == [Idle EXCEPT !.executed = executed]

\* The gas of a call that would revert cannot be estimated.
Estimated(t) == ~Reverts(Owner[t], Transaction(t))

\* register-dapp-node, before its next transaction: it signs with its own key
\* only, and executes what has enough signatures.  transactionDetails has no
\* time lock for a DApp, and it does not wait for one.
RegisterVerdict(s, m) ==
  CASE s.phase = "sign" -> IF m \in signatures[s.id] THEN "skip" ELSE "send"
    [] s.phase = "execute" -> IF signatureCount[s.id] >= fmThreshold THEN "send" ELSE "stop"
    [] OTHER -> "send"

\* It asks the managers in the order the role lists them, which is left open, and
\* stops when as many as the threshold have signed: the others may be enough.
OthersSuffice(t) ==
  LET s == script[t]
  IN  /\ s.run = "register" /\ s.phase = "sign"
      /\ Cardinality(signatures[s.id] \cap (FoundationManagers \ {Owner[t]})) >= fmThreshold

\* ... and after it: on a live network there is nothing left to do.
AfterRegister(s) ==
  CASE s.phase = "propose" -> IF s.auto THEN Enter(s, "sign") ELSE Finish(FALSE)
    [] s.phase = "sign" -> Enter(s, "execute")
    [] OTHER -> Finish(TRUE)

\* setup-crosschain-tokens goes from mapping to mapping, does not count, and
\* looks for the mapping it has set.
SetupVerdict(s, m) == IF s.phase = "sign" /\ m \in signatures[s.id] THEN "skip" ELSE "send"

NextMapping(s) ==
  IF s.i < Len(Mappings) THEN [Enter(s, "propose") EXCEPT !.i = @ + 1] ELSE Finish(TRUE)

\* Mutant: the mapping is not looked for.
AfterSetupUnverified(s) ==
  CASE s.phase = "propose" -> Enter(s, "fetch")
    [] s.phase = "sign" -> Enter(s, "execute")
    [] OTHER -> NextMapping(s)

AfterSetup(s) ==
  CASE s.phase = "propose" -> Enter(s, "fetch")
    [] s.phase = "sign" -> Enter(s, "execute")
    [] OTHER -> IF crosschainTokens[Mappings[s.i].token] = NoToken THEN Idle ELSE NextMapping(s)

\* Mutant: the KMS key signs the first signature only.
KmsVerdictFirst(t) ==
  LET s == script[t]
  IN  IF Owner[t] \in signatures[s.id] \/ signatureCount[s.id] >= 1 THEN "stop"
      ELSE IF Estimated(t) THEN "send" ELSE "fail"

\* kms-multisig-signer was written for two managers.
KmsVerdict(t) ==
  LET s == script[t]
  IN  IF Owner[t] \in signatures[s.id] \/ signatureCount[s.id] >= 2 THEN "stop"
      ELSE IF Estimated(t) THEN "send" ELSE "fail"

\* Mutant: the signatures are not counted before an execution.
ExecuteVerdictUncounted(t) == IF Estimated(t) THEN "send" ELSE "fail"

\* So was execute-proposal.
ExecuteVerdict(t) == IF signatureCount[script[t].id] >= 2 /\ Estimated(t) THEN "send" ELSE "fail"

Verdict(t) ==
  CASE script[t].run = "register" -> RegisterVerdict(script[t], Owner[t])
    [] script[t].run = "setup" -> SetupVerdict(script[t], Owner[t])
    [] script[t].run = "kms" -> KmsVerdict(t)
    [] script[t].run = "execute" -> ExecuteVerdict(t)
    [] OTHER -> "send"

\* What follows a call that succeeded, or was not needed.
Continue(s) ==
  CASE s.run = "register" -> AfterRegister(s)
    [] s.run = "setup" -> AfterSetup(s)
    [] OTHER -> Finish(s.run = "execute")

\* setup-crosschain-tokens executes even what it could not sign.
Abort(s) == IF s.run = "setup" /\ s.phase = "sign" THEN Enter(s, "execute") ELSE Idle

Acting(t) == ~Done(t) /\ script[t].phase # "fetch" /\ script[t].tx = "none"

Decline(t) ==
  /\ Acting(t)
  /\ LET s == script[t]
     IN  \/ Verdict(t) = "stop" /\ Set(t, Idle)
         \/ (Verdict(t) = "skip" \/ OthersSuffice(t)) /\ Set(t, Continue(s))
         \/ Verdict(t) = "fail" /\ Set(t, Abort(s))
  /\ UNCHANGED <<mulSigVars, pool, announced, strays, faults>>

\* A transaction with the nonce of the pending one may be refused.
Send(t) ==
  /\ Acting(t) /\ Verdict(t) = "send"
  /\ LET s == script[t]
     IN  \/ /\ IF s.run = "kms" THEN Enqueue(Owner[t], Transaction(t)) ELSE Submit(Owner[t], Transaction(t))
            /\ Set(t, [s EXCEPT !.tx = "waiting"])
         \/ /\ s.run # "kms" /\ pool[Owner[t]] # <<>>
            /\ Set(t, Abort(s))
            /\ UNCHANGED pool
  /\ UNCHANGED <<mulSigVars, announced, strays, faults>>

\* Mutant: the proposal announced is the last pending one.
ConfirmLast(t) ==
  LET s == script[t]
  IN  /\ s.tx \in {"mined", "reverted"}
      /\ Set(t, IF s.tx = "mined" THEN Continue(s) ELSE Abort(s))
      /\ announced' = IF s.run = "register" /\ s.phase = "propose" /\ s.tx = "mined"
                      THEN announced \cup {pendingProposals[Len(pendingProposals)]} ELSE announced
      /\ UNCHANGED <<mulSigVars, pool, strays, faults>>

\* register-dapp-node prints the id of the event.
Confirm(t) ==
  LET s == script[t]
  IN  /\ s.tx \in {"mined", "reverted"}
      /\ Set(t, IF s.tx = "mined" THEN Continue(s) ELSE Abort(s))
      /\ announced' = IF s.run = "register" /\ s.phase = "propose" /\ s.tx = "mined"
                      THEN announced \cup {s.id} ELSE announced
      /\ UNCHANGED <<mulSigVars, pool, strays, faults>>

\* setup-crosschain-tokens takes the last pending proposal for its own; without
\* any it goes on to the next mapping.
Fetch(t) ==
  /\ script[t].phase = "fetch"
  /\ Set(t, IF pendingProposals = <<>> THEN NextMapping(script[t])
            ELSE [Enter(script[t], "sign") EXCEPT !.id = pendingProposals[Len(pendingProposals)]])
  /\ UNCHANGED <<mulSigVars, pool, announced, strays, faults>>

\* Nobody waits any longer for what terminal t has sent.
Disowned(t) ==
  pool' = [m \in Wallets |-> [i \in DOMAIN pool[m] |->
             IF pool[m][i].by = t THEN [pool[m][i] EXCEPT !.by = "nobody"] ELSE pool[m][i]]]

\* "Transaction was not mined within ...", which kms-multisig-signer takes for
\* a success.
GiveUp(t) ==
  LET s == script[t]
  IN  /\ s.tx = "waiting"
      /\ IF \E i \in DOMAIN pool[Owner[t]] : pool[Owner[t]][i].by = t THEN Fault ELSE UNCHANGED faults
      /\ Set(t, IF s.run = "kms" THEN Continue(s) ELSE Abort(s))
      /\ Disowned(t)
      /\ UNCHANGED <<mulSigVars, announced, strays>>

\* The terminal is closed, or a call to the node fails.
Crash(t) ==
  /\ ~Done(t)
  /\ Fault
  /\ Set(t, Idle)
  /\ Disowned(t)
  /\ UNCHANGED <<mulSigVars, announced, strays>>

-----------------------------------------------------------------------------

Init ==
  /\ RolesInit /\ BlockTimeInit /\ NoProposals /\ DefaultConfig
  /\ treasures = Treasures
  /\ pool = [m \in Wallets |-> <<>>]
  /\ script = [t \in Terminals |-> Idle]
  /\ announced = {}
  /\ strays = 0 /\ faults = 0

ScriptStep(t) == Decline(t) \/ Send(t) \/ Confirm(t) \/ Fetch(t) \/ GiveUp(t)

Next == \/ \E m \in Wallets : Mine(m) \/ Lose(m)
        \/ Wait
        \/ \E auto \in BOOLEAN : StartRegister(auto)
        \/ StartSetup \/ StartDirect \/ StartKms \/ StartExecute
        \/ \E id \in Ids : SignByHand(id) \/ ExecuteByHand(id)
        \/ \E t \in Terminals : ScriptStep(t) \/ Crash(t)

Spec == Init /\ [][Next]_vars

\* Blocks are produced and scripts go on; a script that has not done its work
\* is run again, and the managers sign what was announced.
FairSpec ==
  /\ Spec
  /\ WF_vars(Wait)
  /\ \A m \in Wallets : WF_vars(Mine(m))
  /\ \A t \in Terminals \ {"setup"} : WF_vars(ScriptStep(t))
  /\ WF_vars(\E auto \in BOOLEAN : StartRegister(auto))
  /\ WF_vars(StartKms) /\ WF_vars(StartExecute)
  /\ SF_vars(\E id \in Ids : SignByHand(id))

-----------------------------------------------------------------------------

Registered == <<Registration.treasure, Registration.dapp>> \in dapps

\* A proposal is executed with the signatures of a majority, though the contract
\* looks at the time lock alone: the scripts count them, and what they counted
\* is still there when the transaction is mined.  setup-crosschain-tokens does
\* not count.
VotedUnlessSetup ==
  [][\A id \in Ids : content[id] # NoContent /\ content'[id] = NoContent =>
       \/ signatureCount[id] >= fmThreshold
       \/ \E m \in Wallets : /\ pool'[m] # pool[m]
                             /\ Head(pool[m]).run = "setup"]_vars

\* "DApp registration completed", as register-dapp-node and execute-proposal
\* report it, whichever proposals were made, signed and executed meanwhile.
ExecutedIsRegistered ==
  \A t \in {"proposer", "executor"} : script[t].executed => Registered

\* setup-crosschain-tokens ends without an error only when every mapping is set,
\* although it signs and executes whichever proposal is the last pending one, and
\* passes over a mapping when none is.
FinishedIsSetUp ==
  script["setup"].executed =>
    \A i \in DOMAIN Mappings : crosschainTokens[Mappings[i].token] # NoToken

\* The DApp gets registered, whatever is lost, replaced, refused, given up or
\* interrupted on the way.
EventuallyRegistered == <>Registered
=============================================================================
