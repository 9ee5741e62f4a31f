----------------------------- MODULE Deployment -----------------------------
(***************************************************************************)
(* Deploying the system: the step scripts of scripts/deploy, run one after *)
(* another by scripts/tasks.sh, against a chain that mines transactions of *)
(* the deployer in the order of their nonces, and a file of recorded       *)
(* addresses that survives a script when the script's memory does not.     *)
(*                                                                         *)
(* A step script is a sequence of operations, in the order of its main();  *)
(* an interpreter runs them.  An address is the nonce of the transaction   *)
(* that creates the contract.  A contract is the name it is recorded under,*)
(* whether it is initialized, and the addresses it was given.              *)
(***************************************************************************)
EXTENDS Naturals, Sequences, SequencesExt, FiniteSets

CONSTANTS Treasures,      \* <<[producer, data]>>: the names of each kind's contracts
          Plan,           \* the steps of the target deploy:base
          SideTargets,    \* the steps of other targets, run after it
          MaxCrashes, MaxRetries, MaxBases, MaxSides      \* bounds for TLC

ASSUME DeploymentAssumption ==
  /\ Treasures \in Seq([producer : STRING, data : STRING])
  /\ {MaxCrashes, MaxRetries, MaxBases, MaxSides} \subseteq Nat

VARIABLES contracts,      \* address -> [key, init, wires], for what has been mined
          mempool,        \* the transactions sent and not yet mined, by nonce
          nonce,          \* how many transactions were sent
          reverted,       \* whether the last transaction mined has reverted
          file,           \* the entries of deployments/<network>.json, newest first;
                          \* << >> also when it is missing or cannot be parsed
          script,         \* the script that runs: its step, position and state
          todo,           \* the steps of the command line not yet started
          done,           \* how many steps of the plan are completed, in order
          listed,         \* is the signer DEPLOYER_ADDR or USER_ADDR?
          crashes, retries, bases, sides     \* what the bounds count

chain == <<contracts, mempool, nonce, reverted>>
operator == <<done, crashes, retries, bases, sides>>
vars == <<chain, file, script, todo, operator, listed>>

-----------------------------------------------------------------------------
(* The operations of the scripts.                                          *)

Op(op, key, args) == [op |-> op, key |-> key, args |-> args]

\* A proxy, uninitialized or initialized with args by its constructor, and then
\* the record of its address.
Proxy(key) == <<Op("proxy", key, {}), Op("record", key, {})>>
Install(key, args) == <<Op("install", key, args), Op("record", key, {})>>

\* A call of initialize, waited for or only sent; a call of a setter.
Initialize(key, args) == <<Op("initialize", key, args)>>
SendInitialize(key, args) == <<Op("sendInitialize", key, args)>>
Wire(key, args) == <<Op("wire", key, args)>>

\* loadState, refusing to go on without an entry, and the check of the names
\* an earlier step must have recorded.
LoadEntry(required) == <<Op("loadEntry", "", {}), Op("require", "", required)>>

Base ==
  <<Op("load", "", {}), Op("startNewEntry", "", {})>>
  \o Proxy("DAO") \o Proxy("MULSIG") \o Proxy("ROLES") \o Proxy("PARAMETER_INFO") \o Proxy("ORACLE")
  \o Initialize("DAO", {}) \o Initialize("PARAMETER_INFO", {"MULSIG"}) \o Initialize("ORACLE", {"ROLES"})

Producers ==
  LoadEntry({"MULSIG", "ROLES", "PARAMETER_INFO", "ORACLE"})
  \o FlattenSeq([i \in DOMAIN Treasures |-> Proxy(Treasures[i].producer) \o Proxy(Treasures[i].data)])
  \o Install("GOVERNANCE", {"DAO", "MULSIG", "ROLES", "PARAMETER_INFO"}
                           \cup UNION {{Treasures[i].producer, Treasures[i].data} : i \in DOMAIN Treasures})
  \o Install("TAT", {"GOVERNANCE"})
  \o FlattenSeq([i \in DOMAIN Treasures |->
       SendInitialize(Treasures[i].producer, {"MULSIG", "ROLES", Treasures[i].data})
       \o SendInitialize(Treasures[i].data,
                         {"ORACLE", "ROLES", "PARAMETER_INFO", Treasures[i].producer, "TAT"})])

TCashStack ==
  LoadEntry({"ROLES", "ORACLE", "TAT"})
  \o Install("TCASH", {}) \o Install("WTCASH", {}) \o Install("WUNIT", {})
  \o Install("TAT_MANAGER", {"ROLES"}) \o Proxy("TCASH_LOAN")
  \o Install("TCASH_AUCTION", {"ROLES", "TCASH", "TCASH_LOAN"})
  \o Wire("TCASH", {"ROLES"}) \o Wire("TCASH", {"ORACLE"})

USTNStack ==
  LoadEntry({"ROLES", "ORACLE", "PARAMETER_INFO"})
  \o Proxy("USTN") \o Proxy("USTN_AUCTION") \o Proxy("USTN_FINANCE")
  \o SendInitialize("USTN_AUCTION", {"ROLES", "USTN", "USTN_FINANCE"})
  \o SendInitialize("USTN_FINANCE", {"ROLES", "PARAMETER_INFO", "ORACLE", "USTN", "USTN_AUCTION"})
  \o SendInitialize("USTN", {"ROLES", "ORACLE", "USTN_AUCTION", "USTN_FINANCE"})

\* "manager" is the grant to a signer who is not a manager; "price" the first
\* oracle prices.
Crosschain ==
  LET needed == {"DAO", "MULSIG", "ROLES", "PARAMETER_INFO", "ORACLE", "GOVERNANCE",
                 "TCASH", "TCASH_LOAN", "TCASH_AUCTION", "TAT"}
  IN  LoadEntry(needed) \o <<Op("code", "", needed)>>
      \o Install("CROSSCHAIN_TOKENS", {}) \o Install("CROSSCHAIN_BRIDGE", {"CROSSCHAIN_TOKENS", "ROLES"})
      \o Wire("CROSSCHAIN_TOKENS", {"MULSIG"})
      \o Initialize("MULSIG", {"DAO", "GOVERNANCE", "ROLES", "PARAMETER_INFO", "CROSSCHAIN_TOKENS"})
      \o Initialize("ROLES", {"MULSIG", "ORACLE", "CROSSCHAIN_BRIDGE", "TCASH", "TCASH_LOAN",
                              "TCASH_AUCTION", "CROSSCHAIN_TOKENS"})
      \o <<Op("minter", "TCASH_LOAN", {})>>
      \o Initialize("TCASH_LOAN", {"TCASH", "ROLES", "PARAMETER_INFO", "ORACLE", "TAT"})
      \o Wire("TCASH_LOAN", {"TCASH_AUCTION"})
      \o <<Op("manager", "ROLES", {}), Op("price", "ORACLE", {}), Op("price", "ORACLE", {})>>

TokenLocker == <<Op("load", "", {})>> \o Install("TOKENLOCKER", {})

WrappedTokens == <<Op("loadEntry", "", {})>> \o Install("WTCASH", {}) \o Install("WUNIT", {})

\* Bid.initialize takes an address and the script passes none.
Bid == <<Op("load", "", {}), Op("noSuchInitializer", "BID", {})>>

Script == [base |-> Base, producers |-> Producers, tcash |-> TCashStack, ustn |-> USTNStack,
           crosschain |-> Crosschain, tokenlocker |-> TokenLocker, wunit_wtcash |-> WrappedTokens,
           bid |-> Bid]

\* The names of the contracts there is one of, and no name.
OtherNames == {"", "DAO", "MULSIG", "ROLES", "PARAMETER_INFO", "ORACLE", "GOVERNANCE", "TAT", "TCASH", "WTCASH",
               "WUNIT", "TAT_MANAGER", "TCASH_LOAN", "TCASH_AUCTION", "USTN", "USTN_AUCTION", "USTN_FINANCE",
               "CROSSCHAIN_TOKENS", "CROSSCHAIN_BRIDGE", "TOKENLOCKER", "BID"}

ASSUME StepsAssumption ==
  /\ Plan \in Seq(DOMAIN Script)
  /\ SideTargets \subseteq Seq(DOMAIN Script)

\* deploy:base runs five steps, and on two networks two more; every other target
\* runs one (package.json).
ASSUME PlanAssumption ==
  LET base == <<"base", "producers", "tcash", "ustn", "crosschain">>
  IN  /\ Plan \in {base, base \o <<"tokenlocker", "wunit_wtcash">>}
      /\ SideTargets \subseteq {<<step>> : step \in DOMAIN Script}

\* Two contracts of the treasures have different names, which nothing else has.
ASSUME NamesAssumption ==
  LET names(i) == {Treasures[i].producer, Treasures[i].data}
  IN  /\ \A i \in DOMAIN Treasures : Treasures[i].producer # Treasures[i].data
      /\ \A i, j \in DOMAIN Treasures : i # j => names(i) \cap names(j) = {}
      /\ \A i \in DOMAIN Treasures : names(i) \cap OtherNames = {}

-----------------------------------------------------------------------------
(* The chain.                                                              *)

NoEntry == [k \in {} |-> 0]

\* One function over another, and a function with one more value.
Over(f, g) == [x \in DOMAIN f \cup DOMAIN g |-> IF x \in DOMAIN f THEN f[x] ELSE g[x]]
Put(f, x, y) == Over([z \in {x} |-> y], f)

Transaction(op, key, address, wires) ==
  [nonce |-> nonce + 1, op |-> op, key |-> key, address |-> address, wires |-> wires]

IsLive(a) == a \in DOMAIN contracts /\ contracts[a].init

\* Mutant: initialize can be called again.
SucceedsAgain(tx) ==
  CASE tx.op = "initialize" -> tx.address \in DOMAIN contracts
    [] tx.op = "wire" -> IsLive(tx.address)
    [] tx.op = "price" -> listed /\ IsLive(tx.address) /\ IsLive(contracts[tx.address].wires["ROLES"])
    [] OTHER -> TRUE

\* initialize is refused the second time, a setter to whoever does not own the
\* contract, a price to whoever is not a feeder.
Succeeds(tx) ==
  CASE tx.op = "initialize" -> tx.address \in DOMAIN contracts /\ ~contracts[tx.address].init
    [] tx.op = "wire" -> IsLive(tx.address)
    [] tx.op = "price" -> listed /\ IsLive(tx.address) /\ IsLive(contracts[tx.address].wires["ROLES"])
    [] OTHER -> TRUE

After(tx) ==
  CASE tx.op \in {"proxy", "install"} ->
         Put(contracts, tx.address, [key |-> tx.key, init |-> tx.op = "install", wires |-> tx.wires])
    [] tx.op = "price" -> contracts
    [] OTHER -> [contracts EXCEPT ![tx.address] =
                   [key |-> @.key, init |-> TRUE, wires |-> Over(tx.wires, @.wires)]]

\* Transactions of one account are mined in the order they were sent in,
\* whether anybody waits for them or not.
Mine ==
  /\ mempool # <<>>
  /\ mempool' = Tail(mempool)
  /\ reverted' = ~Succeeds(Head(mempool))
  /\ contracts' = IF Succeeds(Head(mempool)) THEN After(Head(mempool)) ELSE contracts
  /\ UNCHANGED <<nonce, file, script, todo, operator, listed>>

-----------------------------------------------------------------------------
(* The scripts.                                                            *)

NoScript == [step |-> "", pc |-> 0, entries |-> <<>>, address |-> 0, sent |-> 0]

Running == script.step # ""
Finished == Running /\ script.pc > Len(Script[script.step])
At == Script[script.step][script.pc]
Executing(ops) == Running /\ ~Finished /\ At.op \in ops
Entry == script.entries[1]

\* A script that throws exits with an error and ends the command line (set -e).
Fail == script' = NoScript /\ todo' = <<>>
Go(s) == script' = [s EXCEPT !.pc = @ + 1, !.sent = 0] /\ UNCHANGED todo

StartScript ==
  /\ ~Running /\ todo # <<>>
  /\ script' = [NoScript EXCEPT !.step = Head(todo), !.pc = 1]
  /\ todo' = Tail(todo)
  /\ UNCHANGED <<chain, file, operator, listed>>

\* loadState never fails; a script that needs an entry does.
Load ==
  /\ Executing({"load", "loadEntry"})
  /\ IF At.op = "loadEntry" /\ file = <<>> THEN Fail ELSE Go([script EXCEPT !.entries = file])
  /\ UNCHANGED <<chain, file, operator, listed>>

\* Mutant: the new entry replaces the newest one.
StartNewEntryOver ==
  /\ Executing({"startNewEntry"})
  /\ Go([script EXCEPT !.entries = <<NoEntry>> \o (IF @ = <<>> THEN @ ELSE Tail(@))])
  /\ UNCHANGED <<chain, file, operator, listed>>

\* The new entry is in memory until something is recorded in it.
StartNewEntry ==
  /\ Executing({"startNewEntry"})
  /\ Go([script EXCEPT !.entries = <<NoEntry>> \o @])
  /\ UNCHANGED <<chain, file, operator, listed>>

\* Names an earlier step must have recorded; code at their addresses; the
\* roles of the loan contract; the signer's own role, which only the multisig
\* could grant.
Check ==
  /\ Executing({"require", "code", "minter", "manager"})
  /\ IF \/ At.op = "require" /\ At.args \subseteq DOMAIN Entry
        \/ At.op = "code" /\ \A k \in At.args : Entry[k] \in DOMAIN contracts
        \/ At.op = "minter" /\ LET held == contracts[Entry["ROLES"]].wires
                               IN  At.key \in DOMAIN held /\ held[At.key] = Entry[At.key]
        \/ At.op = "manager" /\ listed
     THEN Go(script) ELSE Fail
  /\ UNCHANGED <<chain, file, operator, listed>>

\* Mutant: the address recorded is the one before.
RecordLate ==
  /\ Executing({"record"})
  /\ LET entries == <<Put(Entry, At.key, script.address - 1)>> \o Tail(script.entries)
     IN  file' = entries /\ Go([script EXCEPT !.entries = entries])
  /\ UNCHANGED <<chain, operator, listed>>

\* Mutant: what is recorded is not saved.
RecordInMemory ==
  /\ Executing({"record"})
  /\ Go([script EXCEPT !.entries = <<Put(Entry, At.key, script.address)>> \o Tail(@)])
  /\ UNCHANGED <<chain, file, operator, listed>>

\* record replaces an address recorded under the same name and writes the whole
\* file; without an entry it throws, and the contract stays unrecorded.
Record ==
  /\ Executing({"record"})
  /\ IF script.entries = <<>>
     THEN Fail /\ UNCHANGED file
     ELSE LET entries == <<Put(Entry, At.key, script.address)>> \o Tail(script.entries)
          IN  file' = entries /\ Go([script EXCEPT !.entries = entries])
  /\ UNCHANGED <<chain, operator, listed>>

Creates == {"proxy", "install", "noSuchInitializer"}
Calls == {"initialize", "sendInitialize", "wire", "price"}

\* Mutant: nothing is ever waited for.
SendOnly ==
  /\ Executing(Creates \cup Calls) /\ script.sent = 0
  /\ LET tx == Transaction(IF At.op = "sendInitialize" THEN "initialize" ELSE At.op, At.key,
                           IF At.op \in Creates THEN nonce + 1 ELSE Entry[At.key],
                           [k \in At.args |-> Entry[k]])
     IN  IF At.op = "noSuchInitializer" \/ ~Succeeds(tx)
         THEN Fail /\ UNCHANGED <<mempool, nonce>>
         ELSE /\ mempool' = Append(mempool, tx)
              /\ nonce' = nonce + 1
              /\ Go([script EXCEPT !.address = tx.address])
  /\ UNCHANGED <<contracts, reverted, file, operator, listed>>

\* A call is simulated before it is sent, and refused if it would revert now.
Send ==
  /\ Executing(Creates \cup Calls) /\ script.sent = 0
  /\ LET tx == Transaction(IF At.op = "sendInitialize" THEN "initialize" ELSE At.op, At.key,
                           IF At.op \in Creates THEN nonce + 1 ELSE Entry[At.key],
                           [k \in At.args |-> Entry[k]])
     IN  IF At.op = "noSuchInitializer" \/ ~Succeeds(tx)
         THEN Fail /\ UNCHANGED <<mempool, nonce>>
         ELSE /\ mempool' = Append(mempool, tx)
              /\ nonce' = nonce + 1
              /\ IF At.op = "sendInitialize"
                 THEN Go(script)
                 ELSE script' = [script EXCEPT !.sent = nonce + 1, !.address = tx.address] /\ UNCHANGED todo
  /\ UNCHANGED <<contracts, reverted, file, operator, listed>>

\* tx.wait().
Await ==
  /\ Running /\ script.sent # 0
  /\ \A i \in DOMAIN mempool : mempool[i].nonce # script.sent
  /\ IF reverted THEN Fail ELSE Go(script)
  /\ UNCHANGED <<chain, file, operator, listed>>

Finish ==
  /\ Finished
  /\ script' = NoScript
  /\ done' = IF done < Len(Plan) /\ Plan[done + 1] = script.step THEN done + 1 ELSE done
  /\ UNCHANGED <<chain, file, todo, crashes, retries, bases, sides, listed>>

\* The machine or the connection goes down; writeFileSync empties the file
\* before it fills it.
Crash ==
  /\ Running \/ todo # <<>>
  /\ crashes < MaxCrashes
  /\ crashes' = crashes + 1
  /\ Fail
  /\ file' \in {file} \cup IF Executing({"record"}) THEN {<<>>} ELSE {}
  /\ UNCHANGED <<chain, done, retries, bases, sides, listed>>

-----------------------------------------------------------------------------
(* The operator, who is done when the plan has completed.                  *)

AtPrompt == ~Running /\ todo = <<>>

\* The plan is run again from the first step that has not completed, or from
\* the step before it.
Resume(i) ==
  /\ AtPrompt
  /\ done < Len(Plan) /\ i \in {done, done + 1} \ {0, 1}
  /\ retries < MaxRetries
  /\ retries' = retries + 1
  /\ done' = i - 1
  /\ todo' = SubSeq(Plan, i, Len(Plan))
  /\ UNCHANGED <<chain, file, script, crashes, bases, sides, listed>>

StartOver ==
  /\ AtPrompt
  /\ done < Len(Plan)
  /\ bases < MaxBases
  /\ bases' = bases + 1
  /\ retries' = 0
  /\ done' = 0
  /\ todo' = Plan
  /\ UNCHANGED <<chain, file, script, crashes, sides, listed>>

\* Another target, when the plan has completed.  If it runs a step of the plan
\* again, that step and the later ones are to be completed again.
RunTarget(steps) ==
  /\ AtPrompt
  /\ done = Len(Plan)
  /\ sides < MaxSides
  /\ sides' = sides + 1
  /\ todo' = steps
  /\ done' = Min({done} \cup {i - 1 : i \in {i \in DOMAIN Plan : Contains(steps, Plan[i])}})
  /\ UNCHANGED <<chain, file, script, crashes, retries, bases, listed>>

Init ==
  /\ contracts = [a \in {} |-> NoEntry]
  /\ mempool = <<>> /\ nonce = 0 /\ reverted = FALSE
  /\ file = <<>>
  /\ script = NoScript /\ todo = <<>>
  /\ done = 0
  /\ listed \in BOOLEAN
  /\ crashes = 0 /\ retries = 0 /\ bases = 0 /\ sides = 0

ScriptStep == StartScript \/ Load \/ StartNewEntry \/ Check \/ Record \/ Send \/ Await \/ Finish

OperatorStep == StartOver \/ \E i \in 2..Len(Plan) : Resume(i)

Next == \/ Mine
        \/ ScriptStep
        \/ Crash
        \/ OperatorStep
        \/ \E steps \in SideTargets : RunTarget(steps)

Spec == Init /\ [][Next]_vars

\* Blocks are produced, a script that is not killed goes on, and the operator
\* does not leave a deployment that has not completed.
FairSpec == Spec /\ WF_vars(Mine) /\ WF_vars(ScriptStep) /\ WF_vars(OperatorStep)

-----------------------------------------------------------------------------

\* Every recorded address is that of a contract of that name that has been
\* mined, whatever was interrupted or run again (record).
RecordsAreDeployed ==
  \A i \in DOMAIN file : \A k \in DOMAIN file[i] :
    file[i][k] \in DOMAIN contracts /\ contracts[file[i][k]].key = k

\* The names a contract recorded under key is given by the steps of the plan.
GivenBy(key) ==
  UNION {UNION {Script[Plan[i]][j].args : j \in {j \in DOMAIN Script[Plan[i]] : Script[Plan[i]][j].key = key}} :
           i \in DOMAIN Plan}

CrosschainDone == \E i \in 1..done : Plan[i] = "crosschain"

\* When the step crosschain has completed, every contract of the newest entry,
\* if it can still be read, is initialized, the ones nobody waited for included,
\* and has been given the addresses of that same entry: no contract of an
\* interrupted run is left in the wiring.
CompleteIsWired ==
  CrosschainDone /\ file # <<>> =>
    \A k \in DOMAIN file[1] :
      LET c == contracts[file[1][k]]
      IN  /\ c.init
          /\ DOMAIN c.wires = GivenBy(k)
          /\ \A d \in DOMAIN c.wires : c.wires[d] = file[1][d]

\* What is recorded stays recorded, in the entry it was recorded in, unless it
\* is replaced by a newer contract of that name or the write was torn.
RecordsAreKept ==
  [][\/ file' = <<>>
     \/ LET fresh == Len(file') - Len(file)
        IN  /\ fresh \in {0, 1}
            /\ \A i \in DOMAIN file : \A k \in DOMAIN file[i] :
                 k \in DOMAIN file'[i + fresh] /\ file'[i + fresh][k] >= file[i][k]]_file

\* The multisig of the newest entry was initialized by a run of crosschain that
\* did not complete.
Stranded ==
  /\ AtPrompt /\ ~CrosschainDone
  /\ file # <<>> /\ "MULSIG" \in DOMAIN file[1]
  /\ IsLive(file[1]["MULSIG"])

\* Resuming never completes such an entry, since the multisig refuses to be
\* initialized again: only starting over does (crosschain.js, MulSig.initialize).
StrandedNeedsNewEntry ==
  \A b \in 1..MaxBases :
    [](Stranded /\ bases = b => [](CrosschainDone => bases > b))

\* However often it is interrupted, a deployment by a signer who is among the
\* configured managers completes, if the operator starts over when resuming
\* does not help.
EventuallyDeployed == listed => <>(done = Len(Plan))
=============================================================================
