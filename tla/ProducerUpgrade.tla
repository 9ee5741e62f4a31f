-------------------------- MODULE ProducerUpgrade --------------------------
(***************************************************************************)
(* Upgrading the producers of a live network by hand, with three scripts:  *)
(* manual-upgrade-producers deploys new implementations, its output goes   *)
(* into the configuration of upgrade-via-proxyadmin, which points the      *)
(* proxies at them, and fix-mulsig-addresses then gives every producer the *)
(* multisig.  Each script goes through the kinds one by one, survives what *)
(* fails, and reports an outcome for each.                                 *)
(*                                                                         *)
(* Two wallets sign: "owner" owns the ProxyAdmin, "manager" deploys and    *)
(* fixes.  Every send asks for the nonce of the last mined block, so what a*)
(* wallet has pending is at most one transaction: a later one takes its    *)
(* place or is refused.  A script that waits too long reports a failure,   *)
(* and its transaction may still be mined.                                 *)
(***************************************************************************)
EXTENDS Naturals, Sequences

CONSTANTS KindList,          \* the treasure kinds, in the order of the scripts
          MaxVersions,    \* bound: runs of manual-upgrade-producers
          MaxFaults       \* bound: calls that fail, transactions lost, timeouts, crashes

ASSUME UpgradeAssumption ==
  /\ KindList \in Seq(STRING)
  /\ \A i, j \in DOMAIN KindList : KindList[i] = KindList[j] => i = j
  /\ {MaxVersions, MaxFaults} \subseteq Nat

KindSet == {KindList[i] : i \in DOMAIN KindList}
Wallets == {"owner", "manager"}

VARIABLES impl,         \* kind -> the run that deployed its implementation; 0: the
                        \* original one, without setMulSigContract
          mulSig,       \* the kinds whose producer has the multisig
          registered,   \* the kinds governance knows a producer of
          managers,     \* the wallets that hold FOUNDATION_MANAGER
          pending,      \* wallet -> the transactions in the pool
          config,       \* UPGRADES: kind -> the new implementation; 0: none filled in
          script,       \* wallet -> the script it runs or has run last
          versions, faults

network == <<impl, mulSig, registered, managers>>
vars == <<network, pending, config, script, versions, faults>>

Idle == [run |-> "none", phase |-> "done", i |-> 1, plan |-> <<>>, needs |-> {},
         results |-> [k \in KindSet |-> ""], working |-> {}, outcome |-> ""]

Start(w, run, phase, plan) ==
  script' = [script EXCEPT ![w] = [Idle EXCEPT !.run = run, !.phase = phase, !.plan = plan]]

Done(w) == script[w].phase = "done"
Fault == faults < MaxFaults /\ faults' = faults + 1

-----------------------------------------------------------------------------
(* The network.                                                            *)

Transaction(s, k) == [run |-> s.run, kind |-> k, version |-> IF k \in DOMAIN s.plan THEN s.plan[k] ELSE 0]

\* setMulSigContract exists in the new implementations only, for managers.
Succeeds(w, tx) == tx.run = "fix" => w \in managers /\ impl[tx.kind] > 0

Settle(w, outcome) ==
  script' = IF script[w].phase = "wait" THEN [script EXCEPT ![w].outcome = outcome] ELSE script

Mine(w) ==
  \E tx \in pending[w] :
    /\ pending' = [pending EXCEPT ![w] = @ \ {tx}]
    /\ Settle(w, IF Succeeds(w, tx) THEN "success" ELSE "failed")
    /\ impl' = IF tx.run = "upgrade" THEN [impl EXCEPT ![tx.kind] = tx.version] ELSE impl
    /\ mulSig' = IF tx.run = "fix" /\ Succeeds(w, tx) THEN mulSig \cup {tx.kind} ELSE mulSig
    /\ UNCHANGED <<registered, managers, config, versions, faults>>

\* A transaction is evicted from the pool.
Lose(w) ==
  /\ pending[w] # {}
  /\ Fault
  /\ pending' = [pending EXCEPT ![w] = {}]
  /\ UNCHANGED <<network, config, script, versions>>

\* The multisig grants or revokes the role.
ChangeManagers(ms) ==
  /\ managers' = ms
  /\ UNCHANGED <<impl, mulSig, registered, pending, config, script, versions, faults>>

-----------------------------------------------------------------------------
(* What the operators do.                                                  *)

StartDeploy ==
  /\ Done("manager")
  /\ versions < MaxVersions
  /\ versions' = versions + 1
  /\ Start("manager", "deploy", "act", [k \in KindSet |-> versions + 1])
  /\ UNCHANGED <<network, pending, config, faults>>

\* The addresses deployed are copied into UPGRADES: each into its place, or as
\* the template the script prints, which has no entry for a kind that failed.
Configure ==
  LET s == script["manager"]
      deployed == {k \in KindSet : s.results[k] = "success"}
      Filled(S) == [k \in S |-> IF k \in deployed THEN s.plan[k] ELSE config[k]]
  IN  /\ Done("manager") /\ s.run = "deploy" /\ deployed # {}
      /\ config' \in {Filled(deployed), Filled(deployed \cup DOMAIN config)}
      /\ UNCHANGED <<network, pending, script, versions, faults>>

\* Entries without an address are refused before anything is sent.
StartUpgrade ==
  /\ Done("owner")
  /\ \A k \in DOMAIN config : config[k] # 0
  /\ Start("owner", "upgrade", "read", config)
  /\ UNCHANGED <<network, pending, config, versions, faults>>

StartFix ==
  /\ Done("manager")
  /\ "manager" \in managers
  /\ Start("manager", "fix", "act", <<>>)
  /\ UNCHANGED <<network, pending, config, versions, faults>>

-----------------------------------------------------------------------------
(* The scripts.                                                            *)

Kind(s) == KindList[s.i]
Advance(s, result) ==
  [s EXCEPT !.results[Kind(s)] = result, !.i = @ + 1, !.phase = "act", !.outcome = ""]
Acting(w) == script[w].phase = "act" /\ script[w].i \in DOMAIN KindList
Set(w, s) == script' = [script EXCEPT ![w] = s]

\* needsUpgrade, true also for a kind whose implementation could not be read.
Read(w) ==
  /\ script[w].phase = "read"
  /\ \E unread \in SUBSET KindSet :
       /\ IF unread = {} THEN UNCHANGED faults ELSE Fault
       /\ LET s == script[w]
          IN  Set(w, [s EXCEPT !.phase = "act",
                               !.needs = {k \in DOMAIN s.plan : k \in unread \/ impl[k] # s.plan[k]}])
  /\ UNCHANGED <<network, pending, config, versions>>

\* What a script does about kind k: nothing, give it up, or send.  The gas
\* estimate of a call that would revert fails.
Decision(s, k) ==
  CASE s.run = "deploy" -> "send"
    [] s.run = "upgrade" -> IF k \notin DOMAIN s.plan THEN ""
                            ELSE IF k \in s.needs THEN "send" ELSE "skipped"
    [] s.run = "fix" -> IF k \notin registered THEN "skipped"
                        ELSE IF impl[k] = 0 THEN "failed"
                        ELSE IF k \in mulSig THEN "skipped"
                        ELSE IF "manager" \in managers THEN "send" ELSE "failed"

Skip(w) ==
  /\ Acting(w)
  /\ LET s == script[w]
         decision == Decision(s, Kind(s))
     IN  decision # "send" /\ Set(w, Advance(s, decision))
  /\ UNCHANGED <<network, pending, config, versions, faults>>

\* A call to the node fails.
CallFails(w) ==
  /\ Acting(w)
  /\ Fault
  /\ Set(w, Advance(script[w], "failed"))
  /\ UNCHANGED <<network, pending, config, versions>>

\* Mutant: a transaction does not take the place of the pending one.
SendBeside(w) ==
  /\ Acting(w)
  /\ LET s == script[w]
     IN  /\ Decision(s, Kind(s)) = "send"
         /\ pending' = [pending EXCEPT ![w] = @ \cup {Transaction(s, Kind(s))}]
         /\ Set(w, [s EXCEPT !.phase = "wait"])
  /\ UNCHANGED <<network, config, versions, faults>>

Send(w) ==
  /\ Acting(w)
  /\ LET s == script[w]
     IN  /\ Decision(s, Kind(s)) = "send"
         /\ \/ /\ pending' = [pending EXCEPT ![w] = {Transaction(s, Kind(s))}]
               /\ Set(w, [s EXCEPT !.phase = "wait"])
            \/ /\ pending[w] # {}
               /\ Set(w, Advance(s, "failed"))
               /\ UNCHANGED pending
  /\ UNCHANGED <<network, config, versions, faults>>

Confirm(w) ==
  /\ script[w].phase = "wait" /\ script[w].outcome # ""
  /\ Set(w, Advance(script[w], script[w].outcome))
  /\ UNCHANGED <<network, pending, config, versions, faults>>

\* Mutant: a transaction that is not mined in time counts as sent.
GiveUpQuietly(w) ==
  /\ script[w].phase = "wait" /\ script[w].outcome = ""
  /\ IF pending[w] = {} THEN UNCHANGED faults ELSE Fault
  /\ Set(w, Advance(script[w], "success"))
  /\ UNCHANGED <<network, pending, config, versions>>

\* "Transaction was not mined within ...": the transaction may still be mined.
GiveUp(w) ==
  /\ script[w].phase = "wait" /\ script[w].outcome = ""
  /\ IF pending[w] = {} THEN UNCHANGED faults ELSE Fault
  /\ Set(w, Advance(script[w], "failed"))
  /\ UNCHANGED <<network, pending, config, versions>>

\* Mutant: the new function is tried with the multisig the producer has.
FinishFixed(w) ==
  /\ script[w].phase = "act" /\ script[w].i > Len(KindList)
  /\ LET s == script[w]
     IN  Set(w, [s EXCEPT !.phase = "done",
                          !.working = {k \in DOMAIN s.plan : k \in mulSig /\ impl[k] = s.plan[k]}])
  /\ UNCHANGED <<network, pending, config, versions, faults>>

\* The run is over.  upgrade-via-proxyadmin also tries setMulSigContract, from
\* its own wallet, on every proxy that has its new implementation.
Finish(w) ==
  /\ script[w].phase = "act" /\ script[w].i > Len(KindList)
  /\ \E unread \in SUBSET KindSet :
       /\ IF unread = {} THEN UNCHANGED faults ELSE script[w].run = "upgrade" /\ Fault
       /\ LET s == script[w]
          IN  Set(w, [s EXCEPT !.phase = "done",
                               !.working = {k \in DOMAIN s.plan : /\ s.run = "upgrade" /\ w \in managers
                                                                  /\ impl[k] = s.plan[k]} \ unread])
  /\ UNCHANGED <<network, pending, config, versions>>

Crash(w) ==
  /\ ~Done(w)
  /\ Fault
  /\ Set(w, Idle)
  /\ UNCHANGED <<network, pending, config, versions>>

-----------------------------------------------------------------------------

Init ==
  /\ impl = [k \in KindSet |-> 0]
  /\ mulSig = {}
  /\ registered \in SUBSET KindSet
  /\ managers \in SUBSET Wallets
  /\ pending = [w \in Wallets |-> {}]
  /\ config = [k \in KindSet |-> 0]
  /\ script = [w \in Wallets |-> Idle]
  /\ versions = 0 /\ faults = 0

ScriptStep(w) == Read(w) \/ Skip(w) \/ Send(w) \/ Confirm(w) \/ GiveUp(w) \/ Finish(w)

Next == \/ \E w \in Wallets : Mine(w) \/ Lose(w) \/ ScriptStep(w) \/ CallFails(w) \/ Crash(w)
        \/ \E ms \in SUBSET Wallets : ChangeManagers(ms)
        \/ StartDeploy \/ Configure \/ StartUpgrade \/ StartFix

Spec == Init /\ [][Next]_vars

\* "Upgrades succeeded! You can now set the _mulSig address", if the new
\* function has worked for some kind.
Told == Done("owner") /\ script["owner"].working # {}

\* Blocks are produced and scripts go on; the owner runs the upgrade again and
\* again, the manager the fix whenever the upgrade says so.
FairSpec ==
  /\ Spec
  /\ \A w \in Wallets : WF_vars(Mine(w)) /\ WF_vars(ScriptStep(w))
  /\ WF_vars(StartUpgrade)
  /\ SF_vars(Told /\ StartFix)

-----------------------------------------------------------------------------

\* No proxy goes back to an implementation deployed earlier than the one it has,
\* though a transaction given up for lost may be mined during a later run with
\* newer implementations (upgrade-via-proxyadmin).
NeverDowngrades == [][\A k \in KindSet : impl'[k] >= impl[k]]_impl

\* What a run has reported about a kind stays true: one it upgraded or found
\* upgraded has that implementation or a newer one, one it fixed or found
\* fixed has the multisig.
ReportsHold ==
  \A w \in Wallets : \A k \in KindSet :
    LET s == script[w]
    IN  s.results[k] \in {"success", "skipped"} =>
          /\ s.run = "upgrade" => impl[k] >= s.plan[k]
          /\ s.run = "fix" => k \in mulSig \/ k \notin registered

ConfigComplete == DOMAIN config = KindSet /\ \A k \in KindSet : config[k] # 0

\* Once every kind has its new implementation in the configuration, and both
\* wallets are managers for good, every producer that governance knows gets
\* the multisig, whatever was lost, given up or interrupted on the way.
EventuallyFixed ==
  <>[](ConfigComplete /\ managers = Wallets) => <>(registered \subseteq mulSig)
=============================================================================
