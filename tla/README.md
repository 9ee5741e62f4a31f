# A verification project for the Treasurenet smart contracts

TLA+ specifications of the contracts under `src/contracts/` and of the scripts under
`src/scripts/` that deploy, upgrade and operate them, TLC instances that
check them, and TLAPS proofs about them. The reference is the code (Solidity 0.8.10 and JavaScript),
read with its tests (`src/test/`), its documentation (`src/docs/`) and the design
document of the lending system (`src/tcash.md`). Where the code and a document
disagree, the modules follow the code.

One transaction is one step: the EVM runs external calls one after another, and a
transaction that reverts changes nothing. An operation is therefore an action whose
guard collects every `require`, every checked subtraction (0.8 reverts on underflow),
every division by zero and every revert of a contract it calls. What interleaves is the
order of transactions of different accounts, the passing of time, and the moving of
prices. Nothing is assumed of that order.

A script is different: between any two of its calls it may be killed, its transaction
may wait, get lost or be replaced, and another script may act. There, one step is what a process does between two
calls of the network, and a transaction is sent in one step and mined in another.

## Inventory

### TCash lending

| part | state | operations | interacts with |
|---|---|---|---|
| `TCash.sol` | balances, locked balances; the mint status is the oracle's | transfer, mint, burn, burnFrom, addBalance, reduceBalance; bidCost and bidBack for the auction contract | Oracle (mint status), Roles, auction contract, loan contract |
| `TCashAuction.sol` | the list of auctions, leader, accumulated bids, duration | auctionStart (loan contract), bid, bidWithdrawal, getAuction, upgradeState, updateBidDuration | TCash (locks, burns), TCashLoan (auctionOver) |
| `TCashLoan.sol` | loans, per-borrower limits and counters, system totals, cached risk factor, the UNIT it holds | createLoan, setRecord, repay, collateralTopUp, interestCalculation, startLiquidation, setLoanStatus, auctionOver, getSRF, evaluateMaxBorrowable, setAuctionContract | TCash (mint, burnFrom), TCashAuction (auctionStart), Oracle (prices), TAT record, ParameterInfo |
| `TATManager.sol` | TAT records kept by hand | setTATRecord | read by the loan book |

The hard behaviour: a loan is kept in four places (its record, the borrower's limit and
counters, the system totals, an auction), and repay, top-up, interest, liquidation and
the end of an auction each touch a different subset in any order. It is correct when
the subsets differ by exactly what is known to have been sold or written off, when no
legal sequence makes a checked subtraction fail that should succeed, and when an
auction keeps its leader, its price and the locked TCash together.

### Governance

| part | state | operations | interacts with |
|---|---|---|---|
| `Roles.sol` | role members, an admin role per role | grantRole, revokeRole, renounceRole (OpenZeppelin) | everything |
| `MulSig.sol` | proposals, signatures, counts, time locks, pending list | six propose calls, signTransaction, executeProposal, deleteProposals | Roles, Governance, ParameterInfo, CrosschainTokens, Producer |
| `Governance.sol` | treasures | addTreasure, fmThreshold | Roles |
| `ParameterInfo.sol` | platform configuration, discount curve | setPlatformConfig, setPriceDiscountConfig | read everywhere |
| `CrosschainTokens.sol` | the addresses of a token on each chain | setCrosschainToken | the bridge |
| `DAO.sol`, `GovernorUpgradeable.sol` | proposals with their blocks and flags, time stamps, stakes, who has voted, tallies, settings, the native balance | propose (with calls, or manual with a vote), castVote, queue, execute, manualExecuted, withdraw, the setters and relay through execution | accounts (native token), any contract a proposal calls |

Correct when a vote is counted once, the pending list holds exactly the proposals that
can still run, and nothing runs twice, although the set of voters, and so the threshold,
changes while votes are open, sometimes by the very proposal being executed. The DAO is correct when
a tally is final at its deadline and is made of stakes, a stake is paid back once, and a proposal is
executed once, although what its state reads as depends on clock, block number and settings that
other proposals change.

### Token locker

| part | state | operations | interacts with |
|---|---|---|---|
| `TokenLocker.sol` | managers, total added, total available, plans, an array of records per account, and per plan the accounts and the positions at which their records were appended | setManagerAccount, delManagerAccount, addLockedToken, withdrawLockedToken, setPlan, delPlan, setLockedRecord, deleteLockedRecord, claimToken | accounts (pays UNIT) |

The hard behaviour: claims and deletions take records out of an array by moving the last one
into the gap, while plans refer to records by position. It is correct when the plan's account list
and its positions stay together, what a plan has allocated covers what can still be claimed from it, and a
claim pays exactly what it removes.

### USTN bank

| part | state | operations | interacts with |
|---|---|---|---|
| `USTN.sol` | balances, total supply | transfer, mint, mintBack, addBalance, reduceBalance; bidCost, bidBack and burn for the auctions; addTotalSupply and reduceTotalSupply for the bank | Oracle (prices), Roles (auction manager) |
| `USTNAuction.sol` | the list of auctions, leader, accumulated bids | auctionStart (bank), bid, bidWithdrawal, getAuction, upgradeState | USTN, USTNFinance (auctionOver) |
| `USTNFinance.sol` | deposits, their time and points, lending limit, interest to hand out, interest counted as owed, loans, the UNIT it holds | deposit, withdrawal, distributeDepositInterest, loans, addLoans, loansBack, liquidation, auctionOver, four calls that pass on to the token | USTN, USTNAuction, Oracle, ParameterInfo |

The hard behaviour: one limit is moved by deposits, withdrawals, loans, partial and whole repayments and the
end of auctions, each by a part of an amount that interest has been added to meanwhile; interest is kept in the
loan, in the sum owed, in the sum to hand out and in the supply; liquidation passes over all loans twice. It is
correct when those agree, and when no subtraction long after, such as that of `auctionOver`, fails.

### Producers

| part | state | operations | interacts with |
|---|---|---|---|
| `Producer.sol` and its four kinds | the producers, their status, registered DApps | addProducer, setProducerStatus, updateProdcuer, registerDAppConnect (multisig) | Share (which it is), ProductionData (requests), MulSig |
| `Share.sol` | owner, holders with ratio and position, the list of their addresses, totals | setHolders, splitHolder, deleteHolder, calculateRewards | holders |
| `ProductionData.sol` and `OilData`, `GasData`, `BtcData`, `EthData` | asset values, trusted and uploaded data with their status, request ids | registerAssetValueRequest, receiveAssetValue, receiveTrustedProductionData, setProductionData, clearing | Oracle, Producer, TAT (mint and record), Expense (which it is) |
| `Expense.sol` | margin or debt of depositors, the UNIT it holds | prepay, withdraw, penalty, UNIT sent to it | depositors |
| `OracleClient.sol`, requests of `Oracle.sol` | nonce, commitments | create, cancel | the feeder, off chain |

The hard behaviour: data comes from two sources in any order, answers come late or twice, a status change makes or drops
the request an answer must name, and clearing a month is one transaction through five contracts in which any holder with a share
of nothing makes everything fail. It is correct when a month is paid once, for what its audit says, when
every normal depositor can be paid its margin, and when every holder stands once in the list that rewards are paid along.

### Operating scripts

| part | state | operations | interacts with |
|---|---|---|---|
| `scripts/deploy/*.js`, `tasks.sh` | `deployments/<network>.json`: the addresses recorded, in an entry per deployment; of a script, the step it is at | seven steps that deploy proxies, record them, initialize them and wire them to recorded addresses | the chain, the file |
| `manual-upgrade-producers.js`, `upgrade-via-proxyadmin.js`, `fix-mulsig-addresses.js` | the configuration filled in by hand from the first one's output; outcomes per kind | deploy implementations; point proxies at them; set the multisig of each producer | ProxyAdmin, producers, Governance |
| `register-dapp-node.js`, `setup-crosschain-tokens.js` (and its `execute-` variant), `direct-register-dapp.js`, `kms-multisig-signer.js`, `execute-proposal.js`, `aws-multisig-runner.js` | the transaction a script waits for, the proposal it is about, what it has reported | propose, sign, execute, with and without counting signatures and waiting for the time lock | MulSig, the pool, the wallets' nonces |

The hard behaviour: a script's memory dies with it, the chain and the file do not, and each is written at another moment; a
transaction given up for lost may be mined when a newer one has been sent; two terminals share a wallet's nonces; a script
acts on a proposal that is not its own. The scripts are correct when what they record and report is true and stays true, and when running
them again finishes the work.

### Not modelled

| part | what makes it hard | why not |
|---|---|---|
| `Crosschain/CrosschainBridge.sol` | the relayer may repeat, delay or lose a call; expiry races with confirmation | next in the plan |
| `Crosschain/gravity.sol`, `cosmosToken.sol` | submissions out of order, late, or by an outdated validator set | in the plan |
| `Airdrop/` | ratios change between months; its own proposals | in the plan |
| `Bid/`, `TAT/` | rounds counted in blocks; a buffer of three months of records and stakes | small, and only `TAT.mint` and `setTATRecord` are called by what is modelled |
| currency values, prices and symbols of `Oracle.sol`, `TATManager.sol`, `SampleDAO.sol`, `WUNIT/`, `WTCASH/` | stores that are written and read | what reads them takes any value |
| `scripts/upgrade/*.js`, `upgrade-tcashloan.js` | | each exports a function that `npx hardhat run` never calls: running them does nothing |
| `kms-contract-caller.js`, `simple-multisig-call.js`, `register-dapp-multisig.js` | | the first two send nothing to a contract of the system, the last is an earlier form of `register-dapp-node.js`; the format of KMS signatures is left out with them |
| `check-*.js`, `debug-*.js`, `diagnose-*.js`, `find-proxyadmin.js`, `verify-*.js` | | they read and print |
| `src/contracts/mocks`, `src/test` | | test doubles and tests |

## Modules

| module | models | how |
|---|---|---|
| `BlockTime` | `block.timestamp` | `now`, advanced by `Tick` up to `MaxTime` |
| `TCash` | `TCash.sol` with the oracle's mint status | one operator per call that other contracts or accounts make; the callers' modules compose them |
| `TCashAuction` | `TCashAuction.sol` over `TCash` | one action per external function, calls of the token inlined as the operators of `TCash`; `AuctionSpec` runs it with any lots the loan contract might list |
| `Sale` | the abstract specification: an ascending auction of a set of lots | `Offer`, `Raise`, `Hammer`, `Hand` |
| `TCashAuctionSale` | the refinement mapping | a lot is an index of `auctionList`; its price is `nowValue`; its stage is the state |
| `TCashLoan` | `TCashLoan.sol` over `TCash` | one action per external function; `LoanSpec` runs it alone, with no auction contract wired in |
| `TCashLending` | loan book and auctions together | `_calculateInterest` and `startLiquidation` list a lot in the same step, `getAuction` calls `auctionOver` in the same step |
| `Roles` | `Roles.sol` | seven roles as four, by who administers them |
| `MulSig` | `MulSig.sol` with the registries it changes | one action per external function; the six propose calls are one action over the contents in `Agenda`; each registry setter is an operator with its own refusal |
| `MulSigClaims` | a sentence about the multisig that the code does not satisfy | a property of `MulSig` |
| `USTN` | `USTN.sol` with the oracle's prices | one operator per call; `Move` is the transfer all of them make |
| `USTNAuction` | `USTNAuction.sol` over `USTN` | one action per external function; `AuctionStart` lists the loans of a liquidation in their order |
| `USTNFinance` | `USTNFinance.sol` with token and auctions | one action per external function; `Liquidation` is both passes, `Collect` is `getAuction` with `auctionOver` |
| `USTNSale` | the refinement mapping of `Sale` | as `TCashAuctionSale`; a liquidation may offer several lots at once |
| `DAO` | `GovernorUpgradeable.sol` and `DAO.sol` | one action per external function; the two forms of `propose` are two actions; `State` is `state` |
| `Ballot` | the abstract specification: a question is open, closed, queued, done | `Ask`, `Vote`, `Close`, `Carry`, `Do` |
| `DAOBallot` | the refinement mapping | a proposal is open until its deadline has passed |
| `TokenLocker` | `TokenLocker.sol` | one action per external function; the loop of `claimToken` is a function of the number of positions visited, from the last to the first |
| `Share`, `Expense`, `OracleRequests` | the contracts of these names, for one producer, one data contract, one client | one action per call; no specification of their own |
| `Treasure` | `Producer.sol` and `ProductionData.sol` with the kinds, over the three above | one action per call; a clearing is `Penalty` and `RewardByShare` in the same step |
| `Deployment` | `scripts/deploy`, `utils.js`, `tasks.sh`, a chain and the file | a step script is a sequence of operations in the order of its `main`; an interpreter runs them one by one |
| `ProducerUpgrade` | the three upgrade scripts, two wallets and a chain | one action per call of the network; `Kind` and `Advance` are the scripts' loop over the kinds |
| `Operators` | five scripts on four terminals, over `MulSig` | the contract's actions happen when a transaction is mined (`Mine`); a script sends (`Send`), waits (`Confirm`), gives up (`GiveUp`) and judges what it reads (`...Verdict`) |
| `Sums` | nothing of the code: what a sum over a finite set or a sequence returns and how one change moves it; what sequences joined in a row keep | lemmas about `SumFunctionOnSet`, `SumFunction` and `FlattenSeq`, cited by the modules below |
| `TCashProofs`, `MulSigProofs`, `TokenLockerProofs`, `DAOProofs`, `USTNProofs`, `TreasureProofs`, `DeploymentProofs` | the theorems | see below |
| `MC...` | TLC instances | model values, symmetry, agendas |

### Correspondence worth knowing

- **Loans.** `amounts[0]` and `amounts[1]` are `collateral` and `debt`; the debt includes
  the interest. The prices stored with a loan are left out: `repay`, `collateralTopUp`,
  `interestCalculation` and `startLiquidation` overwrite them before use. Loan ids start
  at 1 here and at 0 in the code.
- **Interest.** `interestCalculation` takes one loan and adds one day of interest each time it
  is called; nothing in the code ties the calls to the clock, and nothing does here.
- **A failed `auctionStart`** inside `_calculateInterest` is only an event. The auction
  contract refuses no listing of the loan contract it was initialised with; before it is wired in
  (`auctionWired`) a liquidation lists nothing.
- **Auctions.** A bid adds to the bidder's earlier bid in the same auction; `bidValue` is
  the accumulated amount and is what is locked. `getAuction` burns the starting price
  from an auction manager's account, sends the collateral, and leaves the winner's lock. The code takes the member the role
  lists first; which one that is changes as members are removed, so any member of `AuctionManagers` may pay, and in both instances
  a bidder may be one.
- **Mappings that survive deletion.** `delete proposals[id]` does not clear the mapping of
  signatures inside the struct; `RemoveProposal` keeps `signatures`.
- **Executing an id with no content** succeeds and changes nothing in the code. In `MulSig` that is a stuttering step
  and not an action; `Operators` has it as `ExecuteNothing`, because a script takes the receipt for the execution of its proposal.
- **Abstractions of data.** A cross-chain token's addresses are one value nobody looks into.
  The platform's keys are represented by the two whose range depends on another key. A
  DApp is a name. Amounts are small numbers; divisions round down as in the code.
- **Proposals of the DAO.** A proposal is its content, because its id is the content's hash. What its
  calls do is `Content`: the settings they change, the sum they relay; a contract called
  otherwise does not call back. Block number and time stamp are two clocks, and `minDelay` is a
  number of blocks in `propose` and of seconds in `queue`, as in the code. `surplus` is a history
  variable: the part of the balance that is nobody's stake, negative when `relay` has paid from
  stakes. `_cancel` is called by nothing and left out.
- **Locked records.** Positions start at 1 here and at 0 in the code. `received`, what claims have
  paid to an account, stands for the part of its native balance that comes from this contract.
  Names of plans and `activePlans`, which nothing reads, are left out.
- **The bank's loans.** A loan made at the pledge rate p has a pledge of about 1/p: it is in order by the rate of
  its making only if p is below 100 %, as in the instance; with the rate 15000 that `ParameterInfo` starts
  with, the first liquidation sells it. `liquidation` asks for the role named by the literal
  "FoundationManager", which `Roles` grants to nobody; `LiquidatorExists` says whether somebody was given it,
  and the instance says yes, since otherwise no lot is ever listed.
- **What USTN is backed by.** `mint` is free, and `addBalance`, `reduceBalance` and, through the bank, the supply
  can be moved by anybody. The history variable `unbacked` counts what such calls add to balances without supply, or take from
  the supply only. `setAside` is a history variable too: what deposits added to the limit less what withdrawals took,
  each at the ratio of its time. `mintBack` pays UNIT of the token contract, which is no part of the model; UNIT
  sent along with a repayment is kept and recorded nowhere. `initialDebt` and lists that only views read are left out.
- **Producers.** One producer of one kind, chosen at the start; `Uploads` tells the kinds whose owners upload months
  from those that are paid by block. Months and blocks are periods. Ids of requests are the client's nonce. Amounts, prices and
  ratios keep their formulas, without the factors of 10^18 and 10^4 that cancel; a dated value or an average is some number
  between the least and the greatest value received. Dates and counters are left out, and so are the pausing of TAT, the three months it records,
  and `reward`, which anybody may call and which mints outside of clearing. `paid` and `doubled` are history variables:
  what clearings have minted, and the pieces holders have given themselves. Positions start at 1 here and at 0 in the code.
- **What clearing can fail of.** `TAT.setTATRecord` refuses zero: a holder with ratio 0, or one whose part is rounded to
  0, or an owner who has given away everything, makes clearing revert (`AllGetSome`). A penalty is paid by the contract to itself,
  so it reverts when the contract holds less.
- **Deployment.** An address is the nonce of the transaction that creates the contract, so that it is known when it is sent, as in
  the chain. A contract is the name it is recorded under, whether it is initialized, and which addresses it was given.
  `saveState` is two steps, since `writeFileSync` truncates first. Only the treasure kinds' number is reduced.
- **Nonces.** `upgrade-via-proxyadmin` and its companions ask for the nonce of the last mined block, so a wallet has at most one transaction
  in the pool and a new one takes its place or is refused. The wallets of `Operators` have a queue: `register-dapp-node` and the others
  ask in the same way and replace its first transaction, `kms-multisig-signer` asks for the pending nonce and appends.
- **Whoever holds a role.** Functions of the loan and auction contracts that ask for
  FOUNDATION_MANAGER are enabled: some account holds the role. In `TokenLocker`, `onlyManager` is
  that there is a manager. `MulSig` and `Roles` are where
  membership itself moves.

## Runs

Deadlock checking is off because every instance bounds time and counters, and because
the system may really stop.

| run | question | bounds |
|---|---|---|
| `auctions` | Do leader, price and locks stay together under bids, withdrawals, restarts and collection by two bidders over two auctions that share the bidders' balances? Does the contract implement `Sale`? | two bidders with 3 TCash, bids of 2 and 3, so that each can outbid the other and withdraw, two auctions of one or two ticks, each account an auction manager, time 3 |
| `loan_overrides` | Do system totals, borrower totals and counters agree when a foundation manager also writes records and statuses by hand, prices move and collateral is added? | one borrower, two loans, two prices; overrides included, since without them the states are a subset |
| `lending` | By how much do the loan book and the auctions differ? Is a loan marked as cleared exactly when it is paid? | two loans, two lots of one tick, one bidder, who may also be the auction manager that pays, minting locked and unlocked: enough for a liquidation, a repeated listing and a repayment of what is on sale; what `updateBidDuration` does to the deadlines is left to `auctions` |
| `multisig` | Are votes, pending list and time locks consistent while the set of voters changes? | two managers, the multisig as third principal, two proposals of nine contents, time 1 |
| `token_locker` | Do plans, positions and records stay together under claims by swap and pop, deletions of records and of plans, and withdrawals? | a manager and a beneficiary, two plans, amounts 1 and 2, three records of an account, at most two records per claim, so that a claim stops in the middle of the array |
| `ustn_bank` | Does the lending limit reconcile with loans and lots, is interest counted as owed enough, is nothing claimed that was not issued? Do the auctions implement `Sale`? | one depositor who also borrows, another account that mints and bids, two loans, two lots, prices of 1 and 2, reserve ratios 0 and 25 %, two ticks of time, of which one liquidation period: enough for two lots of one liquidation, a restart, an outbid bidder, a warning, a repayment below the interest, and a limit left over when all deposits are gone |
| `treasure` | Does a producer of either sort get paid once for what was audited, do requests follow its status, are margins backed, do shares add up and stay listed? | kinds OIL and BTC; two accounts, each owner, holder and depositor; one period, two trusted amounts around the 10 % and 30 % of the penalty; pieces of 50; payments of 6 and 18 UNIT at most, so that a penalty becomes a debt that is repaid in part and in whole; two requests; one split to oneself |
| `deployment` | After interruptions, resumptions, a new start and other targets, are records true, is a completed deployment wired from one entry, when can resuming not help, and does a deployment complete? | one treasure kind of the four, which differ in names only; one crash at any operation or in the middle of a write, one resumption, two starts, one other target |
| `upgrades` | Is what the scripts report true for good, does a proxy ever go back, does repetition fix every producer? | two kinds, so that one fails while the other goes on; two deployments of implementations; one fault among lost transactions, failed calls, timeouts and crashes |
| `operators` | Is what a script reports registered or set, who executes without votes, is a proposed DApp registered in the end? | two managers with two keys on four terminals, three proposals, two transactions of a wallet in the pool, one run of the setup script, one fault, time 3 |
| `dao` | Do stakes, tallies and balance agree, are votes final, is the life cycle a `Ballot`? | two voters, stakes of 2 and 3 half UNIT, blocks 2 to 7: long enough for one proposal to be executed and drop the quorum, the delays and part of the balance while another is open, defeated or queued |

Interest of 50 % a day, a repayment cycle of two days and loans of four UNIT make
warning, liquidation by ratio, liquidation by cycle, and remainders of the division all
occur within two days. Two lots are the least number at which one can be confused with the
other; two proposals, at which ids, pending positions and counts can differ. `MaxBid`,
`MaxBalance`, `MaxAuctions`, `MaxLoans`, `MaxIST`, `MaxCollateral`, `MaxTime`,
`MaxProposals`, `MaxAvailable`, `MaxRecords`, `MaxSetAside`, `MaxMortgage`, `MaxSupply`, `MaxUnbacked`, `MaxBlock`, `MaxSurplus`, `MaxDoubled`, `MaxFunds`, `MaxRequests`, `MaxAmount`, `MaxPaid`, `MaxCrashes`, `MaxRetries`, `MaxBases`, `MaxSides`, `MaxVersions`, `MaxFaults`, `MaxPool` and `MaxStrays` are bounds for TLC; they guard actions and the proofs hold for every value.

### Fairness

The runs of the contracts assume none: a contract acts only when an account sends a transaction, and the code gives
no reason to assume that anybody does. They check safety. The three runs of the scripts check liveness as well, under what a network and an
operator do:

- *Blocks are produced*: a transaction in the pool is mined or evicted (`WF` of `Mine`); in `operators` time passes (`WF` of `Wait`).
- *A script that is not killed goes on* (`WF` of `ScriptStep`, for each wallet or terminal). A crash is a fault, and faults are bounded by
  `MaxCrashes` and `MaxFaults`: without a bound, nothing would ever be finished. The setup script's steps in `operators` need no fairness.
- *The operator runs a script again that has not done its work.* `deployment`: the operator does not leave an incomplete deployment
  (`WF` of `OperatorStep`: resume or start over). `upgrades`: `WF` of `StartUpgrade`, and `SF` of `StartFix` when the upgrade script
  has said "You can now set the _mulSig address" - strong, because a further upgrade run makes that message disappear and come again.
  `operators`: `WF` of `StartRegister`, `StartKms` and `StartExecute`, and `SF` of `SignByHand`, for the sentence
  `register-dapp-node` ends with ("other managers sign") - strong, because the same wallet is busy in between.

No fairness is put on faults, on the other scripts, or on a choice between outcomes. `EventuallyDeployed` holds if the signer is a
configured manager and `EventuallyFixed` once the configuration is filled in and both wallets are managers for good: these are
premises of the properties and not of the specification.

### What the properties say

- `LocksAreBids`, `IsSale`: an account's locked TCash is the sum of its bids over all
  auctions, so that no sequence of bids, withdrawals and restarts locks or frees too much; and the whole contract is an ascending
  auction. Proved only: `LeaderHoldsPrice` (the current price is the leader's recorded bid) and `SoldIsOver` (a
  sold auction is over and stays so), which the refinement rests on.
- `BooksBalance`: what was ever lent is outstanding or repaid, and a borrower's TLA is its
  borrowed total plus what it has repaid. `InterestWithinDebt` (proved only): the interest part never
  exceeds the debt, on which the split in `getAuction` depends. `PaidOffIsFinal`: no legal
  sequence puts amounts back on a loan that is paid off. `CountersCount`: the counters whose
  difference `getPRF` computes count loans and paid loans, each once.
- `ClearedMeansPaid`: without overrides a loan is marked as cleared exactly when nothing is
  owed, and then nothing of it is left in the contract.
- `OutstandingReconciles`, `UnitReconciles`: the difference between the loan records and
  the system totals, and between the records' collateral and the UNIT held, is exactly what
  auctions have sold. `LotsCanBeSettled` (proved only): the interest in a lot is part of its starting price.
- `VotesAreDistinct`, `NothingRunsTwice`: one vote per manager, whatever was
  signed before an id was used or after it was deleted; an id that has run never runs again. `PendingAreLive` (proved only): the
  pending list is the set of ids with content, each once.
- `ExecutionKeepsManagers`: executing never leaves the system without a manager, because
  `deleteProposals` asks for the role again after the effect. `LostAdminIsLost` (proved only): once nobody
  holds ADMIN, nobody ever does, and the roles it administers can only be renounced.
- `AccountsHavePositions` (proved only): a plan lists an account exactly while it keeps positions for it.
  `AllocationCoversRecords`: whatever claims and deletions did to the positions, what a plan has
  allocated stays within the plan and covers its records that can still be claimed, so that
  `delPlan` never reverts. `LockedIsHeldOrPaid`: the total that claims do not lower is what is held and
  what was paid. `ClaimPaysWhatItRemoves`: the loop that overwrites records while it reads them
  pays each removed record once, and none before its time.
- `LimitReconciles`: what deposits set aside is in the limit, lent, or in unsold lots; no repayment, interest or sale makes it
  drift. Withdrawals at another reserve ratio do, on the left side as well, and the type invariant says that the limit never goes
  below zero for it. `InterestIsMinted`: what is counted as owed covers the interest of open loans and unsold lots, so that
  `auctionOver` can subtract it. `MortgagesAreHeld` (proved only): UNIT held and UNIT of the records differ by what winners took.
  `SupplyCoversClaims`: balances, deposits and interest to hand out are within the supply. `IsUSTNSale`: the lots are
  sold once, to the leader of the deadline, at a price that only rose.
- `VotesAreStaked`, `StakesAreBacked`, `VotesStand`: a tally is the sum of the stakes of those who
  voted, whichever way they voted; the balance is what is still staked and what came in or went out
  otherwise; a vote keeps its stake and is paid back once. `IsBallot`: no vote counts after
  the deadline, only what is carried is queued, and nothing is done twice or both ways.

- `RequestsFollowStatus`: an active producer has a request with the callback for its data, a deactivated one has none, though updates
  take the status and not the request, and status changes repeat or come before the producer. `PaidIsAudited`: what clearings minted for a month is
  what its audit leaves in the record, once. `MarginsAreBacked`: the contract holds the margins of all normal depositors, whatever
  penalties, debts and repayments of others do to the same field and to the same funds. `SharesReconcile`: holders' pieces are those the owner gave
  away, except those a holder made by splitting to itself. `ListedUntilMoved`: holders and list correspond, position by position, until
  a holder is deleted that is not the last of the list; that is the only way to separate them.
- `RecordsAreDeployed`, `RecordsAreKept`, `CompleteIsWired`: recorded addresses are those of mined contracts of that name; records are
  lost only by a torn write; a completed deployment is initialized, including the initializers nobody waited for, and wired to addresses of
  its own entry only. `StrandedNeedsNewEntry`: an entry whose multisig was initialized by a step that then failed is never completed by
  resuming. `EventuallyDeployed`: starting over completes it.
- `ReportsHold`: what an upgrade or a fix reported about a kind stays true. `NeverDowngrades`: no transaction mined late takes a proxy back.
  `EventuallyFixed`: every registered producer gets the multisig.
- `ExecutedIsRegistered`: a script that reports a registration is right, whichever proposals it shared the multisig with.
  `FinishedIsSetUp`: `setup-crosschain-tokens` ends without an error only when every mapping is set, although it takes the last pending
  proposal for its own and passes over a mapping when there is none.
  `VotedUnlessSetup`: only `setup-crosschain-tokens` executes a proposal without the votes, although the contract would let anybody.
  `EventuallyRegistered`: the DApp is registered in the end.

### Where the documents say otherwise

This run checks one sentence and ends in a counterexample.

| run | the sentence | what the code does |
|---|---|---|
| `claim_execution_is_voted` | `docs/governance/mulsig/README.md:79`, enough signatures | only the time lock is compared, and it starts at zero |

More were met and have no run. In the contracts: `tcash.md:222` has loans repaid at any time, and after a liquidation is reopened, or an
open loan sold, the totals are smaller than the loan and `repay` reverts (`TCashLoan.sol:361`); `TokenLocker.sol:158` and `:167` have the deletion of a
plan cancel the plan's records, and the positions of a plan are not updated when records move, so that records of
other plans are cancelled and records of the plan survive; `docs/governance/DAO/governorUpgradeable/README.md:164` has stakes withdrawn
after the proposal is finalized, and a queued proposal reads as expired while its delay runs, so that stakes leave it
and it is executed afterwards; "trusted data already audited" (`BtcData.sol:114`) refuses a block cleared before, and the
feeder's next answer for that block replaces the whole record, its status included, so that it is cleared again; the
cancellation of an asset value request (`ProductionData.sol:130`) names the other callback and always reverts;
`splitHolder` to oneself (`Share.sol:162`) adds the pieces it should move; a debt paid in full goes to the zero address
(`Expense.sol:90`); `tcash.md:730` refuses the repayment of a settled or liquidating
loan, and `repay` does not read the status; `tcash.md:229` repays the debt first from the proceeds of an auction, and
`getAuction` burns the manager's TCash, leaves the winner's locked and tells no loan; `USTNFinance.sol:325` sets
the interest to zero before subtracting it, and `USTN.sol:188` and `:199` reserve for the bank what anybody may call; `MulSig.sol:143` grants AUCTION_MANAGER by proposal, and
the multisig is not an admin of that role; `GovernorUpgradeable.sol:374` reserves marking by hand for
proposals without calls, and `manualExecuted` takes any queued proposal;
`tcash.md:803` adds collateral unless the loan is liquidated, and
`collateralTopUp` sets the status afresh; `tcash.md:223` has a partial repayment raise the
ratio, and collateral is released in proportion; a deleted plan keeps its amounts, so `delPlan`
(`TokenLocker.sol:159`) is accepted again and returns the unallocated part twice; `tcash.md:1338` ends a cycle at IST > TCASHRC and the code
at >= (`TCashLoan.sol:690`); `tcash.md:736` lowers TLA on repayment and the code does not
(`TCashLoan.sol:362`; `BooksBalance` states what it does instead); `tcash.md:596` bounds a
loan by the remaining credit, and the minimum is applied after that bound (`TCashLoan.sol:997`).
Two more that no property forbids: a withdrawal of more than is available pays out of what the plans hold (`TokenLocker.sol:115`), and a
proposal whose threshold falls to its count of signatures or below takes no further signature and never gets its time lock (`MulSig.sol:340`).

In the scripts: `crosschain.js` initializes the multisig, so it cannot be run twice on an entry, and
the target `deploy:wunit-wtcash:ethereum` (`package.json:29`) runs it after a complete deployment; its `grantRole` calls succeed only
if the signer is one of the configured managers; `bid.js` initializes `Bid` without arguments; the initializers in
`producers.js` and `ustn.js` are not waited for; `tokenlocker.js` and `bid.js` deploy before they notice that there is no entry;
`tasks.sh` prints that tasks are completed after `upgrade/*.js`, which do nothing; `manual-upgrade-producers.js` prints a template without the
kinds that failed, which the check for missing addresses then accepts; `fix-mulsig-addresses.js` ends with "All multisig operations
should now work as expected" also when kinds failed; `transactionDetails` has no branch for proposals of DApps and of
cross-chain tokens, so `register-dapp-node.js:247` and `execute-proposal.js` do not wait for their time lock; the threshold is a literal 2
(`kms-multisig-signer.js:241`, `execute-proposal.js:96`); `setup-crosschain-tokens.js` signs and executes the last
pending proposal, whoever made it; `direct-register-dapp.js` calls what only the multisig may call; a timeout of
`kms-multisig-signer.js` counts as a signature; `hardhat.config.js` gives the mainnet chain id 5002 and the scripts 5570.

## Theorems

All of them hold for every set of accounts, borrowers, principals, prices and lots and for
every value of the bounds. They use the assumptions on constants named in the
modules (`AuctionAssumption`, `LotsAssumption`, `LoanAssumption`, `RolesAssumption`,
`MulSigAssumption`, `LockerAssumption`, `DAOAssumption`, `USTNAssumption`, `FinanceAssumption`, `UpgradeAssumption`, `OperatorsAssumption`, `RequestsAssumption`, `MaxTimeAssumption`,
`DeploymentAssumption`, `StepsAssumption`, `PlanAssumption`, `NamesAssumption`) and no other. They say that configured values, prices and
amounts are numbers of the right kind (a price, an amount sent and the least loan are not zero) and
that there are finitely many principals, accounts, voters and proposals, so that there are sums over them, and that the setup script has a mapping to set, that a token's addresses are not what an unset token reads as, and that the plan of a
deployment is one of the two of `package.json`, that another target runs one step, and that the contracts of the treasures have different names. A few theorems state invariants no run checks any more (`LeaderHoldsPrice`, `InterestWithinDebt`,
`LotsCanBeSettled`, `PendingAreLive`, `AccountsHavePositions`, `MortgagesAreHeld`, the types): TLC has checked them, and the proofs now hold without it.

**Sums** (`Sums`). Many invariants here compare a total kept by the code with a sum over a mapping. That a sum is a number, and that
changing one summand changes the sum by the difference, is a fact about every finite set, and would be an induction; the
library's induction theorems take an operator and no installed prover can use them. So it is shown by the least counterexample: the finite
sets for which a fact fails, if any, have a least one under strict inclusion (`WFMin` with `FS_StrictSubsetOrdering`), and that one without one of
its elements is smaller. Sums over sequences are sums over their positions. In the same way sequences joined in a row keep what no joining of two loses, and a function defined by recursion on numbers (the
loop of a claim, the interest of several periods) keeps what each of its rounds keeps.

**Auctions** (`TCashProofs`, part 1). The inductive invariant is
`Inv == TypeOK /\ LeaderHoldsPrice /\ SoldIsOver`. Because balances and locks are natural numbers
in `TypeOK`, no subtraction that goes through can have been an underflow.
`LeaderHoldsPrice` is what lets a withdrawal of somebody else's bid leave the price alone.
`SoldIsOver` is needed for the refinement: bids are refused by time and not by state, so a
sold auction takes no bid only because its time is over, and it stays over only because a
restart leaves sold auctions alone. `AuctionImplementsSale` then shows that each step of the
contract is a step of `Sale` under the mapping of `TCashAuctionSale`, or changes nothing of it.
`LocksAreAlwaysBids` needs types only: a bid and a withdrawal change one `bidValue` of one account, and the sum and the lock by the same.

**Loan book** (`TCashProofs`, part 2). `LoanInv` says that every loan is well formed, that counters
count and books balance, and gives the types. A loan is well formed (`LoanOK`) when its
interest is within its debt and, without overrides, it is cleared exactly when nothing is
owed and then has no collateral. None of the parts is inductive alone: a repayment takes
interest first, and only `interest <= debt` keeps what it leaves natural; the counter of
paid loans goes up only if the loan was not paid before, which `PaidOff`, the set behind the
counter, keeps track of; `InterestCalculation` leaves a paid loan paid because a day's interest on
nothing is nothing. From it follow `LoanStateCorrect`, `BooksAlwaysBalance`,
`InterestIsWithinDebt`, `CountersAlwaysCount`, `ClearedIsPaid` and, for steps, `PaidOffStays`.
`_calculateSRF` and `getPRF` are only needed as natural numbers; whatever they return, the books
balance.

**Loan book and auctions together** (`TCashProofs`, part 3). `LendingInv` is the conjunction of
the two invariants with `LotsCanBeSettled`: a lot is made from a loan, so `interest <= debt` of
the loan becomes the interest within the starting price of the lot, which `auctionOver`
subtracts when the lot is collected, long after the loan may have changed.
`LendingImplementsSale` shows that what the loan book does besides listing is invisible to bidders. `OutstandingAlwaysReconciles` and
`UnitAlwaysReconciles` follow each step through both sums: a repayment moves one loan and the total alike, and a collection moves no loan
but a lot from the unsold to the sold, by the amount `auctionOver` takes from the total.

**Multisig** (`MulSigProofs`). `MulSigInv` is `VoteTypeOK /\ PendingAreLive /\ VotesAreDistinct` with
the types of the registries. `VotesAreDistinct` compares
a counter with the cardinality of the signatures, for which the principals have to be finite; it
is `<=` and not `=` because a deleted proposal keeps its signatures and an id starts counting at
zero again. That ids are live exactly when pending needs the list to hold each once.
From the steps follow `ExecutedIsGone`, `AManagerRemains` and
`AdminIsLostForGood`.

**Token locker** (`TokenLockerProofs`). `PlansListTheirAccounts` is `[]AccountsHavePositions`. The
invariant adds only that positions are lists, of anything: every operation that appends, removes
or clears positions keeps "listed exactly if some are left", and claims touch neither side.
`LockedIsAlwaysHeldOrPaid` and `AllocationAlwaysCovers` share an invariant about types and sums: taking a record out by swap and pop changes the sum of
its plan's active amounts by its own and no other plan's, whatever position the last record moves to, and cancelling changes status only. `ClaimsAlwaysPayWhatTheyRemove` is about
the loop: after every round, the claimable records left and those paid for are, as amounts, the ones there were, and those still to be visited
are where they were, because a removal moves a record that has been visited. It goes from the last position to the first; the other way round
it would skip the record that moves.

**DAO** (`DAOProofs`). The invariant adds to the types that a proposal is queued or done, not both, and
only after its deadline, and that the block number is above 1, so that the start of a manual
proposal, one block earlier, is not the zero by which the code knows an unused id. Three lemmas say
what a reading of the state implies; with them each action of the DAO is one of `Ballot`, and
`DAOImplementsBallot` holds for any settings, also when executed proposals change the delays and the quorum.
`VotesAreFinal` needs only the types. `VotesAreAlwaysStaked` and `StakesAreAlwaysBacked` are sums of sums, over proposals and
their voters: a vote adds one stake to each side, a withdrawal takes back one that was not marked, and all that executed proposals send is in `surplus`.

**USTN bank** (`USTNProofs`). The inductive invariant is `BankInv == BankSound /\ Balanced /\ Claims <= Cover`. `BankSound` has the types and what relates them (the
list of borrowers names each once; a lot's interest is part of its price, as in TCash; the interest of an open loan is within its debt). `Balanced` is the three equations and
bounds of `LimitReconciles`, `InterestIsMinted` and `MortgagesAreHeld`, each a sum of a weight of a loan (its principal, its interest, its mortgage) and
of a weight of a lot. An action on one loan changes one summand. A liquidation changes all loans and
appends several lots: for each loan, what it weighs is what it weighs afterwards and what its lot weighs, and the
interest added is counted in the sum, loan by loan; three sums are added up from that and none is unfolded. The last part is
the total of what anybody can claim against supply. `BankTypeCorrect` is not a formality here: that `bankLoanLimit` stays a number depends on the
guards of withdrawals, and that a repayment subtracts no more interest than is counted depends on `InterestIsMinted`.
`BankImplementsSale` needs of it that lots have numbers for prices and, beside it, `SoldIsOver`; a liquidation is one `Offer` of all its lots,
and everything else the bank does leaves lots, leaders and clock alone.

**Upgrade scripts** (`TreasureProofs`, last part). `UpgradeInv` orders, for each kind, what the proxy has, what is in the pool, what
the running script's plan says, what the configuration says, and the number of the last deployment: each is at most the next. A
wallet has one transaction in the pool, and while its script waits it is the one the script sent. That is why a
transaction mined late cannot take a proxy back (`ProxiesOnlyAdvance`): it is still in the pool only if nothing newer was sent in its place. What a
script has written into its results is part of the invariant as well, and `ReportsStayTrue` follows, for any kinds, number of runs and faults.

**Producers** (`TreasureProofs`). `RequestInv` says of every request id kept that it is one of the oracle's with the right callback, whatever the status: an
update leaves status and request apart, and a later activation relies on the old request, so the property alone is not
inductive. `UploadInv` is `PaidIsAudited` with the domains. `OnlyDeletionMisplaces` rests on two lemmas: entering is all that happens to the list otherwise, and deleting the last
position leaves every other where it was, because a listed holder stands in one position only. `MarginsAreAlwaysBacked` follows payments and penalties through the
sum of the margins of those with status Normal: turning a margin into a debt takes it out of the sum altogether. `SharesAlwaysReconcile` covers a
gift to oneself, which the sum counts in `doubled`.

**Operators** (`MulSigProofs`, last part). The contract answers a script only through the id it holds, and an executed proposal and one deleted or never made
look alike. So `OperatorsInv` says what an id stands for, wherever one is kept: announced, in a script, or in a pool, where a transaction may be mined long
after its script has gone. `Tracked` is a proposal of the DApp whose content is gone only if the DApp is registered; nobody
deletes proposals here and nothing is proposed about managers, which is part of the invariant too (`Quiet`). A terminal is waited on by at most one
transaction of its wallet's pool, so a receipt is that of the call the script made. From it follows `ReportsAreTrue`, also when the execution that was mined
was one of nothing. `SetupIsTrue` has the same argument for the mappings, one after the other: what is set stays set; the script has proposed the mapping
it looks for (`Proposed`), so that it finds no pending proposal only when that one was executed; and otherwise it looks whether the mapping is there. A transaction that would revert is one the contract has no step for: `Reverts` and `CanSign` are defined with `ENABLED`, which the prover
cannot look into, and the proofs use none of it: they hold whichever transactions revert. `ExecutionsAreVoted` assumes
`FewManagers`, up to three, because the scripts compare the signatures with the number two and not with the contract's threshold; with four managers
two signatures are no majority. For setup-crosschain-tokens, which compares nothing, no such bound helps.

**Deployment** (`DeploymentProofs`). Nothing is unfolded of the step scripts, which are concatenations of concatenations, one of them with a
part per treasure; the proofs use what each is seen to have, part by part. A script loads the file first and never again, starts a
new entry right after that or not at all, and records an address right after the transaction that creates the contract (`Beginnings`, closed
under adding `Parts`). `DeploymentInv` then has two halves. The chain: the pool goes on where mining has come to, with nonces one after another,
and no address is given out twice; that is why an address can be recorded once no transaction of that nonce is left. The script: what it has in memory is the
file, or the file with a new entry nothing is recorded in, so that overwriting the whole file loses nothing. `RecordsAreAlwaysDeployed` and
`RecordsAreAlwaysKept` follow, for any plan, other targets and numbers of interruptions. `OnlyStartingOverHelps` needs the scripts a second time (`Ordinary`: no script but
base starts an entry or records a multisig) and the plan (base comes first and only there, crosschain is its fifth step). `Stuck` then
stays true until the operator starts over: nothing still to run can put another entry first, the recorded multisig stays initialized, and a run of crosschain
fails at the call it would have to repeat, wherever it is now.

`CompleteIsAlwaysWired` takes what the scripts do as a whole, and rests on two things. The first is about the scripts alone. Every name has a
`Level`, the place of the one step of the plan that records it; three contracts, initialized where they are created and given nothing, are `Standalone` and may be
recorded again by a later target. Each script is `Orderly`: it uses only names of its level or lower ones, after it has recorded them or the entry was required to
have them; it records no name it has already used; it sends `initialize` once per contract. A script is built up part by part, and each part keeps the
order (`OrderlyProxy`, `OrderlyInstall`, `OrderlyCall`, `OrderlySend`, `OrderlyCheck`); the two parts of `producers` that go over the treasures are followed
treasure by treasure (`FlattenAppends` in `Sums`). This is where `PlanAssumption` and `NamesAssumption` are needed: with one name for two
contracts, an address is recorded over one that is already wired. The second is the inductive invariant `WiredInv`, beside `DeploymentInv`:

- `ProgressInv`: what runs and what is left to run are the steps of the plan from `done` on, or one step that is in no plan;
- `WiringInv`: a contract holds only names the plan gives it, and a transaction to a contract carries addresses of the newest entry;
- `DoneInv`: every operation of the first `done` steps is done (`OpDone`): its names are recorded, and its contract holds the addresses recorded now, or, for
  a call nobody waited for, that call is the first in the pool to a contract not yet initialized, so that it will not revert;
- `WorkInv`: so is every operation the running script is past, except for a contract created and not recorded yet; the transaction
  waited for is the last of the pool, and once it was waited for the pool is empty.

What keeps `OpDone` is that a name is recorded only before anything done depends on it (its level is above that of the completed steps, and the script has
not used it), and that the pool is empty at that moment. When crosschain has completed it has waited for its last transaction, so the
calls of `producers` and `ustn` that nobody waited for were mined too: that is the clause of `DoneInv` on the first five steps, and it stays true
when a later target records a standalone contract again.

Only model-checked, of all properties of the passing runs: the ones of liveness under fairness (`EventuallyDeployed`, `EventuallyFixed`, `EventuallyRegistered`), which are out of the
prover's reach.

## Plan

1. **Done here.** TCash token, auctions, loan book and their composition; roles and multisig;
   the abstract auction; the token locker; the DAO and the abstract ballot; the USTN bank with its token and auctions; producers with their
   shares, margins and requests; the scripts that deploy, upgrade and operate; proofs for everything but what is named above.
2. **Next, modules.** In this order: `CrosschainBridge` with two chains and a relayer that repeats and loses calls, against an
   abstract exactly-once transfer; `Gravity` (nonces); `Airdrop`; `Bid` with the stakes of TAT. Two producers of one kind, whose uploads share the
   array of a month. An abstract multisig with time lock for `MulSig` is worth stating once its execution depends on votes.
3. **Next, proofs.** Exactly-once transfers of the bridge, the monotone nonces of Gravity. Every safety property of the passing runs is a theorem now.

The number of runs is kept small: a sentence of a document that needs no run any more gives its
place to a component.
