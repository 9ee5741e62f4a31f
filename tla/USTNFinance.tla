---------------------------- MODULE USTNFinance ----------------------------
(***************************************************************************)
(* The USTN bank (contracts/USTN/USTNFinance.sol) with its token and its   *)
(* auctions.  Deposits, less a reserve, may be lent against UNIT; interest *)
(* is added to the loans and handed to the depositors; a loan whose        *)
(* mortgage has lost too much value is sold.                               *)
(*                                                                         *)
(* initialDebt of a loan, which only a view reads, is left out, as is UNIT *)
(* sent along with a repayment, which the code keeps and does not record.  *)
(* Of the platform's parameters only the reserve ratio changes.            *)
(***************************************************************************)
EXTENDS USTNAuction, Integers, Functions, SequencesExt

CONSTANTS Depositors, Borrowers,
          Holders,          \* the accounts that use the token directly
          LiquidatorExists, \* somebody holds the role named "FoundationManager"
          BasisPoints,      \* the 10000 of the ratios
          Multiple,         \* the 10^18 of the repaid share
          ReserveRatios,    \* the values reserveRatio may be set to
          LoanPledgeRate, LoanInterestRate,
          WarnRatio, LiquidationRatio,
          Period,           \* liquidationTime
          MinAmount,        \* the least deposit and the least mortgage, 10^9
          DepositAmounts, Mortgages, TopUps, RepayAmounts, BidAmounts, DirectAmounts,
          MaxLoans,         \* bound on the loans of a borrower, for TLC only
          MaxMortgage,      \* bound on a mortgage after addLoans, for TLC only
          MaxBid,           \* bound on a total bid, for TLC only
          MaxSupply,        \* bound on what is minted, for TLC only
          MaxSetAside,      \* bound on setAside, for TLC only
          MaxUnbacked       \* bound on unbacked, for TLC only

ASSUME FinanceAssumption ==
  /\ Depositors \subseteq Accounts
  /\ Borrowers \subseteq Accounts
  /\ Holders \subseteq Accounts
  /\ LiquidatorExists \in BOOLEAN
  /\ BasisPoints \in Nat \ {0}
  /\ Multiple \in Nat \ {0}
  /\ ReserveRatios \subseteq 0..BasisPoints
  /\ {LoanPledgeRate, LoanInterestRate, WarnRatio, LiquidationRatio} \subseteq Nat
  /\ LiquidationRatio <= WarnRatio
  /\ {Period, MinAmount} \subseteq Nat \ {0}
  /\ DepositAmounts \cup Mortgages \cup RepayAmounts \subseteq Nat
  /\ TopUps \cup BidAmounts \cup DirectAmounts \subseteq Nat
  /\ {MaxLoans, MaxMortgage, MaxBid, MaxSupply, MaxSetAside, MaxUnbacked} \subseteq Nat

VARIABLES
  reserveRatio,           \* the platform's parameter of that name
  bankLoanLimit,          \* what may still be lent
  depositUsers,           \* the depositors, in the order of their first deposits
  userDepositBalances, userPastTime, userDepositPoint,
  loansTotalInterest,     \* interest waiting for the depositors
  interestMint,           \* interest counted as owed
  loanUsers,              \* the borrowers, in the order of their first loans
  loanAccount,            \* borrower -> its loans
  unitBalance,            \* the UNIT of the contract
  setAside                \* history: what deposits have added to the limit less
                          \* what withdrawals have taken from it

depositVars == <<depositUsers, userDepositBalances, userPastTime, userDepositPoint>>
limitVars == <<bankLoanLimit, loansTotalInterest, interestMint, setAside>>
bookVars == <<loanUsers, loanAccount, unitBalance>>
financeVars == <<reserveRatio, depositVars, limitVars, bookVars>>

Loan == [timestamp : Nat, mortgage : Nat, debt : Nat, interest : Nat,
         liquidationState : 0..2]
Open(loan) == loan.liquidationState # 2

\* Types; every amount the code subtracts from is a natural number, and setAside,
\* which no code keeps, is an integer.
FinanceTypes ==
  /\ reserveRatio \in ReserveRatios
  /\ {bankLoanLimit, loansTotalInterest, interestMint, unitBalance} \subseteq Nat
  /\ setAside \in Int
  /\ IsInjective(depositUsers) /\ Range(depositUsers) \subseteq Depositors
  /\ \A f \in {userDepositBalances, userPastTime, userDepositPoint} :
        f \in [Depositors -> Nat]
  /\ IsInjective(loanUsers) /\ Range(loanUsers) \subseteq Borrowers
  /\ loanAccount \in [Borrowers -> Seq(Loan)]

FinanceInit ==
  /\ reserveRatio \in ReserveRatios
  /\ bankLoanLimit = 0
  /\ depositUsers = <<>>
  /\ userDepositBalances = [u \in Depositors |-> 0]
  /\ userPastTime = [u \in Depositors |-> 0]
  /\ userDepositPoint = [u \in Depositors |-> 0]
  /\ loansTotalInterest = 0
  /\ interestMint = 0
  /\ loanUsers = <<>>
  /\ loanAccount = [u \in Borrowers |-> <<>>]
  /\ unitBalance = 0
  /\ setAside = 0

\* u is put at the end of the list unless it is on it.
Enlist(users, u) == IF Contains(users, u) THEN users ELSE Append(users, u)

-----------------------------------------------------------------------------
\* Deposits.

Reserve(tokens) == (tokens * (BasisPoints - reserveRatio)) \div BasisPoints

Deposit(u, tokens) ==
  /\ tokens >= MinAmount
  /\ setAside + Reserve(tokens) <= MaxSetAside
  /\ ReduceBalance(u, tokens)
  /\ depositUsers' = Enlist(depositUsers, u)
  /\ userPastTime' = IF Contains(depositUsers, u) THEN userPastTime
                     ELSE [userPastTime EXCEPT ![u] = now]
  /\ userDepositBalances' = [userDepositBalances EXCEPT ![u] = @ + tokens]
  /\ bankLoanLimit' = bankLoanLimit + Reserve(tokens)
  /\ setAside' = setAside + Reserve(tokens)
  /\ UNCHANGED <<totalSupply, userDepositPoint, loansTotalInterest, interestMint>>

\* Mutant: the limit is not looked at.
WithdrawalUnlimited(u, tokens) ==
  /\ tokens <= userDepositBalances[u]
  /\ userDepositBalances' = [userDepositBalances EXCEPT ![u] = @ - tokens]
  /\ bankLoanLimit' = bankLoanLimit - Reserve(tokens)
  /\ setAside' = setAside - Reserve(tokens)
  /\ AddBalance(u, tokens)
  /\ UNCHANGED <<totalSupply, depositUsers, userPastTime, userDepositPoint,
                 loansTotalInterest, interestMint>>

\* The limit goes down by the reserve ratio of now, and not below zero.
Withdrawal(u, tokens) ==
  /\ tokens <= userDepositBalances[u]
  /\ Reserve(tokens) <= bankLoanLimit
  /\ userDepositBalances' = [userDepositBalances EXCEPT ![u] = @ - tokens]
  /\ bankLoanLimit' = bankLoanLimit - Reserve(tokens)
  /\ setAside' = setAside - Reserve(tokens)
  /\ AddBalance(u, tokens)
  /\ UNCHANGED <<totalSupply, depositUsers, userPastTime, userDepositPoint,
                 loansTotalInterest, interestMint>>

Periods(since) == (now - since) \div Period

\* A depositor's points after the pass: they grow with every period and are
\* never used up.
PointsNow(u) ==
  userDepositPoint[u] + userDepositBalances[u] * Periods(userPastTime[u])

\* What of the interest is u's.
Share(u, total) == (loansTotalInterest * PointsNow(u)) \div total

\* By the foundation manager.  With depositors but no points yet the division
\* reverts; without depositors the interest is dropped.
DistributeDepositInterest ==
  LET users == Range(depositUsers)
      total == SumFunctionOnSet([u \in Depositors |-> PointsNow(u)], users)
      InTurn(old, new(_)) == [u \in Depositors |-> IF u \in users THEN new(u) ELSE old[u]]
  IN  /\ users # {} => total > 0
      /\ userDepositPoint' = InTurn(userDepositPoint, PointsNow)
      /\ userPastTime' = InTurn(userPastTime, LAMBDA u :
           userPastTime[u] + Periods(userPastTime[u]) * Period)
      /\ userDepositBalances' = InTurn(userDepositBalances, LAMBDA u :
           userDepositBalances[u] + Share(u, total))
      /\ loansTotalInterest' = 0
      /\ UNCHANGED <<balance, totalSupply, depositUsers, bankLoanLimit, interestMint, setAside>>

-----------------------------------------------------------------------------
\* Loans.

LoansRate(tokens) ==
  (((unitPrice * tokens) \div ustnPrice) * LoanPledgeRate) \div BasisPoints
Interest(debt) == (debt * LoanInterestRate) \div BasisPoints

\* The pledge at which a loan is warned about, and below which it is sold.
WarningValue == (LoanPledgeRate * WarnRatio) \div BasisPoints
LiquidationRate == (LoanPledgeRate * LiquidationRatio) \div BasisPoints

\* The value of the mortgage in basis points of the debt.
Pledge(mortgage, debt) ==
  ((mortgage * unitPrice * BasisPoints) \div debt) \div ustnPrice

\* loans: a mortgage of UNIT is sent along.
TakeLoan(u, mortgage) ==
  LET amount == LoansRate(mortgage)
      interest == Interest(amount)
  IN  /\ mortgage >= MinAmount
      /\ amount <= bankLoanLimit
      /\ Len(loanAccount[u]) < MaxLoans
      /\ loanUsers' = Enlist(loanUsers, u)
      /\ loanAccount' = [loanAccount EXCEPT ![u] = Append(@,
           [timestamp |-> now, mortgage |-> mortgage, debt |-> amount + interest,
            interest |-> interest, liquidationState |-> 0])]
      /\ unitBalance' = unitBalance + mortgage
      /\ bankLoanLimit' = bankLoanLimit - amount
      /\ AddBalance(u, amount)
      /\ loansTotalInterest' = loansTotalInterest + interest
      /\ AddTotalSupply(amount + interest)
      /\ interestMint' = interestMint + interest
      /\ UNCHANGED <<depositVars, setAside>>

\* addLoans: UNIT is added to the mortgage and the warning set afresh.
AddLoans(u, number, value) ==
  LET loan == loanAccount[u][number]
      mortgage == loan.mortgage + value
  IN  /\ Open(loan)
      /\ loan.debt > 0
      /\ mortgage <= MaxMortgage
      /\ loanAccount' = [loanAccount EXCEPT ![u][number].mortgage = mortgage,
           ![u][number].liquidationState =
             IF Pledge(mortgage, loan.debt) >= WarningValue THEN 0 ELSE 1]
      /\ unitBalance' = unitBalance + value
      /\ UNCHANGED <<balance, totalSupply, depositVars, limitVars, loanUsers>>

\* What of a repayment goes to the principal: interest is paid first.
ToPrincipal(loan, tokens) ==
  IF tokens >= loan.debt THEN loan.debt - loan.interest
  ELSE IF tokens >= loan.interest THEN tokens - loan.interest ELSE 0

\* What a repayment takes from interestMint: only one that does not cover the
\* interest does; otherwise the interest is zeroed first and then subtracted.
OffInterestMint(loan, tokens) == IF tokens < loan.interest THEN tokens ELSE 0

\* The UNIT a repayment returns.
BackUnit(loan, tokens) ==
  LET backPercent == IF tokens >= loan.debt THEN Multiple
                     ELSE (tokens * Multiple) \div loan.debt
  IN  (loan.mortgage * backPercent) \div Multiple

\* The loan after a repayment.
Repaid(loan, tokens) ==
  LET left == loan.mortgage - BackUnit(loan, tokens)
  IN  IF tokens >= loan.debt
      THEN [loan EXCEPT !.mortgage = left, !.debt = 0, !.interest = 0,
                        !.liquidationState = 2]
      ELSE [loan EXCEPT !.mortgage = left, !.debt = @ - tokens,
                        !.interest = IF tokens < @ THEN @ - tokens ELSE 0]

\* loansBack: no more than the debt is taken.
LoansBack(u, number, tokens) ==
  LET loan == loanAccount[u][number]
  IN  /\ balance[u] >= tokens
      /\ Open(loan)
      /\ ReduceBalance(u, Min({tokens, loan.debt}))
      /\ OffInterestMint(loan, tokens) <= interestMint
      /\ BackUnit(loan, tokens) <= unitBalance
      /\ bankLoanLimit' = bankLoanLimit + ToPrincipal(loan, tokens)
      /\ interestMint' = interestMint - OffInterestMint(loan, tokens)
      /\ loanAccount' = [loanAccount EXCEPT ![u][number] = Repaid(loan, tokens)]
      /\ unitBalance' = unitBalance - BackUnit(loan, tokens)
      /\ UNCHANGED <<totalSupply, depositVars, loansTotalInterest, setAside, loanUsers>>

-----------------------------------------------------------------------------
\* Liquidation.

\* The debt after k periods of compound interest.
DebtAfter(debt, k) ==
  LET after[i \in 0..k] == IF i = 0 THEN debt ELSE after[i - 1] + Interest(after[i - 1])
  IN  after[k]

\* The first pass: a loan with the interest of the periods it has not paid for.
\* The time of a loan that is over moves on too.
Accrued(loan) ==
  LET k == Periods(loan.timestamp)
      bear == IF Open(loan) THEN DebtAfter(loan.debt, k) - loan.debt ELSE 0
  IN  [loan EXCEPT !.timestamp = @ + k * Period,
                   !.debt = @ + bear, !.interest = @ + bear]

\* The second pass: the state the pledge gives a loan that is open.
Rated(loan) ==
  LET x == Pledge(loan.mortgage, loan.debt)
  IN  IF ~Open(loan) THEN loan
      ELSE [loan EXCEPT !.liquidationState =
              IF x > WarningValue THEN 0 ELSE IF x >= LiquidationRate THEN 1 ELSE 2]

\* The loans of the bank one after the other, as liquidation passes over them.
AllLoans == FlattenSeq([m \in DOMAIN loanUsers |-> loanAccount[loanUsers[m]]])

\* The accrued loan, if the second pass closes it.
Falling(loan) == IF Open(Accrued(loan)) /\ ~Open(Rated(Accrued(loan)))
                 THEN <<Accrued(loan)>> ELSE <<>>

\* Mutant: interest for the depositors and the supply, and not in interestMint.
CountInterestForOthers(bear) ==
  /\ loansTotalInterest' = loansTotalInterest + bear
  /\ UNCHANGED interestMint
  /\ AddTotalSupply(bear)
\* Mutant: the supply is left behind.
CountInterestUnminted(bear) ==
  /\ loansTotalInterest' = loansTotalInterest + bear
  /\ interestMint' = interestMint + bear
  /\ UNCHANGED totalSupply

\* Interest is owed, is waiting for the depositors, and is new supply.
CountInterest(bear) ==
  /\ loansTotalInterest' = loansTotalInterest + bear
  /\ interestMint' = interestMint + bear
  /\ AddTotalSupply(bear)

Liquidation ==
  LET bear == SumFunction([i \in DOMAIN AllLoans |-> Accrued(AllLoans[i]).debt - AllLoans[i].debt])
      liquidated == FlattenSeq([i \in DOMAIN AllLoans |-> Falling(AllLoans[i])])
  IN  /\ LiquidatorExists
      /\ \A i \in DOMAIN AllLoans : Open(AllLoans[i]) => Accrued(AllLoans[i]).debt > 0
      /\ loanAccount' = [u \in Borrowers |->
           [i \in DOMAIN loanAccount[u] |-> Rated(Accrued(loanAccount[u][i]))]]
      /\ CountInterest(bear)
      /\ AuctionStart(liquidated)
      /\ UNCHANGED <<balance, depositVars, bankLoanLimit, setAside, loanUsers, unitBalance>>

\* Mutant: the limit gets the whole starting price back.
AuctionOverAll(tokens, interest, principal) ==
  /\ tokens <= unitBalance
  /\ interest <= interestMint
  /\ unitBalance' = unitBalance - tokens
  /\ interestMint' = interestMint - interest
  /\ bankLoanLimit' = bankLoanLimit + principal + interest

\* Called by the auctions when a lot is collected.
AuctionOver(tokens, interest, principal) ==
  /\ tokens <= unitBalance
  /\ interest <= interestMint
  /\ unitBalance' = unitBalance - tokens
  /\ interestMint' = interestMint - interest
  /\ bankLoanLimit' = bankLoanLimit + principal

\* getAuction with its call of auctionOver.
Collect(n, u) ==
  /\ GetAuction(n, u)
  /\ LET a == auctionList[n]
     IN  AuctionOver(a.sales, a.debt, a.startValue - a.debt)
  /\ UNCHANGED <<depositVars, loansTotalInterest, setAside, loanUsers, loanAccount>>

-----------------------------------------------------------------------------
\* The bank as a whole.

bankVars == <<ustnVars, auctionVars, financeVars, now>>

DepositStep ==
  \/ \E u \in Depositors, tokens \in DepositAmounts :
        Deposit(u, tokens) \/ Withdrawal(u, tokens)
  \/ DistributeDepositInterest

LoanStep ==
  \E u \in Borrowers :
    \/ \E mortgage \in Mortgages : TakeLoan(u, mortgage)
    \/ \E number \in DOMAIN loanAccount[u] :
         \/ \E value \in TopUps : AddLoans(u, number, value)
         \/ \E tokens \in RepayAmounts : LoansBack(u, number, tokens)

AuctionStep ==
  \/ \E n \in Listed, u \in Bidders :
       /\ \/ \E amount \in BidAmounts :
                bidValue[n][u] + amount <= MaxBid /\ Bid(n, u, amount)
          \/ BidWithdrawal(n, u)
       /\ UNCHANGED totalSupply
  \/ UpgradeState /\ UNCHANGED <<balance, totalSupply>>

TokenStep ==
  /\ \E u \in Accounts, amount \in DirectAmounts :
       \/ /\ u \in Holders
          /\ \/ \E v \in Accounts : Transfer(u, v, amount)
             \/ Mint(u, amount)
             \/ MintBack(u, amount)
       \/ DirectCall(u, amount)
  /\ totalSupply' > totalSupply => totalSupply' <= MaxSupply
  /\ unbacked' <= MaxUnbacked

SetReserveRatio == reserveRatio' \in ReserveRatios \ {reserveRatio}

BankInit == /\ FinanceInit /\ AuctionInit /\ BlockTimeInit
            /\ balance = [u \in Accounts |-> 0]
            /\ totalSupply = 0
            /\ unitPrice \in UnitPrices
            /\ ustnPrice \in USTNPrices
            /\ unbacked = 0

BankNext ==
  \/ /\ DepositStep
     /\ UNCHANGED <<prices, unbacked, auctionVars, reserveRatio, bookVars, now>>
  \/ LoanStep /\ UNCHANGED <<prices, unbacked, auctionVars, reserveRatio, now>>
  \/ /\ Liquidation \/ \E n \in Listed, u \in Bidders : Collect(n, u)
     /\ UNCHANGED <<prices, unbacked, reserveRatio, now>>
  \/ AuctionStep /\ UNCHANGED <<prices, unbacked, financeVars, now>>
  \/ TokenStep /\ UNCHANGED <<prices, auctionVars, financeVars, now>>
  \/ NewPrices /\ UNCHANGED <<auctionVars, financeVars, now>>
  \/ /\ SetReserveRatio
     /\ UNCHANGED <<ustnVars, auctionVars, depositVars, limitVars, bookVars, now>>
  \/ Tick /\ UNCHANGED <<ustnVars, auctionVars, financeVars>>

BankSpec == BankInit /\ [][BankNext]_bankVars

-----------------------------------------------------------------------------

\* Type correctness of token, auctions, bank and clock.
BankTypeOK == USTNTypes /\ AuctionTypes /\ FinanceTypes /\ now \in Nat

SumOf(seq, f(_)) == SumFunction([i \in DOMAIN seq |-> f(seq[i])])

\* What an open loan owes of the bank's own and of interest; and the same of a
\* lot that is not sold, and the UNIT of one that is.
Principal(loan) == IF Open(loan) THEN loan.debt - loan.interest ELSE 0
OwedInterest(loan) == IF Open(loan) THEN loan.interest ELSE 0
Mortgage(loan) == loan.mortgage
LotPrincipal(a) == IF a.state # 2 THEN a.startValue - a.debt ELSE 0
LotInterest(a) == IF a.state # 2 THEN a.debt ELSE 0
Collected(a) == IF a.state = 2 THEN a.sales ELSE 0

\* What deposits have set aside for lending is there, lent, or in lots that are
\* not sold yet: no repayment, partial or whole, no interest and no sale makes
\* the limit drift (deposit, withdrawal, loans, loansBack, auctionOver).
LimitReconciles ==
  setAside = bankLoanLimit + SumOf(AllLoans, Principal) + SumOf(auctionList, LotPrincipal)

\* The interest counted as owed covers what open loans and unsold lots owe, so
\* that auctionOver and loansBack, long after, can always subtract theirs.
\* It is only an inequality: loansBack does not count off the interest of a loan
\* repaid in full, nor interest that it has set to zero before.
InterestIsMinted ==
  SumOf(AllLoans, OwedInterest) + SumOf(auctionList, LotInterest) <= interestMint

\* The contract holds exactly the UNIT of its loan records, less what winners of
\* auctions have taken: partial repayments return rounded shares and a
\* liquidated record keeps its mortgage (loans, addLoans, loansBack, auctionOver).
MortgagesAreHeld ==
  SumOf(AllLoans, Mortgage) = unitBalance + SumOf(auctionList, Collected)

\* Whatever an account holds, a deposit is worth or depositors are still to get
\* is part of the supply, but for what direct calls did to balances and supply.
SupplyCoversClaims ==
  SumFunction(balance) + SumFunction(userDepositBalances) + loansTotalInterest
    <= totalSupply + unbacked
=============================================================================
