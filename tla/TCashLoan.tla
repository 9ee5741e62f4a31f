----------------------------- MODULE TCashLoan -----------------------------
(***************************************************************************)
(* The loan book (contracts/TCash/TCashLoan.sol): UNIT is pledged for      *)
(* freshly minted TCash, interest accrues once a day, repayments burn      *)
(* TCash and release UNIT, and a pass of the foundation manager marks      *)
(* loans for warning or liquidation.  Loan ids are 1, 2, ... (0, 1, ...    *)
(* in the code).                                                           *)
(*                                                                         *)
(* Left out: the prices stored in a loan (every handler that reads them    *)
(* refreshes them first), its creation time (only views read it), and the  *)
(* order of a user's loans (only their number is used).                    *)
(***************************************************************************)
EXTENDS TCash, BlockTime, Integers, Sequences, FiniteSets, Functions

CONSTANTS Borrowers,      \* the accounts that borrow
          DIR, MCT, LT, RC,       \* TCASHDIR, TCASHMCT, TCASHLT, TCASHRC
          MinLoan,        \* minAmount, 1e9 in the code
          OneDay,         \* the 1 days of getSRF
          UnitPrices, TCashPrices,    \* the prices the oracle reports
          TATTotals,      \* the sums of a borrower's TAT record
          Values,         \* the UNIT sent with a call
          RepayAmounts,   \* the TCash repaid, besides the whole debt
          InitBalance,    \* the TCash an account starts with
          Overrides,      \* whether the foundation manager uses setRecord
                          \* and setLoanStatus
          MaxLoans,       \* bounds for TLC: loans, days of interest on a loan,
          MaxIST, MaxCollateral       \* and UNIT pledged for a loan

ASSUME LoanAssumption ==
  /\ Borrowers \subseteq Accounts
  /\ DIR \in Nat /\ MCT \in Nat /\ LT \in Nat /\ RC \in Nat
  /\ MinLoan \in Nat \ {0}
  /\ OneDay \in Nat
  /\ UnitPrices \subseteq Nat \ {0} /\ TCashPrices \subseteq Nat \ {0}
  /\ TATTotals \subseteq Nat
  /\ Values \subseteq Nat \ {0} /\ RepayAmounts \subseteq Nat \ {0}
  /\ InitBalance \in Nat
  /\ Overrides \in BOOLEAN
  /\ MaxLoans \in Nat /\ MaxIST \in Nat /\ MaxCollateral \in Nat

VARIABLES loans,            \* loan id -> record
          maxBorrowable,    \* userBorrowLimits, by account
          totalBorrowed,
          personal,         \* personalLoanData
          sys,              \* sysLoanData
          systemRiskFactor, \* the cached SRF
          lastSRFCalculationTime,
          unitBalance,      \* the UNIT the loan contract holds
          auctionWired,     \* setAuctionContract has been called
          unitPrice, tcashPrice,      \* the oracle's prices
          tatTotal          \* sum of the TAT record, 0 below two months

bookVars   == <<loans, maxBorrowable, totalBorrowed, personal, sys>>
outerVars  == <<unitPrice, tcashPrice, tatTotal>>
riskVars   == <<systemRiskFactor, lastSRFCalculationTime>>
loanVars   == <<bookVars, riskVars, unitBalance, auctionWired, outerVars>>

Open == 0
Cleared == 1
Warned == 2
Liquidated == 3

Loan == [account : Borrowers, collateral : Nat, debt : Nat, interest : Nat,
         IST : Nat, status : 0..3]

LoanTypeOK ==
  /\ loans \in Seq(Loan)
  /\ maxBorrowable \in [Borrowers -> Nat]
  /\ totalBorrowed \in [Borrowers -> Nat]
  /\ personal \in [Borrowers -> [NCL : Nat, TNL : Nat, TLA : Nat, TRA : Nat]]
  /\ sys \in [OLB : Nat, RA : Nat, TLD : Nat]
  /\ systemRiskFactor \in Nat
  /\ lastSRFCalculationTime \in Nat
  /\ unitBalance \in Nat
  /\ auctionWired \in BOOLEAN
  /\ unitPrice \in UnitPrices
  /\ tcashPrice \in TCashPrices
  /\ tatTotal \in [Borrowers -> TATTotals]

LoanInit ==
  /\ loans = <<>>
  /\ maxBorrowable = [u \in Borrowers |-> 0]
  /\ totalBorrowed = [u \in Borrowers |-> 0]
  /\ personal = [u \in Borrowers |-> [NCL |-> 0, TNL |-> 0, TLA |-> 0, TRA |-> 0]]
  /\ sys = [OLB |-> 0, RA |-> 0, TLD |-> 0]
  /\ systemRiskFactor = 10000
  /\ lastSRFCalculationTime = 0
  /\ unitBalance = 0
  /\ auctionWired = FALSE
  /\ unitPrice \in UnitPrices
  /\ tcashPrice \in TCashPrices
  /\ tatTotal \in [Borrowers -> TATTotals]

LoanIds == 1..Len(loans)
LoansOf(u) == {l \in LoanIds : loans[l].account = u}

-----------------------------------------------------------------------------
(***************************************************************************)
(* Credit, risk factors and collateral ratio.                              *)
(***************************************************************************)

\* Personal credit limit: the 3-month average, times 3 or times 12.
PCL(u) == (tatTotal[u] \div 3) * (IF Cardinality(LoansOf(u)) <= 2 THEN 3 ELSE 12)

\* What the account can still borrow.
ALB(u) == IF PCL(u) > totalBorrowed[u] THEN PCL(u) - totalBorrowed[u] ELSE 0

\* values[i + 1] where i of the increasing bounds are below x.
Band(x, bounds, values) ==
  values[1 + Cardinality({i \in DOMAIN bounds : x > bounds[i]})]

PRF(u) ==
  LET p == personal[u]
      occupancy == Band((p.TLA * 10000) \div PCL(u), <<8500, 9500>>, <<10000, 8000, 6000>>)
      repayment == Band((p.NCL * 10000) \div p.TNL, <<3000, 6000, 8000>>,
                        <<4000, 5000, 8000, 10000>>)
  IN  IF p.TNL = 0 \/ p.TNL - p.NCL <= 2 \/ PCL(u) = 0 THEN 10000
      ELSE (occupancy * (IF p.NCL = 0 THEN 2000 ELSE repayment)) \div 10000

\* Rows by OLB / total supply, columns by RA / TLD.
SRFTable == << <<10000, 9000, 7000, 5000, 3000>>,
               << 9000, 8000, 7000, 4000, 2000>>,
               << 8000, 7000, 6000, 3000, 1000>>,
               << 5000, 4000, 3000, 2000, 1000>>,
               << 2000, 1000, 1000, 1000, 1000>> >>

totalSupply == SumFunction(balance)

SRF ==
  LET lent   == (sys.OLB * 10000) \div totalSupply
      repaid == (sys.RA * 10000) \div sys.TLD
      row == 1 + Cardinality({i \in 1..4 : lent >= <<6000, 7000, 8000, 9000>>[i]})
      col == 1 + Cardinality({i \in 1..4 : repaid <= <<3000, 2000, 1000, 500>>[i]})
  IN  IF totalSupply = 0 \/ sys.TLD = 0 THEN 10000
      ELSE SRFTable[row][col]

CRF(u) == (PRF(u) * systemRiskFactor) \div 10000

\* Collateral value over debt, in millionths; the division reverts at debt 0.
CollateralRatio(collateral, debt) ==
  (collateral * unitPrice * 1000000) \div (debt * tcashPrice)

\* calculateLoanAmount: never above what is left of the credit limit, except
\* that it never goes below the minimum.
LoanAmount(u, unitAmount) ==
  LET byValue == (unitAmount * unitPrice * CRF(u)) \div (10000 * tcashPrice)
      capped  == IF byValue > ALB(u) THEN ALB(u) ELSE byValue
  IN  IF capped < MinLoan THEN MinLoan ELSE capped

\* calculateUnitToRelease: the share of the collateral a repayment frees.
UnitToRelease(loan, amount) == (amount * loan.collateral) \div loan.debt

DailyInterest(debt) == (debt * DIR) \div 10000

-----------------------------------------------------------------------------
(***************************************************************************)
(* The handlers.  Each leaves the token to the operator it calls.          *)
(***************************************************************************)

\* Mutant: the first day's interest is missing in the borrower's loan total.
RecordLoanWithoutInterest(u, amount, collateral) ==
  LET interest == DailyInterest(amount)
      debt     == amount + interest
  IN  /\ Len(loans) < MaxLoans
      /\ loans' = Append(loans, [account |-> u, collateral |-> collateral, debt |-> debt,
                                 interest |-> interest, IST |-> 1, status |-> Open])
      /\ totalBorrowed' = [totalBorrowed EXCEPT ![u] = @ + debt]
      /\ personal' = [personal EXCEPT ![u].TNL = @ + 1, ![u].TLA = @ + amount]
      /\ sys' = [sys EXCEPT !.OLB = @ + debt, !.TLD = @ + debt]

\* _setRecord: the first day's interest is part of the debt from the start.
RecordLoan(u, amount, collateral) ==
  LET interest == DailyInterest(amount)
      debt     == amount + interest
  IN  /\ Len(loans) < MaxLoans
      /\ loans' = Append(loans, [account |-> u, collateral |-> collateral, debt |-> debt,
                                 interest |-> interest, IST |-> 1, status |-> Open])
      /\ totalBorrowed' = [totalBorrowed EXCEPT ![u] = @ + debt]
      /\ personal' = [personal EXCEPT ![u].TNL = @ + 1, ![u].TLA = @ + debt]
      /\ sys' = [sys EXCEPT !.OLB = @ + debt, !.TLD = @ + debt]

\* u sends value UNIT and receives the TCash it can borrow on it.
CreateLoan(u, value) ==
  /\ value > 0
  /\ ALB(u) > 0
  /\ CRF(u) > 0
  /\ maxBorrowable' = [maxBorrowable EXCEPT ![u] = PCL(u)]
  /\ RecordLoan(u, LoanAmount(u, value), value)
  /\ Mint(u, LoanAmount(u, value))
  /\ unitBalance' = unitBalance + value
  /\ UNCHANGED <<riskVars, auctionWired, outerVars>>

\* setRecord, by the foundation manager: a loan with neither UNIT nor TCash.
SetRecord(u, amount, collateral) ==
  /\ amount > 0
  /\ collateral > 0
  /\ RecordLoan(u, amount, collateral)
  /\ UNCHANGED <<tcashVars, maxBorrowable, riskVars, unitBalance, auctionWired, outerVars>>

\* evaluateMaxBorrowable: anyone refreshes the cached limit.
EvaluateMaxBorrowable(u) ==
  /\ maxBorrowable' = [maxBorrowable EXCEPT ![u] = PCL(u)]
  /\ UNCHANGED <<tcashVars, loans, totalBorrowed, personal, sys, riskVars, unitBalance,
                 auctionWired, outerVars>>

\* Mutant: a loan is cleared when its interest is.
RepaidClearsEarly(loan, amount) ==
  [loan EXCEPT !.interest = IF amount <= @ THEN @ - amount ELSE 0,
               !.debt = @ - amount,
               !.collateral = @ - UnitToRelease(loan, amount),
               !.status = IF amount >= loan.interest THEN Cleared ELSE @]

\* A loan after a repayment: interest is paid before principal.
Repaid(loan, amount) ==
  [loan EXCEPT !.interest = IF amount <= @ THEN @ - amount ELSE 0,
               !.debt = @ - amount,
               !.collateral = @ - UnitToRelease(loan, amount),
               !.status = IF amount = loan.debt THEN Cleared ELSE @]

\* Mutant: every repayment counts as a cleared loan.
CountRepaymentAlways(p, loan, amount) == [p EXCEPT !.TRA = @ + amount, !.NCL = @ + 1]

\* The borrower's counters after it: TLA stays.
CountRepayment(p, loan, amount) ==
  [p EXCEPT !.TRA = @ + amount,
            !.NCL = IF amount = loan.debt THEN @ + 1 ELSE @]

\* repay: the status is not looked at.
Repay(l, amount) ==
  LET loan  == loans[l]
      u     == loan.account
      units == UnitToRelease(loan, amount)
  IN  /\ amount > 0
      /\ amount <= loan.debt
      /\ BurnFrom(u, amount)
      /\ amount <= totalBorrowed[u]
      /\ amount <= sys.OLB
      /\ units <= unitBalance
      /\ loans' = [loans EXCEPT ![l] = Repaid(loan, amount)]
      /\ totalBorrowed' = [totalBorrowed EXCEPT ![u] = @ - amount]
      /\ personal' = [personal EXCEPT ![u] = CountRepayment(@, loan, amount)]
      /\ sys' = [sys EXCEPT !.OLB = @ - amount, !.RA = @ + amount]
      /\ unitBalance' = unitBalance - units
      /\ UNCHANGED <<maxBorrowable, riskVars, auctionWired, outerVars>>

\* Mutant: a loan with nothing owed is healthy, and can be topped up.
CollateralTopUpAnyLoan(l, value) ==
  /\ value > 0
  /\ loans' = [loans EXCEPT
       ![l].collateral = @ + value,
       ![l].status =
         IF loans[l].debt = 0 THEN Open
         ELSE LET ratio == CollateralRatio(loans[l].collateral + value, loans[l].debt)
              IN  IF ratio >= MCT THEN Open ELSE IF ratio <= LT THEN Liquidated ELSE Warned]
  /\ unitBalance' = unitBalance + value
  /\ UNCHANGED <<tcashVars, maxBorrowable, totalBorrowed, personal, sys, riskVars,
                 auctionWired, outerVars>>

\* The status follows the new ratio, whatever it was; no auction is touched.
CollateralTopUp(l, value) ==
  LET ratio == CollateralRatio(loans[l].collateral + value, loans[l].debt)
  IN  /\ value > 0
      /\ loans[l].debt > 0
      /\ loans' = [loans EXCEPT
           ![l].collateral = @ + value,
           ![l].status = IF ratio >= MCT THEN Open
                         ELSE IF ratio <= LT THEN Liquidated ELSE Warned]
      /\ unitBalance' = unitBalance + value
      /\ UNCHANGED <<tcashVars, maxBorrowable, totalBorrowed, personal, sys, riskVars,
                     auctionWired, outerVars>>

\* The status a day's interest leaves a loan of ratio and IST in.
StatusAfterInterest(status, ratio, ist) ==
  IF ratio <= LT \/ ist >= RC THEN Liquidated
  ELSE IF ratio <= MCT THEN Warned ELSE status

\* interestCalculation: one more day.  A loan that reaches liquidation leaves
\* the borrower's books; its auction is the composing module's business.
InterestCalculation(l) ==
  LET loan     == loans[l]
      u        == loan.account
      interest == DailyInterest(loan.debt)
      debt     == loan.debt + interest
      status   == StatusAfterInterest(loan.status,
                    CollateralRatio(loan.collateral, debt), loan.IST + 1)
      written  == IF status = Liquidated THEN debt ELSE 0
  IN  /\ loan.status \notin {Cleared, Liquidated}
      /\ debt > 0
      /\ loan.IST < MaxIST
      /\ written <= personal[u].TLA + interest
      /\ written <= totalBorrowed[u] + interest
      /\ loans' = [loans EXCEPT ![l] = [loan EXCEPT !.interest = @ + interest, !.debt = debt,
                                                   !.IST = @ + 1, !.status = status]]
      /\ totalBorrowed' = [totalBorrowed EXCEPT ![u] = (@ + interest) - written]
      /\ personal' = [personal EXCEPT ![u].TLA = (@ + interest) - written]
      /\ sys' = [sys EXCEPT !.OLB = @ + interest, !.TLD = @ + interest]
      /\ UNCHANGED <<tcashVars, maxBorrowable, riskVars, unitBalance, auctionWired, outerVars>>

\* setLoanStatus, by the foundation manager: any status, nothing else.
SetLoanStatus(l, status) ==
  /\ loans' = [loans EXCEPT ![l].status = status]
  /\ UNCHANGED <<tcashVars, maxBorrowable, totalBorrowed, personal, sys, riskVars,
                 unitBalance, auctionWired, outerVars>>

\* Mutants: only the principal leaves the books; the collateral is not sent.
AuctionOverPrincipal(tokens, a, b) ==
  /\ tokens <= unitBalance
  /\ a + b <= sys.OLB
  /\ unitBalance' = unitBalance - tokens
  /\ sys' = [sys EXCEPT !.OLB = @ - b, !.RA = @ + b]
  /\ UNCHANGED <<loans, maxBorrowable, totalBorrowed, personal, riskVars, auctionWired,
                 outerVars>>
AuctionOverUnsent(tokens, a, b) ==
  /\ a + b <= sys.OLB
  /\ sys' = [sys EXCEPT !.OLB = @ - (a + b), !.RA = @ + (a + b)]
  /\ UNCHANGED <<loans, maxBorrowable, totalBorrowed, personal, riskVars, unitBalance,
                 auctionWired, outerVars>>

\* auctionOver, by the auction contract: the collateral goes to the winner and
\* the books count the starting price as repaid.  No loan is touched.
AuctionOver(tokens, a, b) ==
  /\ tokens <= unitBalance
  /\ a + b <= sys.OLB
  /\ unitBalance' = unitBalance - tokens
  /\ sys' = [sys EXCEPT !.OLB = @ - (a + b), !.RA = @ + (a + b)]
  /\ UNCHANGED <<loans, maxBorrowable, totalBorrowed, personal, riskVars, auctionWired,
                 outerVars>>

\* getSRF: the cached factor is recomputed at most once a day.
GetSRF ==
  /\ now >= lastSRFCalculationTime + OneDay
  /\ systemRiskFactor' = SRF
  /\ lastSRFCalculationTime' = now
  /\ UNCHANGED <<tcashVars, bookVars, unitBalance, auctionWired, outerVars>>

SetAuctionContract ==
  /\ auctionWired' = TRUE
  /\ UNCHANGED <<tcashVars, bookVars, riskVars, unitBalance, outerVars>>

\* The oracle reports new prices, or the month's TAT record comes in.
OuterStep ==
  /\ unitPrice' \in UnitPrices
  /\ tcashPrice' \in TCashPrices
  /\ tatTotal' \in [Borrowers -> TATTotals]
  /\ UNCHANGED <<tcashVars, bookVars, riskVars, unitBalance, auctionWired>>

-----------------------------------------------------------------------------
(***************************************************************************)
(* The loan book on its own, before the auction contract is wired in.      *)
(***************************************************************************)

allLoanVars == <<tcashVars, loanVars, now>>

LoanSpecInit == /\ LoanInit
                /\ BlockTimeInit
                /\ balance = [u \in Accounts |-> InitBalance]
                /\ lockedBalances = [u \in Accounts |-> 0]
                /\ mintStatus \in BOOLEAN

BorrowerStep ==
  \/ \E u \in Borrowers, value \in Values : CreateLoan(u, value)
  \/ \E l \in LoanIds, value \in Values :
        loans[l].collateral + value <= MaxCollateral /\ CollateralTopUp(l, value)
  \/ \E l \in LoanIds : \E amount \in RepayAmounts \cup {loans[l].debt} : Repay(l, amount)
  \/ \E u \in Borrowers : EvaluateMaxBorrowable(u)

OverrideStep ==
  /\ Overrides
  /\ \/ \E u \in Borrowers, amount \in RepayAmounts, value \in Values : SetRecord(u, amount, value)
     \/ \E l \in LoanIds, status \in 0..3 : SetLoanStatus(l, status)

LoanNext ==
  \/ /\ \/ BorrowerStep
        \/ OverrideStep
        \/ \E l \in LoanIds : InterestCalculation(l)
        \/ GetSRF
        \/ OuterStep
        \/ SetMintStatus /\ UNCHANGED loanVars
     /\ UNCHANGED now
  \/ Tick /\ UNCHANGED <<tcashVars, loanVars>>

LoanSpec == LoanSpecInit /\ [][LoanNext]_allLoanVars

-----------------------------------------------------------------------------

\* Type correctness of the token and the loan book: no checked subtraction of
\* repay, interestCalculation or auctionOver goes below zero.
LoanStateOK == TCashTypeOK /\ LoanTypeOK /\ now \in Nat

Debts(ids) == SumFunctionOnSet([l \in LoanIds |-> loans[l].debt], ids)
Collateral(ids) == SumFunctionOnSet([l \in LoanIds |-> loans[l].collateral], ids)

\* The books agree, whatever was lent, accrued, repaid, liquidated or sold:
\* everything ever lent is outstanding or repaid, and a borrower's running loan
\* total is its borrowed amount plus what it has repaid (repay does not lower
\* TLA; liquidation lowers TLA and totalBorrowed together).
BooksBalance ==
  /\ sys.TLD = sys.OLB + sys.RA
  /\ \A u \in Borrowers : personal[u].TLA = totalBorrowed[u] + personal[u].TRA

\* The interest part of a debt never exceeds the debt: the split of a starting
\* price in getAuction, and the principal the views report, cannot underflow.
InterestWithinDebt == \A l \in LoanIds : loans[l].interest <= loans[l].debt

\* The counters of getPRF count: TNL the loans of the account, NCL the ones
\* paid off, each once, however often their status was set back.
CountersCount ==
  \A u \in Borrowers :
    /\ personal[u].TNL = Cardinality(LoansOf(u))
    /\ personal[u].NCL = Cardinality({l \in LoansOf(u) : loans[l].debt = 0})

\* Without overrides, a loan is marked as cleared exactly when nothing is owed,
\* and then its collateral is out: no top-up or interest pass reopens it.
ClearedMeansPaid ==
  ~Overrides => \A l \in LoanIds :
    /\ (loans[l].status = Cleared) = (loans[l].debt = 0)
    /\ loans[l].debt = 0 => loans[l].collateral = 0 /\ loans[l].interest = 0

\* A loan that is paid off is never touched again, except for its status.
PaidOffIsFinal ==
  [][\A l \in LoanIds : loans[l].debt = 0 =>
       loans'[l] = [loans[l] EXCEPT !.status = loans'[l].status]]_allLoanVars
=============================================================================
