---------------------------- MODULE TCashLending ----------------------------
(***************************************************************************)
(* The TCash system: the loan book and the collateral auctions over one    *)
(* token, as TCashLoan.sol and TCashAuction.sol call each other.  The loan *)
(* book lists collateral with auctionStart; getAuction calls back          *)
(* auctionOver before it burns the auction manager's TCash.                *)
(***************************************************************************)
EXTENDS TCashAuction, TCashLoan

lendingVars == <<tcashVars, auctionVars, loanVars, now>>

LendingInit == /\ LoanInit
               /\ AuctionInit
               /\ BlockTimeInit
               /\ balance = [u \in Accounts |-> InitBalance]
               /\ lockedBalances = [u \in Accounts |-> 0]
               /\ mintStatus = TRUE

\* The lot a loan record makes: its collateral, its debt, the interest in it.
AuctionStartFor(loan) == AuctionStart(loan.collateral, loan.debt, loan.interest)

\* startLiquidation, by the foundation manager: any loan that is not cleared,
\* as often as it is called; the loan itself stays as it is.
StartLiquidation(l) ==
  /\ loans[l].status # Cleared
  /\ auctionWired
  /\ AuctionStartFor(loans[l])
  /\ UNCHANGED <<tcashVars, loanVars>>

\* interestCalculation with its call of auctionStart.  Without an auction
\* contract the loan is liquidated and nothing is listed.
InterestPass(l) ==
  /\ InterestCalculation(l)
  /\ IF auctionWired /\ loans'[l].status = Liquidated
     THEN AuctionStartFor(loans'[l])
     ELSE UNCHANGED auctionVars

\* getAuction with its call of auctionOver.
Collect(n, u) ==
  /\ GetAuction(n, u)
  /\ LET a == auctionList[n]
     IN  AuctionOver(a.sales, a.debt, a.startValue - a.debt)

LoanSide ==
  \/ (BorrowerStep \/ OverrideStep \/ GetSRF \/ OuterStep \/ SetAuctionContract)
     /\ UNCHANGED auctionVars
  \/ SetMintStatus /\ UNCHANGED <<auctionVars, loanVars>>
  \/ \E l \in LoanIds : InterestPass(l) \/ StartLiquidation(l)

AuctionSide ==
  \/ \E n \in Listed, u \in Bidders :
        \/ (BidWithdrawal(n, u) \/ \E amount \in Amounts :
               bidValue[n][u] + amount <= MaxBid /\ Bid(n, u, amount))
           /\ UNCHANGED loanVars
        \/ Collect(n, u)
  \/ /\ UpgradeState \/ \E d \in 1..MaxDuration : UpdateBidDuration(d)
     /\ UNCHANGED <<tcashVars, loanVars>>
  \/ TokenStep /\ UNCHANGED loanVars

LendingNext == \/ (LoanSide \/ AuctionSide) /\ UNCHANGED now
               \/ Tick /\ UNCHANGED <<tcashVars, auctionVars, loanVars>>

LendingSpec == LendingInit /\ [][LendingNext]_lendingVars

-----------------------------------------------------------------------------

Sold == {n \in Listed : auctionList[n].state = 2}

\* The starting prices, and the UNIT, of the auctions collected.
SoldFor   == SumFunctionOnSet([n \in Listed |-> auctionList[n].startValue], Sold)
SoldUnits == SumFunctionOnSet([n \in Listed |-> auctionList[n].sales], Sold)

\* What the system counts as outstanding and what the loan records still say is
\* owed differ exactly by the starting prices of the auctions collected: a
\* collection takes the debt out of the system's books and leaves it in the
\* loan (auctionOver, repay, interestCalculation).
OutstandingReconciles ==
  Debts(LoanIds) = sys.OLB + SoldFor

\* The UNIT in the contract and the UNIT the loan records claim differ exactly by
\* what winners have taken away (auctionOver, repay, createLoan, collateralTopUp).
UnitReconciles ==
  ~Overrides => Collateral(LoanIds) = unitBalance + SoldUnits

\* getAuction can always split a starting price into interest and principal, and
\* no lot is a debt of nothing, which burnFrom would refuse.
LotsCanBeSettled ==
  \A n \in Listed : /\ auctionList[n].debt <= auctionList[n].startValue
                    /\ ~Overrides => auctionList[n].startValue > 0
=============================================================================
