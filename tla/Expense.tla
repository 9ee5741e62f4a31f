------------------------------ MODULE Expense ------------------------------
(***************************************************************************)
(* The margins of producers (contracts/Treasure/Expense/Expense.sol), kept *)
(* by the production data contract: prepaid, withdrawn, and taken as a     *)
(* penalty.  One field is the margin of a depositor that is normal and the *)
(* debt of one that is not.  The debtor of a debt is the contract itself.  *)
(***************************************************************************)
EXTENDS Naturals

CONSTANTS Depositors,   \* the accounts that own producers or pay
          Payments,     \* the amounts of prepayments and withdrawals
          MaxFunds      \* bound on the contract's UNIT, for TLC

ASSUME ExpenseAssumption == Payments \subseteq Nat \ {0} /\ MaxFunds \in Nat

VARIABLES depositors,   \* account -> margin, status
          funds         \* the UNIT of the contract

expenseVars == <<depositors, funds>>

ExpenseInit == /\ depositors = [u \in Depositors |-> [margin |-> 0, status |-> "NotSet"]]
               /\ funds = 0

Depositor(margin, status) == [margin |-> margin, status |-> status]

\* A debt paid in full leaves the contract, for the zero address: the debtor is
\* forgotten before it is paid.  A part of it is paid to the contract itself.
Prepay(u, value) ==
  LET d == depositors[u]
  IN  IF d.status # "Abnormal"
      THEN /\ depositors' = [depositors EXCEPT ![u] = Depositor(d.margin + value, "Normal")]
           /\ funds' = funds + value
      ELSE IF d.margin <= value
           THEN /\ depositors' = [depositors EXCEPT ![u] = Depositor(value - d.margin, "Normal")]
                /\ funds' = funds + value - d.margin
           ELSE /\ depositors' = [depositors EXCEPT ![u].margin = @ - value]
                /\ funds' = funds + value

\* Mutant: a debtor withdraws too.
WithdrawDebt(u, amount) ==
  /\ amount <= depositors[u].margin
  /\ amount <= funds
  /\ depositors' = [depositors EXCEPT ![u].margin = @ - amount]
  /\ funds' = funds - amount

Withdraw(u, amount) ==
  /\ depositors[u].status = "Normal"
  /\ amount <= depositors[u].margin
  /\ amount <= funds
  /\ depositors' = [depositors EXCEPT ![u].margin = @ - amount]
  /\ funds' = funds - amount

\* A penalty is paid by the contract to itself, and so is the debt that remains
\* when the margin is too small: it has to be there.
Penalty(u, cost) ==
  LET d == depositors[u]
  IN  /\ d.status = "Normal"
      /\ IF cost <= d.margin
         THEN cost <= funds /\ depositors' = [depositors EXCEPT ![u].margin = @ - cost]
         ELSE /\ cost - d.margin <= funds
              /\ depositors' = [depositors EXCEPT ![u] = Depositor(cost - d.margin, "Abnormal")]
      /\ UNCHANGED funds

\* UNIT sent to the contract, alone or with a withdrawal.
Donate(value) == funds' = funds + value /\ UNCHANGED depositors

ExpenseStep ==
  \E value \in Payments :
    \/ /\ funds + value <= MaxFunds
       /\ Donate(value) \/ \E u \in Depositors : Prepay(u, value)
    \/ \E u \in Depositors : Withdraw(u, value)
=============================================================================
