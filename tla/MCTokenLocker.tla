---------------------------- MODULE MCTokenLocker ----------------------------
(***************************************************************************)
(* TLC instance of TokenLocker: a manager and a beneficiary, two plans.    *)
(***************************************************************************)
EXTENDS TokenLocker, TLC

PlanSymmetry == Permutations(PlanIDs)
=============================================================================
