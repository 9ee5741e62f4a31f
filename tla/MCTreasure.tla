----------------------------- MODULE MCTreasure -----------------------------
EXTENDS Treasure, TLC

\* No definition tells one account from another.
AccountsAlike == Permutations(Accounts)
=============================================================================
