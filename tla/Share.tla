------------------------------- MODULE Share -------------------------------
(***************************************************************************)
(* The shares of one producer (contracts/Treasure/Share.sol): its owner    *)
(* gives pieces of what the mine earns to holders, holders pass pieces on, *)
(* and holders without pieces are deleted.  The contract keeps all of this *)
(* by unique id, and no call looks at two of them.                         *)
(*                                                                         *)
(* Positions in the list start at 1 (at 0 in the code).                    *)
(***************************************************************************)
EXTENDS Naturals, Sequences, FiniteSets

CONSTANTS Accounts,
          NoOne,        \* the zero address
          Ratios,       \* the pieces of calls
          MaxHolders,   \* MAX_HOLDERS, without the owner
          MaxPieces,    \* MAX_PIECES
          MaxDoubled    \* bound on the pieces holders give themselves, for TLC

ASSUME ShareAssumption ==
  /\ IsFiniteSet(Accounts)
  /\ NoOne \notin Accounts
  /\ Ratios \subseteq Nat
  /\ {MaxHolders, MaxPieces, MaxDoubled} \subseteq Nat

VARIABLES shareOwner,       \* _owners
          holders,          \* account -> ratio, index, and whether it is a holder
          holderAddresses,  \* the list rewards are paid along
          totalHolders, totalShared,
          doubled           \* history: the pieces holders have given themselves

shareVars == <<shareOwner, holders, holderAddresses, totalHolders, totalShared, doubled>>

NotHolder == [ratio |-> 0, index |-> 0, flag |-> FALSE]

ShareInit ==
  /\ shareOwner = NoOne
  /\ holders = [a \in Accounts |-> NotHolder]
  /\ holderAddresses = <<>>
  /\ totalHolders = 0 /\ totalShared = 0 /\ doubled = 0

SetOwner(owner) ==
  /\ shareOwner = NoOne
  /\ shareOwner' = owner
  /\ UNCHANGED <<holders, holderAddresses, totalHolders, totalShared, doubled>>

\* A new holder goes to the end of the list, and remembers where it is.
Enter(a) ==
  IF holders[a].flag
  THEN UNCHANGED <<holderAddresses, totalHolders>>
  ELSE /\ totalHolders < MaxHolders
       /\ totalHolders' = totalHolders + 1
       /\ holderAddresses' = Append(holderAddresses, a)

Index(a) == IF holders[a].flag THEN holders[a].index ELSE Len(holderAddresses) + 1

\* Mutant: what the holder had is not taken out of the sum.
SetHolderOnTop(a, ratio) ==
  /\ shareOwner \notin {NoOne, a}
  /\ totalShared + ratio <= MaxPieces
  /\ Enter(a)
  /\ holders' = [holders EXCEPT ![a] = [ratio |-> ratio, index |-> Index(a), flag |-> TRUE]]
  /\ totalShared' = totalShared + ratio
  /\ UNCHANGED <<shareOwner, doubled>>

\* setHolders, by the owner.  A call with several holders is one after another.
SetHolder(a, ratio) ==
  /\ shareOwner \notin {NoOne, a}
  /\ ratio <= MaxPieces
  /\ holders[a].ratio <= totalShared + ratio
  /\ totalShared + ratio - holders[a].ratio <= MaxPieces
  /\ Enter(a)
  /\ holders' = [holders EXCEPT ![a] = [ratio |-> ratio, index |-> Index(a), flag |-> TRUE]]
  /\ totalShared' = totalShared + ratio - holders[a].ratio
  /\ UNCHANGED <<shareOwner, doubled>>

\* Mutant: the receiver is not entered into the list.
SplitHolderUnlisted(u, a, ratio) ==
  /\ holders[u].flag /\ ratio <= holders[u].ratio
  /\ holders' = [holders EXCEPT ![u].ratio = @ - ratio,
                                ![a] = [ratio |-> holders[a].ratio + ratio, index |-> Index(a), flag |-> TRUE]]
  /\ doubled' = IF a = u THEN doubled + ratio ELSE doubled
  /\ doubled' <= MaxDoubled
  /\ UNCHANGED <<shareOwner, holderAddresses, totalHolders, totalShared>>

\* Holder u gives pieces to a, also to the owner.  The receiver's record is
\* read before the sender's is written and written after it: who gives to
\* itself has gained what it gave.
SplitHolder(u, a, ratio) ==
  /\ ratio <= MaxPieces
  /\ holders[u].flag /\ ratio <= holders[u].ratio
  /\ Enter(a)
  /\ holders' = [holders EXCEPT ![u].ratio = @ - ratio,
                                ![a] = [ratio |-> holders[a].ratio + ratio, index |-> Index(a), flag |-> TRUE]]
  /\ doubled' = IF a = u THEN doubled + ratio ELSE doubled
  /\ doubled' <= MaxDoubled
  /\ UNCHANGED <<shareOwner, totalShared>>

\* deleteHolder, by the owner: the last address takes the place of a's, and its
\* holder is not told.  With a single address no place is looked at.
DeleteHolder(a) ==
  /\ shareOwner # NoOne
  /\ holders[a].flag /\ holders[a].ratio = 0
  /\ holderAddresses # <<>>
  /\ LET last == Len(holderAddresses)
         i == holders[a].index
     IN  /\ last > 1 => i \in 1..last
         /\ holderAddresses' = [j \in 1..last - 1 |-> IF last > 1 /\ j = i THEN holderAddresses[last]
                                                      ELSE holderAddresses[j]]
  /\ holders' = [holders EXCEPT ![a] = NotHolder]
  /\ totalHolders' = totalHolders - 1
  /\ UNCHANGED <<shareOwner, totalShared, doubled>>

ShareStep ==
  \E a \in Accounts :
    \/ DeleteHolder(a)
    \/ \E ratio \in Ratios : SetHolder(a, ratio) \/ \E u \in Accounts : SplitHolder(u, a, ratio)

-----------------------------------------------------------------------------

\* What the holders on the list get of a reward, in its order, and the owner.
Reward(ratio, total) == (ratio * total) \div MaxPieces
HolderRewards(total) ==
  [i \in 1..totalHolders |-> Reward(holders[holderAddresses[i]].ratio, total)]
=============================================================================
