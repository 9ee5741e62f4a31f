---- MODULE BlockTime ----
(* What the contracts read as block.timestamp.  Auctions, loans, proposals
   and token locks compare it with deadlines they stored earlier and with
   nothing else, so one unit per block is enough; calls made between two
   blocks see the same value. *)
EXTENDS Naturals

VARIABLE now      \* the timestamp of the current block

CONSTANT MaxTime  \* the last timestamp TLC explores

ASSUME MaxTimeAssumption == MaxTime \in Nat

\* Deadlines are relative, so the first block may as well have timestamp 0.
BlockTimeInit == now = 0

\* The next block is mined: every contract sees a later timestamp at once.
Tick ==
  /\ now < MaxTime
  /\ now' = now + 1
====
