-------------------------------- MODULE Sale --------------------------------
(***************************************************************************)
(* What an ascending auction promises, for any number of lots: the price   *)
(* only rises, whoever raises it leads, and once the hammer has fallen on  *)
(* a leader, leader and price stand and the lot is handed over once.       *)
(***************************************************************************)
EXTENDS Naturals

CONSTANTS LotIds, Buyers, Nobody

VARIABLES stage,          \* lot -> where its sale stands
          leader, price

saleVars == <<stage, leader, price>>

SaleInit == /\ stage = [n \in LotIds |-> "unlisted"]
            /\ leader = [n \in LotIds |-> Nobody]
            /\ price = [n \in LotIds |-> 0]

\* Only the prices of the lots of S change.
MovePrices(S) == /\ price' \in [LotIds -> Nat]
                 /\ \A m \in LotIds \ S : price'[m] = price[m]

\* The lots of S are offered, each at its price.
Offer(S) == /\ \A n \in S : stage[n] = "unlisted"
            /\ stage' = [n \in LotIds |-> IF n \in S THEN "open" ELSE stage[n]]
            /\ MovePrices(S)
            /\ UNCHANGED leader

Raise(n) == /\ stage[n] = "open"
            /\ \E u \in Buyers : leader' = [leader EXCEPT ![n] = u]
            /\ MovePrices({n})
            /\ price'[n] > price[n]
            /\ UNCHANGED stage

\* The hammer falls on the lots of S, all of them led by someone.
Hammer(S) == /\ \A n \in S : stage[n] = "open" /\ leader[n] # Nobody
             /\ stage' = [n \in LotIds |-> IF n \in S THEN "fallen" ELSE stage[n]]
             /\ UNCHANGED <<leader, price>>

Hand(n) == /\ stage[n] = "fallen"
           /\ stage' = [stage EXCEPT ![n] = "sold"]
           /\ UNCHANGED <<leader, price>>

SaleNext == \/ \E n \in LotIds : Raise(n) \/ Hand(n)
            \/ \E S \in SUBSET LotIds : Offer(S) \/ Hammer(S)

SaleSpec == SaleInit /\ [][SaleNext]_saleVars
=============================================================================
