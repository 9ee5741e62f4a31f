---------------------------- MODULE TCashAuction ----------------------------
(***************************************************************************)
(* The collateral auctions (contracts/TCash/TCashAuction.sol) over the     *)
(* TCash token.  The loan contract lists collateral; anyone bids by        *)
(* raising its own total bid, which locks TCash; an outbid bidder          *)
(* withdraws; after the deadline the leader collects, and the auction      *)
(* manager's TCash is burned for the starting price.                       *)
(*                                                                         *)
(* Auction ids are 1, 2, ... (0, 1, ... in the code).  The list of bidders *)
(* that only getAuctionBider reads is left out.                            *)
(***************************************************************************)
EXTENDS TCash, BlockTime, Sequences, Functions

CONSTANTS Bidders,        \* the accounts that bid
          AuctionManagers, \* the members of the AUCTION_MANAGER role, in any order
          NoOne,          \* the zero address
          InitDuration,   \* bidDuration after initialize
          MaxDuration,    \* the 30 days of updateBidDuration
          Amounts,        \* the amounts of bids
          TokenAmounts,   \* the amounts of transfers, mints and burns
          Lots,           \* what the loan contract lists, see LotsAssumption
          MaxBalance,     \* bound on a balance, for TLC only
          MaxBid,         \* bound on a total bid, for TLC only: bidCost has none
          MaxAuctions     \* bound on the number of auctions, for TLC only

ASSUME AuctionAssumption ==
  /\ Bidders \subseteq Accounts
  /\ AuctionManagers \subseteq Accounts
  /\ NoOne \notin Accounts
  /\ MaxDuration \in Nat \ {0}
  /\ InitDuration \in 1..MaxDuration
  /\ Amounts \subseteq Nat
  /\ TokenAmounts \subseteq Nat
  /\ MaxBalance \in Nat
  /\ MaxBid \in Nat
  /\ MaxAuctions \in Nat

\* The loan contract lists a debt together with the interest it includes.
ASSUME LotsAssumption ==
  \A lot \in Lots : /\ lot \in [mortgage : Nat, debt : Nat, interest : Nat]
                     /\ lot.interest <= lot.debt

AuctionIds == 1..MaxAuctions

VARIABLES auctionList,    \* the auctions, in the order they were listed
          bider,          \* auction -> the leading bidder
          bidValue,       \* auction -> account -> its total bid
          bidDuration

auctionVars == <<auctionList, bider, bidValue, bidDuration>>

Auction == [sales : Nat, startValue : Nat, nowValue : Nat, timeOver : Nat,
            state : {1, 2}, debt : Nat]

AuctionTypeOK ==
  /\ auctionList \in Seq(Auction)
  /\ Len(auctionList) <= MaxAuctions
  /\ bider \in [AuctionIds -> Bidders \cup {NoOne}]
  /\ bidValue \in [AuctionIds -> [Bidders -> Nat]]
  /\ bidDuration \in 1..MaxDuration

AuctionInit == /\ auctionList = <<>>
               /\ bider = [n \in AuctionIds |-> NoOne]
               /\ bidValue = [n \in AuctionIds |-> [u \in Bidders |-> 0]]
               /\ bidDuration = InitDuration

Listed == 1..Len(auctionList)

-----------------------------------------------------------------------------

\* Called by the loan contract: mortgage is the collateral for sale, debt the
\* starting price, interest the part of it that is interest.
AuctionStart(mortgage, debt, interest) ==
  /\ Len(auctionList) < MaxAuctions
  /\ auctionList' = Append(auctionList,
       [sales |-> mortgage, startValue |-> debt, nowValue |-> debt,
        timeOver |-> now + bidDuration, state |-> 1, debt |-> interest])
  /\ UNCHANGED <<bider, bidValue, bidDuration>>

\* A bid adds bidAmount to what u has already bid on auction n.
Bid(n, u, bidAmount) ==
  /\ n \in Listed
  /\ auctionList[n].timeOver > now
  /\ auctionList[n].nowValue < bidValue[n][u] + bidAmount
  /\ BidCost(u, bidAmount)
  /\ bider' = [bider EXCEPT ![n] = u]
  /\ auctionList' = [auctionList EXCEPT ![n].nowValue = bidValue[n][u] + bidAmount]
  /\ bidValue' = [bidValue EXCEPT ![n][u] = @ + bidAmount]
  /\ UNCHANGED bidDuration

\* Mutant: the bid is not reset.
BidWithdrawalKeepsBid(n, u) ==
  /\ n \in Listed
  /\ bider[n] # u
  /\ bidValue[n][u] > 0
  /\ BidBack(u, bidValue[n][u])
  /\ UNCHANGED auctionVars

\* Anyone but the leader takes its whole bid back, at any time.
BidWithdrawal(n, u) ==
  /\ n \in Listed
  /\ bider[n] # u
  /\ bidValue[n][u] > 0
  /\ BidBack(u, bidValue[n][u])
  /\ bidValue' = [bidValue EXCEPT ![n][u] = 0]
  /\ UNCHANGED <<auctionList, bider, bidDuration>>

\* Mutant: the deadline is not waited for.
GetAuctionEarly(n, u) ==
  /\ n \in Listed
  /\ auctionList[n].state # 2
  /\ bider[n] = u
  /\ auctionList[n].debt <= auctionList[n].startValue
  /\ \E manager \in AuctionManagers : BurnFrom(manager, auctionList[n].startValue)
  /\ auctionList' = [auctionList EXCEPT ![n].state = 2]
  /\ UNCHANGED <<bider, bidValue, bidDuration>>

\* The leader collects, and the member the role lists first pays: which one that
\* is changes as members come and go, and is left open.  The loan contract's
\* auctionOver, called first, is conjoined by the module that composes the two.
GetAuction(n, u) ==
  /\ n \in Listed
  /\ auctionList[n].state # 2
  /\ auctionList[n].timeOver < now
  /\ bider[n] = u
  /\ auctionList[n].debt <= auctionList[n].startValue
  /\ \E manager \in AuctionManagers : BurnFrom(manager, auctionList[n].startValue)
  /\ auctionList' = [auctionList EXCEPT ![n].state = 2]
  /\ UNCHANGED <<bider, bidValue, bidDuration>>

\* The foundation manager restarts every expired auction nobody has bid on.
UpgradeState ==
  /\ auctionList' = [n \in Listed |->
       IF auctionList[n].timeOver < now /\ bider[n] = NoOne
       THEN [auctionList[n] EXCEPT !.timeOver = now + bidDuration]
       ELSE auctionList[n]]
  /\ UNCHANGED <<bider, bidValue, bidDuration>>

UpdateBidDuration(newDuration) ==
  /\ newDuration > 0
  /\ newDuration <= MaxDuration
  /\ bidDuration' = newDuration
  /\ UNCHANGED <<auctionList, bider, bidValue>>
-----------------------------------------------------------------------------
(***************************************************************************)
(* The auctions on their own: the loan contract lists any lot and accepts  *)
(* every collection, and the token is used for other things too.           *)
(***************************************************************************)

allAuctionVars == <<tcashVars, auctionVars, now>>

AuctionSpecInit == /\ AuctionInit
                   /\ BlockTimeInit
                   /\ balance \in [Accounts -> {MaxBalance}]
                   /\ lockedBalances = [u \in Accounts |-> 0]
                   /\ mintStatus = TRUE

AuctionStep ==
  \/ /\ \/ \E lot \in Lots : AuctionStart(lot.mortgage, lot.debt, lot.interest)
        \/ UpgradeState
        \/ \E d \in 1..MaxDuration : UpdateBidDuration(d)
     /\ UNCHANGED tcashVars
  \/ \E n \in Listed, u \in Bidders :
        \/ \E amount \in Amounts :
             bidValue[n][u] + amount <= MaxBid /\ Bid(n, u, amount)
        \/ BidWithdrawal(n, u)
        \/ GetAuction(n, u)

TokenStep ==
  /\ \E u \in Accounts, amount \in TokenAmounts :
       \/ \E v \in Accounts :
            balance[v] + amount <= MaxBalance /\ Transfer(u, v, amount)
       \/ Burn(u, amount)
       \/ BurnFrom(u, amount)
       \/ balance[u] + amount <= MaxBalance /\ Mint(u, amount)
  /\ UNCHANGED auctionVars

AuctionNext == \/ (AuctionStep \/ TokenStep) /\ UNCHANGED now
               \/ Tick /\ UNCHANGED <<tcashVars, auctionVars>>

AuctionSpec == AuctionSpecInit /\ [][AuctionNext]_allAuctionVars

-----------------------------------------------------------------------------

\* Type correctness of the token, the auctions and the clock.
TypeOK == TCashTypeOK /\ AuctionTypeOK /\ now \in Nat

\* The price of an auction is its leader's whole bid, above the starting price
\* and above everyone else's; before the first bid there is no bid at all.
\* Bids, top-ups of a bid and withdrawals by outbid accounts, over several
\* auctions, all keep it (bid and bidWithdrawal).
LeaderHoldsPrice ==
  \A n \in AuctionIds :
    IF n \in Listed /\ bider[n] # NoOne
    THEN /\ auctionList[n].nowValue = bidValue[n][bider[n]]
         /\ auctionList[n].nowValue > auctionList[n].startValue
         /\ \A u \in Bidders \ {bider[n]} : bidValue[n][u] < auctionList[n].nowValue
    ELSE /\ bider[n] = NoOne
         /\ \A u \in Bidders : bidValue[n][u] = 0
         /\ n \in Listed => auctionList[n].nowValue = auctionList[n].startValue

\* What the token has locked of an account is what the account has bid and not
\* taken back, over all auctions: every outbid bidder can withdraw, and no
\* withdrawal unlocks another auction's bid (bidCost, bidBack, bid,
\* bidWithdrawal).
LocksAreBids ==
  \A u \in Bidders :
    lockedBalances[u] = SumFunction([n \in AuctionIds |-> bidValue[n][u]])
=============================================================================
