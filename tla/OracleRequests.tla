--------------------------- MODULE OracleRequests ---------------------------
(***************************************************************************)
(* The requests of one client of the oracle (contracts/Oracle/Oracle.sol,  *)
(* OracleClient.sol).  A request is the client's nonce; the oracle keeps,  *)
(* for good, a commitment to the callback the answer is for.  Cancelling   *)
(* compares the commitment and changes nothing.                            *)
(***************************************************************************)
EXTENDS Naturals, Sequences

CONSTANTS NoRequest,    \* a request id of zero
          MaxRequests   \* bound on the nonce, for TLC

ASSUME RequestsAssumption == NoRequest = 0 /\ MaxRequests \in Nat

VARIABLE commitments    \* request -> the callback

Callbacks == {"receiveAssetValue", "receiveTrustedProductionData"}

Requests == 1..Len(commitments)
NextRequest == Len(commitments) + 1

\* _sendOracleRequest, which returns NextRequest.
SendOracleRequest(callback) ==
  /\ Len(commitments) < MaxRequests
  /\ commitments' = Append(commitments, callback)

CancelOracleRequest(request, callback) ==
  /\ request \in Requests /\ commitments[request] = callback
  /\ UNCHANGED commitments
=============================================================================
