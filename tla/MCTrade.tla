------------------------------ MODULE MCTrade ------------------------------
(***************************************************************************)
(* The order book and, apart from it, the verification of its traders: a   *)
(* behaviour is one of a single service.                                   *)
(***************************************************************************)
EXTENDS MCOrderBook, KycStatus

VARIABLE service   \* the service that runs

TradeInit ==
  /\ service \in {"book", "kyc"}
  /\ Init /\ KycInit
  /\ service = "kyc" \/ user = NewUser

TradeNext ==
  /\ UNCHANGED service
  /\ \/ service = "book" /\ Next    /\ UNCHANGED kycVars
     \/ service = "kyc"  /\ KycNext /\ UNCHANGED vars

TradeSpec == TradeInit /\ [][TradeNext]_<<service, vars, kycVars>>

\* The rows, the chain and what calls in flight hold have the values the
\* columns and types of the two services allow.
AllTypesOK == TypeOK /\ KycTypeOK
=============================================================================
