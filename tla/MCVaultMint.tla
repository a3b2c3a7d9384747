---------------------------- MODULE MCVaultMint ----------------------------
(***************************************************************************)
(* The mint of a card and, apart from it, three services it shares no      *)
(* state with: sealed boxes, fee quotes, and requests to redeem.  A        *)
(* behaviour is one of a single service.  Request slots are alike.         *)
(***************************************************************************)
EXTENDS VaultMint, RedeemQuote, RedeemClaim, SealedBox, TLC

VARIABLE service   \* the service that runs

Alike == Permutations(Slots)

AllInit ==
  /\ service \in {"mint", "quotes", "claims", "sealed box"}
  /\ Init /\ QuoteInit /\ ClaimInit /\ BoxInit

AllNext ==
  /\ UNCHANGED service
  /\ \/ service = "mint"   /\ Next
                           /\ UNCHANGED <<quoteVars, claimVars, boxVars>>
     \/ service = "quotes" /\ QuoteNext
                           /\ UNCHANGED <<vars, claimVars, boxVars>>
     \/ service = "claims" /\ ClaimNext
                           /\ UNCHANGED <<vars, quoteVars, boxVars>>
     \/ service = "sealed box" /\ BoxNext
                           /\ UNCHANGED <<vars, quoteVars, claimVars>>

AllSpec == AllInit /\ [][AllNext]_<<service, vars, quoteVars, claimVars, boxVars>>

\* The rows, the pins and what calls in flight hold have the values the columns
\* and types of the four services allow.
AllTypesOK == TypeOK /\ QuoteTypeOK /\ ClaimTypeOK /\ BoxTypeOK
=============================================================================
