---------------------------- MODULE TransferLog ----------------------------
(***************************************************************************)
(* The ERC-721 contract as the backend sees it through eth_getLogs: a      *)
(* sequence of blocks, each with at most one Transfer of a card token.     *)
(* Block 1 is the deploy block.  A burn is a Transfer to the zero address. *)
(***************************************************************************)
EXTENDS Naturals, Sequences, FiniteSets

CONSTANTS
  Tokens,   \* token ids (all > 0: the deploy script burns token 0)
  Wallets,  \* addresses that may own one
  Nobody,   \* the zero address, and a missing owner_wallet
  NoToken   \* a block without a Transfer

ASSUME AddressAssumption == Nobody \notin Wallets /\ NoToken \notin Tokens

Quiet   == [token |-> NoToken, to |-> Nobody]
Entries == [token : Tokens, to : Wallets \cup {Nobody}] \cup {Quiet}

\* o owns t after block k.
Held(l, t, k, o) ==
  \/ /\ o = Nobody
     /\ \A i \in 1..k : l[i].token # t
  \/ \E i \in 1..k : /\ l[i] = [token |-> t, to |-> o]
                     /\ \A j \in (i + 1)..k : l[j].token # t

Minted(l, t) == \E i \in 1..Len(l) : l[i].token = t
Burned(l, t) == \E i \in 1..Len(l) : l[i] = [token |-> t, to |-> Nobody]
LiveTokens(l) == {t \in Tokens : Minted(l, t) /\ ~Burned(l, t)}

\* What a block may hold: ids are minted once and a burned one never moves.
\* (A Transfer to the owner itself moves nothing.)
Legal(l, e) ==
  \/ e = Quiet
  \/ /\ e.token \in Tokens
     /\ e.to \in Wallets \cup {Nobody}
     /\ ~Burned(l, e.token) /\ ~Held(l, e.token, Len(l), e.to)
=============================================================================
