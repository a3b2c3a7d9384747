---------------------------- MODULE RedeemClaim ----------------------------
(***************************************************************************)
(* From a verified payment to a paid batch: requestRedemptionBatch with    *)
(* the database transaction of VaultService.createPaidRedemptionBatch,     *)
(* against listings of the same cards and the end of earlier batches.      *)
(*                                                                         *)
(* A transaction is several steps: it waits for the unique index of the    *)
(* claim and for the row locks of each card, and what it writes is seen by *)
(* others when it commits.  The cards are those of one user; a card sold   *)
(* belongs to a buyer.  How a batch ends is the business of RedeemBatch    *)
(* and reduced here to its two outcomes.                                   *)
(***************************************************************************)
EXTENDS Naturals, Sequences, FiniteSets

CONSTANTS
  Cards,        \* rwa_tokens rows of the user's cards
  Unlinked,     \* those registered without a vault cycle, cert known
  Payments,     \* USDC transactions to the fee wallet
  Claimants,    \* requestRedemptionBatch calls in flight
  Listers,      \* createOrder calls in flight
  NoOne,        \* no holder of a lock, no card, no payment
  MaxBatches,   \* bound on the requests made
  MaxFailures   \* bound on failing calls and restarts

ASSUME ClaimAssumption ==
  /\ Unlinked \subseteq Cards
  /\ IsFiniteSet(Cards)
  /\ NoOne \notin Cards \cup Payments \cup Claimants
  /\ MaxBatches \in Nat /\ MaxFailures \in Nat

VARIABLES
  vault,     \* vault_cycles.status of a card; "none": no cycle linked
  claim,     \* vault_redeem_payment_claims: batch of a payment, 0: none
  redeems,   \* vault_redemptions: payment, batch, card, open or how ended
  holder,    \* whose NFT it is on chain
  listed,    \* cards with an active ask
  keyHeld,   \* transactions: who has inserted a claim not yet committed,
  rowHeld,   \*   who has locked a card's token and cycle rows
  step,      \* requests: where each stands,
  basket,    \*   its cards,
  payment,   \*   its payment,
  batch,     \*   its batch id,
  left,      \*   cards still to insert (after the commit: to unlist),
  hand,      \*   and the card it is at
  listing,   \* listers: the card checked and about to be inserted
  resets,    \* refunded cards whose cycle is still to be reset
  wanted,    \* history: the cards of each request made,
  gap,       \*   cards a listing or sale slipped past the request,
  failures   \*   and failures so far

tables   == <<vault, claim, redeems, listed, resets>>
locks    == <<keyHeld, rowHeld>>
claiming == <<step, basket, payment, batch, left, hand>>
claimVars == <<tables, holder, locks, claiming, listing, wanted, gap, failures>>

Steps == {"idle", "used", "owners", "insert", "row", "commit", "orders", "cancel"}

Unfulfilled(r) == r.status = "open"
OpenRows(c) == {r \in redeems : r.card = c /\ Unfulfilled(r)}

ClaimInit ==
  /\ vault = [c \in Cards |-> IF c \in Unlinked THEN "none" ELSE "minted"]
  /\ claim = [p \in Payments |-> 0]
  /\ redeems = {} /\ listed = {} /\ resets = {}
  /\ holder = [c \in Cards |-> "user"]
  /\ keyHeld = [p \in Payments |-> NoOne]
  /\ rowHeld = [c \in Cards |-> NoOne]
  /\ step = [s \in Claimants |-> "idle"]
  /\ basket = [s \in Claimants |-> {}]
  /\ payment = [s \in Claimants |-> NoOne]
  /\ batch = [s \in Claimants |-> 0]
  /\ left = [s \in Claimants |-> {}]
  /\ hand = [s \in Claimants |-> NoOne]
  /\ listing = [l \in Listers |-> NoOne]
  /\ wanted = << >> /\ gap = {} /\ failures = 0
-----------------------------------------------------------------------------
(* Steps of a request                                                      *)

GoOn(s, place) ==
  /\ step' = [step EXCEPT ![s] = place]
  /\ UNCHANGED <<basket, payment, batch, left, hand>>

\* The request returns or throws; what it held in memory is gone.
Leaves(S) ==
  /\ step' = [s \in Claimants |-> IF s \in S THEN "idle" ELSE step[s]]
  /\ basket' = [s \in Claimants |-> IF s \in S THEN {} ELSE basket[s]]
  /\ payment' = [s \in Claimants |-> IF s \in S THEN NoOne ELSE payment[s]]
  /\ batch' = [s \in Claimants |-> IF s \in S THEN 0 ELSE batch[s]]
  /\ left' = [s \in Claimants |-> IF s \in S THEN {} ELSE left[s]]
  /\ hand' = [s \in Claimants |-> IF s \in S THEN NoOne ELSE hand[s]]

\* Commit or rollback.
Release(S) ==
  /\ rowHeld' = [c \in Cards |-> IF rowHeld[c] \in S THEN NoOne ELSE rowHeld[c]]
  /\ keyHeld' = [p \in Payments |-> IF keyHeld[p] \in S THEN NoOne ELSE keyHeld[p]]

\* After the commit the orders are cancelled one by one; a request cut off
\* there leaves the rest listed.
Unfinished(S) ==
  UNION {basket[s] : s \in {x \in S : step[x] \in {"orders", "cancel"}}}

Rejected(s) ==
  /\ Leaves({s}) /\ Release({s})
  /\ UNCHANGED <<tables, holder, listing, wanted, gap, failures>>

\* assertTokensRedeemable
Redeemable(c) == vault[c] \in {"minted", "none"}

\* Free claimants are alike, and payments no request has brought.
FreeClaimant == CHOOSE s \in Claimants : step[s] = "idle"
Unspent(p) == claim[p] = 0 /\ \A s \in Claimants : payment[s] # p

StartRedeem(s, S, p) ==
  /\ step[s] = "idle" /\ s = FreeClaimant
  /\ Unspent(p) => p = CHOOSE q \in Payments : Unspent(q)
  /\ Len(wanted) < MaxBatches
  /\ \A c \in S : Redeemable(c)
  /\ wanted' = Append(wanted, S)
  /\ step' = [step EXCEPT ![s] = "used"]
  /\ basket' = [basket EXCEPT ![s] = S]
  /\ payment' = [payment EXCEPT ![s] = p]
  /\ batch' = [batch EXCEPT ![s] = Len(wanted) + 1]
  /\ UNCHANGED <<left, hand, tables, holder, locks, listing, gap, failures>>

\* hasPaymentClaim
CheckUsed(s) ==
  /\ step[s] = "used"
  /\ IF claim[payment[s]] # 0
     THEN Rejected(s)
     ELSE /\ GoOn(s, "owners")
          /\ UNCHANGED <<tables, holder, locks, listing, wanted, gap, failures>>

CheckOwners(s) ==
  /\ step[s] = "owners"
  /\ IF \E c \in basket[s] : holder[c] # "user"
     THEN Rejected(s)
     ELSE /\ GoOn(s, "insert")
          /\ UNCHANGED <<tables, holder, locks, listing, wanted, gap, failures>>
-----------------------------------------------------------------------------
(* createPaidRedemptionBatch                                               *)

\* Bug: the earlier hasPaymentClaim is trusted, the index is not unique.
NotUnique(p) == FALSE

\* uq on payment_tx_hash: a committed claim conflicts.
Used(p) == claim[p] # 0

\* The insert waits for the end of another transaction with the same hash.
InsertClaim(s) ==
  /\ step[s] = "insert"
  /\ keyHeld[payment[s]] = NoOne
  /\ IF Used(payment[s])
     THEN Rejected(s)
     ELSE /\ keyHeld' = [keyHeld EXCEPT ![payment[s]] = s]
          /\ \E c \in basket[s] :
               /\ hand' = [hand EXCEPT ![s] = c]
               /\ left' = [left EXCEPT ![s] = basket[s] \ {c}]
          /\ step' = [step EXCEPT ![s] = "row"]
          /\ UNCHANGED <<basket, payment, batch, rowHeld, tables, holder,
                         listing, wanted, gap, failures>>

\* Bug: the status read before the transaction is trusted.
TrustsCheck(c) == TRUE

\* Status of the cycle, linked or made by backfillCycleForToken, and no open
\* redemption, both read under the row locks.
Insertable(c) == vault[c] \in {"minted", "none"} /\ OpenRows(c) = {}

InsertRow(s) ==
  LET c == hand[s] IN
  /\ step[s] = "row"
  /\ rowHeld[c] = NoOne
  /\ IF ~Insertable(c)
     THEN Rejected(s)
     ELSE /\ rowHeld' = [rowHeld EXCEPT ![c] = s]
          /\ IF left[s] = {}
             THEN /\ GoOn(s, "commit")
             ELSE /\ \E d \in left[s] :
                       /\ hand' = [hand EXCEPT ![s] = d]
                       /\ left' = [left EXCEPT ![s] = @ \ {d}]
                  /\ UNCHANGED <<step, basket, payment, batch>>
          /\ UNCHANGED <<keyHeld, tables, holder, listing, wanted, gap,
                         failures>>

RedeemRow(s, c) ==
  [pay |-> payment[s], batch |-> batch[s], card |-> c, status |-> "open"]

CommitBatch(s) ==
  /\ step[s] = "commit"
  /\ claim' = [claim EXCEPT ![payment[s]] = batch[s]]
  /\ redeems' = redeems \cup {RedeemRow(s, c) : c \in basket[s]}
  /\ vault' = [c \in Cards |-> IF c \in basket[s] THEN "redemption_requested"
                                                  ELSE vault[c]]
  /\ gap' = gap \cup {c \in basket[s] : \/ holder[c] # "user"
                                       \/ \E l \in Listers : listing[l] = c}
  /\ Release({s})
  /\ step' = [step EXCEPT ![s] = "orders"]
  /\ hand' = [hand EXCEPT ![s] = NoOne]
  /\ UNCHANGED <<basket, payment, batch, left, listed, resets, holder,
                 listing, wanted, failures>>

\* The card whose row s waits for is locked by another transaction.
WaitsFor(s, o) == step[s] = "row" /\ rowHeld[hand[s]] = o

\* Transactions that wait for each other: PostgreSQL aborts one.
Deadlocked(s) ==
  /\ \E S \in SUBSET Claimants :
       s \in S /\ \A x \in S : \E y \in S : WaitsFor(x, y)
  /\ Rejected(s)
-----------------------------------------------------------------------------
(* cancelActiveOrdersForTokens                                             *)

FindOrders(s) ==
  /\ step[s] = "orders"
  /\ left' = [left EXCEPT ![s] = basket[s] \cap listed]
  /\ step' = [step EXCEPT ![s] = "cancel"]
  /\ UNCHANGED <<basket, payment, batch, hand, tables, holder, locks,
                 listing, wanted, gap, failures>>

CancelOrder(s) ==
  /\ step[s] = "cancel"
  /\ IF left[s] = {}
     THEN Rejected(s)
     ELSE /\ \E c \in left[s] :
               /\ listed' = listed \ {c}
               /\ left' = [left EXCEPT ![s] = @ \ {c}]
          /\ UNCHANGED <<step, basket, payment, batch, hand, vault, claim,
                         redeems, resets, holder, locks, listing, wanted, gap,
                         failures>>
-----------------------------------------------------------------------------
(* Listings and sales                                                      *)

\* Bug: only a finished redemption keeps a card from being listed.
NotRedeemed(c) == vault[c] # "redeemed"

\* assertTokenRedeemableForListing
Listable(c) == vault[c] \notin {"redemption_requested", "redeemed"}

\* ... and assertAskOffererOwnsToken
CheckListing(l, c) ==
  /\ listing[l] = NoOne
  /\ Listable(c)
  /\ holder[c] = "user" /\ c \notin listed
  /\ listing' = [listing EXCEPT ![l] = c]
  /\ UNCHANGED <<tables, holder, locks, claiming, wanted, gap, failures>>

InsertListing(l) ==
  /\ listing[l] # NoOne
  /\ listed' = listed \cup {listing[l]}
  /\ listing' = [listing EXCEPT ![l] = NoOne]
  /\ UNCHANGED <<vault, claim, redeems, resets, holder, locks, claiming,
                 wanted, gap, failures>>

Unlist(c) ==
  /\ c \in listed
  /\ listed' = listed \ {c}
  /\ UNCHANGED <<vault, claim, redeems, resets, holder, locks, claiming,
                 listing, wanted, gap, failures>>

Buy(c) ==
  /\ c \in listed /\ holder[c] = "user"
  /\ holder' = [holder EXCEPT ![c] = "buyer"]
  /\ listed' = listed \ {c}
  /\ gap' = IF OpenRows(c) # {} THEN gap \cup {c} ELSE gap
  /\ UNCHANGED <<vault, claim, redeems, resets, locks, claiming, listing,
                 wanted, failures>>
-----------------------------------------------------------------------------
(* The end of a batch, as RedeemBatch has it                               *)

Deposit(c) ==
  /\ OpenRows(c) # {} /\ holder[c] = "user"
  /\ holder' = [holder EXCEPT ![c] = "custody"]
  /\ UNCHANGED <<tables, locks, claiming, listing, wanted, gap, failures>>

Close(c, how) ==
  redeems' = {IF r.card = c /\ Unfulfilled(r) THEN [r EXCEPT !.status = how]
                                              ELSE r : r \in redeems}

\* Only a cycle that is still in redemption goes back to its holder.
FreedStatus(st) == IF st = "redemption_requested" THEN "minted" ELSE st

\* USDC and NFT go back; resetCyclesIfRefunded follows.
Refund(c) ==
  /\ OpenRows(c) # {}
  /\ Close(c, "refunded")
  /\ holder' = [holder EXCEPT ![c] = IF @ = "custody" THEN "user" ELSE @]
  /\ resets' = resets \cup {c}
  /\ gap' = gap \ {c}
  /\ UNCHANGED <<vault, claim, listed, locks, claiming, listing, wanted,
                 failures>>

ResetCycle(c) ==
  /\ c \in resets
  /\ rowHeld[c] = NoOne
  /\ vault' = [vault EXCEPT ![c] = FreedStatus(@)]
  /\ resets' = resets \ {c}
  /\ UNCHANGED <<claim, redeems, listed, holder, locks, claiming, listing,
                 wanted, gap, failures>>

\* adminBurn and completeRedemptionBurn
Complete(c) ==
  /\ OpenRows(c) # {} /\ holder[c] = "custody"
  /\ Close(c, "completed")
  /\ holder' = [holder EXCEPT ![c] = "burned"]
  /\ vault' = [vault EXCEPT ![c] = "redeemed"]
  /\ UNCHANGED <<claim, listed, resets, locks, claiming, listing, wanted, gap,
                 failures>>
-----------------------------------------------------------------------------
\* A call of the request throws where it stands; a transaction rolls back.
ClaimFails(s) ==
  /\ step[s] # "idle" /\ failures < MaxFailures
  /\ failures' = failures + 1
  /\ Leaves({s}) /\ Release({s})
  /\ gap' = gap \cup Unfinished({s})
  /\ UNCHANGED <<tables, holder, listing, wanted>>

ClaimRestart ==
  /\ failures < MaxFailures
  /\ failures' = failures + 1
  /\ Leaves(Claimants) /\ Release(Claimants)
  /\ gap' = gap \cup Unfinished(Claimants)
  /\ listing' = [l \in Listers |-> NoOne]
  /\ resets' = {}
  /\ UNCHANGED <<vault, claim, redeems, listed, holder, wanted>>

Claims(s) ==
  \/ CheckUsed(s) \/ CheckOwners(s)
  \/ InsertClaim(s) \/ InsertRow(s) \/ CommitBatch(s) \/ Deadlocked(s)
  \/ FindOrders(s) \/ CancelOrder(s)

Trade ==
  \/ \E l \in Listers, c \in Cards : CheckListing(l, c)
  \/ \E l \in Listers : InsertListing(l)
  \/ \E c \in Cards : Unlist(c) \/ Buy(c)

Ends(c) == Deposit(c) \/ Refund(c) \/ ResetCycle(c) \/ Complete(c)

ClaimNext ==
  \/ \E s \in Claimants, S \in (SUBSET Cards) \ {{}}, p \in Payments :
       StartRedeem(s, S, p)
  \/ \E s \in Claimants : Claims(s) \/ ClaimFails(s)
  \/ Trade
  \/ \E c \in Cards : Ends(c)
  \/ ClaimRestart

ClaimSpec == ClaimInit /\ [][ClaimNext]_claimVars
-----------------------------------------------------------------------------
(* Properties                                                              *)

Redemptions == [pay : Payments, batch : 1..MaxBatches, card : Cards,
                status : {"open", "refunded", "completed"}]

ClaimTypeOK ==
  /\ vault \in [Cards -> {"none", "minted", "redemption_requested", "redeemed"}]
  /\ claim \in [Payments -> 0..MaxBatches]
  /\ redeems \in SUBSET Redemptions
  /\ listed \in SUBSET Cards /\ resets \in SUBSET Cards /\ gap \in SUBSET Cards
  /\ holder \in [Cards -> {"user", "buyer", "custody", "burned"}]
  /\ keyHeld \in [Payments -> Claimants \cup {NoOne}]
  /\ rowHeld \in [Cards -> Claimants \cup {NoOne}]
  /\ step \in [Claimants -> Steps]
  /\ basket \in [Claimants -> SUBSET Cards]
  /\ payment \in [Claimants -> Payments \cup {NoOne}]
  /\ batch \in [Claimants -> 0..MaxBatches]
  /\ left \in [Claimants -> SUBSET Cards]
  /\ hand \in [Claimants -> Cards \cup {NoOne}]
  /\ listing \in [Listers -> Cards \cup {NoOne}]
  /\ wanted \in Seq(SUBSET Cards) /\ Len(wanted) <= MaxBatches
  /\ failures \in Nat

\* vault-redeem-payment-claim.entity.ts: "a payment tx may only fund one
\* batch", and the batch has a row for each card of the request, or none.
PaymentFundsOneBatch ==
  \A r \in redeems :
    /\ claim[r.pay] = r.batch
    /\ {q.card : q \in {x \in redeems : x.pay = r.pay}} = wanted[r.batch]

\* A card has at most one open redemption, and its cycle is not free for
\* another request or a listing meanwhile.
OpenRowHoldsCycle ==
  \A c \in Cards :
    /\ Cardinality(OpenRows(c)) <= 1
    /\ OpenRows(c) # {} => vault[c] = "redemption_requested"

\* "cancel any leftover ASKs so listed badge dies immediately": a card in
\* redeem is listed or sold only if the request is still cancelling, or was
\* cut off, or the listing or sale was under way when it committed.
RedeemedCardsUnlisted ==
  \A c \in Cards :
    OpenRows(c) # {} /\ (c \in listed \/ holder[c] = "buyer") =>
      c \in gap \/ \E s \in Claimants : c \in Unfinished({s})
=============================================================================
