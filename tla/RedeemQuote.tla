---------------------------- MODULE RedeemQuote ----------------------------
(***************************************************************************)
(* Fee quotes of a redeem (RwaRedeemService): the estimate shown to the    *)
(* user is pinned in memory, the user pays it on chain, and the request    *)
(* accepts a payment of the cheaper of the pinned and a fresh estimate.    *)
(*                                                                         *)
(* A basket is a set of cards with a destination (quotePinKey).  Carrier   *)
(* rates drift between any two estimates.  Time is counted in ticks.       *)
(***************************************************************************)
EXTENDS Naturals, FiniteSets

CONSTANTS
  Baskets,      \* keys of the pins
  Rates,        \* totals an estimate may come to, in micros
  Estimators,   \* estimateRedeemCost calls in flight
  Payers,       \* requestRedemptionBatch calls, each with its payment
  NoQuote,      \* no estimate
  QuoteTtl,     \* ticks until an estimate expires
  MaxPins,      \* QUOTE_PIN_MAX_ENTRIES
  MaxQuotes,    \* bound on the estimates made
  MaxTime,      \* bound on the clock
  MaxRestarts   \* bound on restarts

Quotes == [basket : Baskets, micros : Rates, expires : Nat]

ASSUME QuoteAssumption ==
  /\ NoQuote \notin Quotes
  /\ Rates \subseteq Nat
  /\ QuoteTtl \in Nat \ {0} /\ MaxPins \in Nat \ {0}
  /\ MaxQuotes \in Nat /\ MaxTime \in Nat /\ MaxRestarts \in Nat

VARIABLES
  now,       \* the clock
  pins,      \* recentQuoteTotals: the entries of the Map,
  before,    \*   and the order of its keys, oldest first
  estimate,  \* estimates computed and not pinned yet
  visit,     \* requests: place, quote paid, fresh total, fee charged
  issued,    \* history: estimates returned to users,
  lost,      \*   those whose pin the code dropped before they expired,
  asked,     \*   estimates so far
  restarts   \*   and restarts so far

quoteVars == <<now, pins, before, estimate, visit, issued, lost, asked, restarts>>

NoVisit == [pc |-> "idle", quote |-> NoQuote, fresh |-> 0, fee |-> 0, at |-> 0]

QuoteInit ==
  /\ now = 0 /\ pins = {} /\ before = {}
  /\ estimate = [e \in Estimators |-> NoQuote]
  /\ visit = [p \in Payers |-> NoVisit]
  /\ issued = {} /\ lost = {} /\ asked = 0 /\ restarts = 0
-----------------------------------------------------------------------------
(* The pins                                                                *)

Live(q) == q.expires > now
OfBasket(b, S) == {q \in S : q.basket = b}
BasketsOf(S)   == {q.basket : q \in S}

\* Expired entries go first; then the oldest one, when the map is full.
Pruned  == {q \in pins : Live(q)}
Oldest  == {q \in Pruned : \A r \in Pruned : <<r.basket, q.basket>> \notin before}
Evicted == IF Cardinality(Pruned) >= MaxPins THEN Oldest ELSE {}
Room    == Pruned \ Evicted

\* Bug: the entries of one basket pile up.
PileUp(S, q) == S \cup {q}

\* Map.set replaces the entry of the same key.
SetPin(S, q) == {r \in S : r.basket # q.basket} \cup {q}

\* A key keeps its place in the Map; a new one comes last.
OrderWith(S, b) ==
  LET old == BasketsOf(S) IN
  (before \cap (old \X old)) \cup ((old \ {b}) \X ({b} \ old))

\* Bug: the newest estimate always takes the pin.
NewestWins(S, q) == {}

\* The cheapest unexpired estimate keeps the pin.
Keeps(S, q) == {r \in OfBasket(q.basket, S) : r.micros <= q.micros}

\* Estimates whose pin ends before they do, by one of the three ways the code
\* has to drop one: evicted, not stored, replaced.
DroppedWith(S, q) ==
  {x \in issued : \E v \in Evicted : v.basket = x.basket}
  \cup {x \in {q} : \E k \in Keeps(S, q) : k.expires < q.expires}
  \cup {x \in OfBasket(q.basket, issued) :
          Keeps(S, q) = {} /\ x.expires > q.expires}
-----------------------------------------------------------------------------
(* estimateRedeemCost                                                      *)

\* feeCalculator.estimate: a total with the carrier's expiry.
Estimate(e, b, m) ==
  /\ estimate[e] = NoQuote
  /\ e = CHOOSE f \in Estimators : estimate[f] = NoQuote
  /\ asked < MaxQuotes
  /\ estimate' = [estimate EXCEPT ![e] =
                    [basket |-> b, micros |-> m, expires |-> now + QuoteTtl]]
  /\ asked' = asked + 1
  /\ UNCHANGED <<now, pins, before, visit, issued, lost, restarts>>

PinQuote(e) ==
  LET q == estimate[e] IN
  /\ q # NoQuote
  /\ pins' = IF Keeps(Room, q) # {} THEN Room ELSE SetPin(Room, q)
  /\ before' = OrderWith(Room, q.basket)
  /\ lost' = lost \cup DroppedWith(Room, q)
  /\ issued' = issued \cup {q}
  /\ estimate' = [estimate EXCEPT ![e] = NoQuote]
  /\ UNCHANGED <<now, visit, asked, restarts>>
-----------------------------------------------------------------------------
(* requestRedemptionBatch, up to the claim                                 *)

\* The user has paid an estimate; the request computes a fresh one.
BringPayment(p, q, m) ==
  /\ visit[p].pc = "idle"
  /\ q \in issued
  /\ visit' = [visit EXCEPT ![p] = [@ EXCEPT !.pc = "verify", !.quote = q,
                                             !.fresh = m]]
  /\ UNCHANGED <<now, pins, before, estimate, issued, lost, asked, restarts>>

\* pinnedQuote
PinnedFor(b) == {q \in OfBasket(b, pins) : Live(q)}

Offers(p) == {visit[p].fresh} \cup {q.micros : q \in PinnedFor(visit[p].quote.basket)}
Cheapest(S) == CHOOSE m \in S : \A n \in S : m <= n

\* estimateMatchingPayment: the dearest offer the payment covers.
MatchingFee(p, micros) ==
  CHOOSE m \in Offers(p) : /\ m <= micros
                           /\ \A n \in Offers(p) : n <= micros => n <= m

\* verifyUsdcPaymentToFeeRecipient against min(pinned, fresh).
VerifyPayment(p) ==
  LET micros == visit[p].quote.micros IN
  /\ visit[p].pc = "verify"
  /\ visit' = [visit EXCEPT ![p] =
       IF micros >= Cheapest(Offers(p))
       THEN [@ EXCEPT !.pc = "accepted", !.fee = MatchingFee(p, micros),
                      !.at = now]
       ELSE [@ EXCEPT !.pc = "refused", !.at = now]]
  /\ UNCHANGED <<now, pins, before, estimate, issued, lost, asked, restarts>>

AnswerPayer(p) ==
  /\ visit[p].pc \in {"accepted", "refused"}
  /\ visit' = [visit EXCEPT ![p] = NoVisit]
  /\ UNCHANGED <<now, pins, before, estimate, issued, lost, asked, restarts>>
-----------------------------------------------------------------------------
Tick ==
  /\ now < MaxTime
  /\ now' = now + 1
  /\ UNCHANGED <<pins, before, estimate, visit, issued, lost, asked, restarts>>

\* A restart forgets the pins and the calls in flight.
QuoteRestart ==
  /\ restarts < MaxRestarts
  /\ restarts' = restarts + 1
  /\ pins' = {} /\ before' = {}
  /\ lost' = issued
  /\ estimate' = [e \in Estimators |-> NoQuote]
  /\ visit' = [p \in Payers |-> NoVisit]
  /\ UNCHANGED <<now, issued, asked>>

QuoteNext ==
  \/ \E e \in Estimators, b \in Baskets, m \in Rates : Estimate(e, b, m)
  \/ \E e \in Estimators : PinQuote(e)
  \/ \E p \in Payers, q \in issued, m \in Rates : BringPayment(p, q, m)
  \/ \E p \in Payers : VerifyPayment(p) \/ AnswerPayer(p)
  \/ Tick
  \/ QuoteRestart

QuoteSpec == QuoteInit /\ [][QuoteNext]_quoteVars
-----------------------------------------------------------------------------
(* Properties                                                              *)

QuoteTypeOK ==
  /\ now \in Nat
  /\ pins \in SUBSET Quotes
  /\ IsFiniteSet(pins) /\ Cardinality(pins) <= MaxPins
  /\ \A q, r \in pins : q.basket = r.basket => q = r
  /\ before \in SUBSET (BasketsOf(pins) \X BasketsOf(pins))
  /\ estimate \in [Estimators -> Quotes \cup {NoQuote}]
  /\ visit \in [Payers -> [pc : {"idle", "verify", "accepted", "refused"},
                           quote : Quotes \cup {NoQuote}, fresh : Nat,
                           fee : Nat, at : Nat]]
  /\ issued \in SUBSET Quotes /\ lost \in SUBSET Quotes
  /\ asked \in Nat /\ restarts \in Nat

\* "a completed payment is never rejected by re-quote drift", as far as the
\* code keeps it: a payment of an estimate that has not expired is refused
\* only if the code dropped its pin.  The fee snapshot of an accepted one never
\* exceeds the payment, and is a total that was quoted: the fresh one, or one
\* not expired when it was looked up.
PaidQuotesHonoured ==
  \A p \in Payers :
    LET v == visit[p] IN
    /\ v.pc = "refused" => v.quote.expires <= v.at \/ v.quote \in lost
    /\ v.pc = "accepted" =>
         /\ v.fee <= v.quote.micros
         /\ \/ v.fee = v.fresh
            \/ \E q \in issued : /\ q.basket = v.quote.basket
                                 /\ q.micros = v.fee /\ q.expires > v.at
=============================================================================
