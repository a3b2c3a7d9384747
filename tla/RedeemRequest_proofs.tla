------------------------ MODULE RedeemRequest_proofs ------------------------
(***************************************************************************)
(* Proofs about what a request to redeem passes on its way, for any cards, *)
(* payments, calls, rates and failures.                                    *)
(*   RedeemQuote: a payment of an unexpired estimate is taken unless its   *)
(*     pin was dropped.                                                    *)
(*   RedeemClaim: one payment funds one whole batch; a card has one open   *)
(*     redemption, which holds its cycle; a card in redeem is off the book *)
(*     but for the known gaps.                                             *)
(* At the end, the types of the four services of MCVaultMint together.     *)
(***************************************************************************)
EXTENDS MCVaultMint, VaultMint_proofs, SealedBox_proofs, FiniteSetTheorems,
        WellFoundedInduction, TLAPS

-----------------------------------------------------------------------------
(* The quotes.                                                             *)

\* Every estimate handed out is expired, was dropped, or is covered by a pin
\* that asks no more and lasts no less.
Covers(r, q) == /\ r.basket = q.basket
                /\ r.micros <= q.micros /\ q.expires <= r.expires
IssuedCovered ==
  \A q \in issued : \/ q.expires <= now
                    \/ q \in lost
                    \/ \E r \in pins : Covers(r, q)

\* The keys of the Map stand in one order.
KeysOrdered ==
  /\ \A a, b \in BasketsOf(pins) :
       a # b => (<<a, b>> \in before <=> <<b, a>> \notin before)
  /\ \A a \in BasketsOf(pins) : <<a, a>> \notin before
  /\ \A a, b, c \in BasketsOf(pins) :
       <<a, b>> \in before /\ <<b, c>> \in before => <<a, c>> \in before

\* What is pinned was handed out, and so was what a request pays.
FromUsers ==
  /\ pins \subseteq issued /\ lost \subseteq issued
  /\ \A p \in Payers : visit[p].pc # "idle" => visit[p].quote \in issued

QInv == /\ QuoteTypeOK /\ IssuedCovered /\ KeysOrdered /\ FromUsers
        /\ PaidQuotesHonoured

\* The order of the keys has a first one, so a full Map of pins gives one up.
LEMMA FirstKey ==
  ASSUME NEW S \in SUBSET Quotes, IsFiniteSet(S), S # {}, NEW R,
         \A a \in BasketsOf(S) : <<a, a>> \notin R,
         \A a, b, c \in BasketsOf(S) :
           <<a, b>> \in R /\ <<b, c>> \in R => <<a, c>> \in R
  PROVE  \E q \in S : \A r \in S : <<r.basket, q.basket>> \notin R
<1> DEFINE Pred(q) == {r \in S : <<r.basket, q.basket>> \in R}
           T == {Cardinality(Pred(q)) : q \in S}
<1>1. \A q \in S : IsFiniteSet(Pred(q)) /\ Cardinality(Pred(q)) \in Nat
  BY FS_Subset, FS_CardinalityType
<1>2. T \subseteq Nat /\ T # {}
  BY <1>1
<1>3. \E n \in T : \A m \in T : ~ (<<m, n>> \in OpToRel(<, Nat))
  <2> HIDE DEF T
  <2> QED BY <1>2, NatLessThanWellFounded, WFMin
<1>4. PICK q \in S : \A r \in S :
        ~ (<<Cardinality(Pred(r)), Cardinality(Pred(q))>> \in OpToRel(<, Nat))
  <2> DEFINE Smaller == OpToRel(<, Nat)
  <2>1. PICK n \in T : \A m \in T : ~ (<<m, n>> \in Smaller)
    BY <1>3
  <2>2. PICK q \in S : n = Cardinality(Pred(q))
    BY <2>1
  <2>3. \A r \in S : Cardinality(Pred(r)) \in T
    OBVIOUS
  <2> HIDE DEF T, Pred, Smaller
  <2>4. \A r \in S : ~ (<<Cardinality(Pred(r)), Cardinality(Pred(q))>> \in Smaller)
    BY <2>1, <2>2, <2>3
  <2> QED BY <2>4 DEF Smaller
<1>5. \A r \in S : ~ (Cardinality(Pred(r)) < Cardinality(Pred(q)))
  BY <1>4, <1>1 DEF OpToRel
<1>6. ASSUME NEW r \in S, <<r.basket, q.basket>> \in R PROVE FALSE
  <2>1. r.basket \in BasketsOf(S) /\ q.basket \in BasketsOf(S)
    BY DEF BasketsOf
  <2>2. Pred(r) \subseteq Pred(q)
    BY <1>6, <2>1 DEF BasketsOf
  <2>3. r \in Pred(q) /\ r \notin Pred(r)
    BY <1>6, <2>1
  <2>4. Pred(r) # Pred(q)
    BY <2>3
  <2>5. Cardinality(Pred(r)) < Cardinality(Pred(q))
    <3> HIDE DEF Pred
    <3>1. Cardinality(Pred(r)) <= Cardinality(Pred(q))
      BY <1>1, <2>2, FS_Subset
    <3>2. Cardinality(Pred(r)) # Cardinality(Pred(q))
      BY <1>1, <2>2, <2>4, FS_Subset
    <3> QED BY <3>1, <3>2, <1>1
  <2> QED BY <2>5, <1>5
<1> QED BY <1>6

\* What pinQuote leaves of the Map before it stores: live entries, with room
\* for one more.
LEMMA RoomLeft ==
  ASSUME QuoteTypeOK, KeysOrdered
  PROVE  /\ Room \in SUBSET pins /\ IsFiniteSet(Room)
         /\ Cardinality(Room) < MaxPins
         /\ \A q \in Room : q.expires > now
         /\ \A q \in pins \ Room : q.expires <= now \/ q \in Evicted
<1>1. pins \in SUBSET Quotes /\ IsFiniteSet(pins) /\ now \in Nat
  BY DEF QuoteTypeOK
<1>2. Pruned \in SUBSET pins /\ Pruned \in SUBSET Quotes /\ Evicted \in SUBSET Pruned
  BY <1>1 DEF Pruned, Evicted, Oldest
<1>3. IsFiniteSet(Pruned) /\ Cardinality(Pruned) <= Cardinality(pins)
  BY <1>1, <1>2, FS_Subset
<1>4. Room \in SUBSET pins /\ Room \in SUBSET Pruned
  BY <1>2 DEF Room
<1>5. IsFiniteSet(Room) /\ Cardinality(Room) <= Cardinality(Pruned)
  BY <1>3, <1>4, FS_Subset
<1>6. \A q \in Quotes : q.expires \in Nat
  BY DEF Quotes
<1>7. \A q \in pins : q \in Pruned <=> q.expires > now
  BY <1>1 DEF Pruned, Live
<1>8. /\ \A q \in Room : q.expires > now
      /\ \A q \in pins \ Room : q.expires <= now \/ q \in Evicted
  BY <1>1, <1>4, <1>6, <1>7 DEF Room
<1>9. /\ Cardinality(pins) \in Nat /\ Cardinality(Pruned) \in Nat
      /\ Cardinality(Room) \in Nat /\ MaxPins \in Nat \ {0}
      /\ Cardinality(pins) <= MaxPins
  BY <1>1, <1>3, <1>5, FS_CardinalityType, QuoteAssumption DEF QuoteTypeOK
<1>10. CASE Cardinality(Pruned) < MaxPins
  BY <1>10, <1>5, <1>9, <1>4, <1>8
<1>11. CASE Cardinality(Pruned) >= MaxPins
  <2>1. Pruned # {}
    BY <1>11, <1>9, FS_EmptySet
  <2>2. BasketsOf(Pruned) \subseteq BasketsOf(pins)
    BY <1>2 DEF BasketsOf
  <2>3. \E q \in Pruned : \A r \in Pruned : <<r.basket, q.basket>> \notin before
    <3>1. /\ \A a \in BasketsOf(Pruned) : <<a, a>> \notin before
          /\ \A a, b, c \in BasketsOf(Pruned) :
               <<a, b>> \in before /\ <<b, c>> \in before => <<a, c>> \in before
      BY <2>2 DEF KeysOrdered
    <3> QED BY <3>1, <1>2, <1>3, <2>1, FirstKey
  <2>4. Evicted # {}
    BY <2>3, <1>11 DEF Evicted, Oldest
  <2>5. Room # Pruned
    BY <2>4, <1>2 DEF Room
  <2>6. Cardinality(Room) # Cardinality(Pruned)
    BY <2>5, <1>3, <1>4, FS_Subset
  <2>7. Cardinality(Room) < MaxPins
    BY <2>6, <1>3, <1>5, <1>9
  <2> QED BY <2>7, <1>5, <1>4, <1>8
<1> QED BY <1>10, <1>11, <1>9

\* The Map after pinQuote has stored an estimate, or kept a cheaper one.
PinStored(q) == IF Keeps(Room, q) # {} THEN Room ELSE SetPin(Room, q)

LEMMA StoredFits ==
  ASSUME QuoteTypeOK, KeysOrdered, NEW q \in Quotes
  PROVE  /\ PinStored(q) \in SUBSET Quotes
         /\ IsFiniteSet(PinStored(q)) /\ Cardinality(PinStored(q)) <= MaxPins
         /\ \A r, s \in PinStored(q) : r.basket = s.basket => r = s
         /\ BasketsOf(PinStored(q)) = BasketsOf(Room) \cup {q.basket}
         /\ PinStored(q) \subseteq pins \cup {q}
<1>1. /\ Room \in SUBSET pins /\ IsFiniteSet(Room) /\ Cardinality(Room) < MaxPins
      /\ pins \in SUBSET Quotes
      /\ \A r, s \in pins : r.basket = s.basket => r = s
      /\ Cardinality(Room) \in Nat /\ MaxPins \in Nat
  BY RoomLeft, FS_CardinalityType, QuoteAssumption DEF QuoteTypeOK
<1>2. CASE Keeps(Room, q) # {}
  <2>1. PinStored(q) = Room
    BY <1>2 DEF PinStored
  <2>2. q.basket \in BasketsOf(Room)
    BY <1>2 DEF Keeps, OfBasket, BasketsOf
  <2>3. Cardinality(Room) <= MaxPins
    BY <1>1
  <2> QED BY <1>1, <2>1, <2>2, <2>3
<1>3. CASE Keeps(Room, q) = {}
  <2> DEFINE rest == {r \in Room : r.basket # q.basket}
  <2>1. PinStored(q) = rest \cup {q} /\ rest \in SUBSET Room
    BY <1>3 DEF PinStored, SetPin
  <2>2. IsFiniteSet(rest) /\ Cardinality(rest) <= Cardinality(Room)
    BY <1>1, <2>1, FS_Subset
  <2>3. q \notin rest /\ Cardinality(rest) \in Nat
    BY <2>2, FS_CardinalityType
  <2>4. IsFiniteSet(rest \cup {q}) /\ Cardinality(rest \cup {q}) = Cardinality(rest) + 1
    <3> HIDE DEF rest
    <3> QED BY <2>2, <2>3, FS_AddElement
  <2>5. Cardinality(PinStored(q)) <= MaxPins
    <3> HIDE DEF rest
    <3> QED BY <2>1, <2>2, <2>3, <2>4, <1>1
  <2>6. /\ PinStored(q) \in SUBSET Quotes /\ PinStored(q) \subseteq pins \cup {q}
        /\ \A r, s \in PinStored(q) : r.basket = s.basket => r = s
    BY <1>1, <2>1
  <2>7. BasketsOf(PinStored(q)) = BasketsOf(Room) \cup {q.basket}
    BY <2>1 DEF BasketsOf
  <2> QED BY <2>1, <2>4, <2>5, <2>6, <2>7
<1> QED BY <1>2, <1>3

\* The order of the keys goes on being one: a key keeps its place, a new one
\* comes last.
LEMMA OrderKept ==
  ASSUME KeysOrdered, Room \in SUBSET pins, NEW b
  PROVE  LET new == BasketsOf(Room) \cup {b}
             R   == OrderWith(Room, b)
         IN  /\ R \in SUBSET (new \X new)
             /\ \A a, c \in new : a # c => (<<a, c>> \in R <=> <<c, a>> \notin R)
             /\ \A a \in new : <<a, a>> \notin R
             /\ \A a, c, d \in new :
                  <<a, c>> \in R /\ <<c, d>> \in R => <<a, d>> \in R
<1> DEFINE old == BasketsOf(Room)
           new == old \cup {b}
           R   == OrderWith(Room, b)
<1>1. old \subseteq BasketsOf(pins)
  BY DEF BasketsOf
<1>2. \A a, c : <<a, c>> \in R <=>
        \/ <<a, c>> \in before /\ a \in old /\ c \in old
        \/ a \in old \ {b} /\ c = b /\ b \notin old
  BY DEF OrderWith
<1>3. R \in SUBSET (new \X new)
  BY DEF OrderWith
<1>4. /\ \A a, c \in old :
           a # c => (<<a, c>> \in before <=> <<c, a>> \notin before)
      /\ \A a \in old : <<a, a>> \notin before
      /\ \A a, c, d \in old :
           <<a, c>> \in before /\ <<c, d>> \in before => <<a, d>> \in before
  BY <1>1 DEF KeysOrdered
<1> HIDE DEF old, R
<1>5. \A a, c \in new : a # c => (<<a, c>> \in R <=> <<c, a>> \notin R)
  <2> SUFFICES ASSUME NEW a \in new, NEW c \in new, a # c
               PROVE  <<a, c>> \in R <=> <<c, a>> \notin R
    OBVIOUS
  <2>1. CASE b \in old \/ (a # b /\ c # b)
    BY <2>1, <1>2, <1>4
  <2>2. CASE b \notin old /\ a = b
    BY <2>2, <1>2
  <2>3. CASE b \notin old /\ c = b
    BY <2>3, <1>2
  <2> QED BY <2>1, <2>2, <2>3
<1>6. \A a \in new : <<a, a>> \notin R
  BY <1>2, <1>4
<1>7. \A a, c, d \in new : <<a, c>> \in R /\ <<c, d>> \in R => <<a, d>> \in R
  BY <1>2, <1>4
<1> QED BY <1>3, <1>5, <1>6, <1>7 DEF old, R

\* After the pin is stored, each estimate handed out is still covered, expired
\* or known to have lost its pin.
LEMMA StoredCovers ==
  ASSUME QuoteTypeOK, KeysOrdered, IssuedCovered, FromUsers, NEW q \in Quotes,
         NEW x \in issued \cup {q}
  PROVE  \/ x.expires <= now
         \/ x \in lost \cup DroppedWith(Room, q)
         \/ \E r \in PinStored(q) : Covers(r, x)
<1>1. /\ Room \in SUBSET pins /\ pins \in SUBSET Quotes /\ issued \in SUBSET Quotes
      /\ now \in Nat /\ q \in Quotes /\ x \in Quotes
      /\ \A r \in pins \ Room : r.expires <= now \/ r \in Evicted
  BY RoomLeft DEF QuoteTypeOK
<1>2. \A r \in Quotes : r.expires \in Nat /\ r.micros \in Nat
  BY QuoteAssumption DEF Quotes
<1>3. ASSUME x = q PROVE \/ x \in DroppedWith(Room, q)
                         \/ \E r \in PinStored(q) : Covers(r, x)
  <2>1. CASE Keeps(Room, q) # {}
    <3>1. PICK k \in Keeps(Room, q) : TRUE
      BY <2>1
    <3>2. k \in Room /\ k.basket = q.basket /\ k.micros <= q.micros /\ k \in Quotes
      BY <3>1, <1>1 DEF Keeps, OfBasket
    <3>3. CASE k.expires < q.expires
      BY <3>1, <3>3, <1>3 DEF DroppedWith
    <3>4. CASE ~ (k.expires < q.expires)
      <4>1. Covers(k, x)
        BY <3>2, <3>4, <1>1, <1>2, <1>3 DEF Covers
      <4>2. k \in PinStored(q)
        BY <2>1, <3>2 DEF PinStored
      <4> QED BY <4>1, <4>2
    <3> QED BY <3>3, <3>4
  <2>2. CASE Keeps(Room, q) = {}
    <3>1. q \in PinStored(q)
      BY <2>2 DEF PinStored, SetPin
    <3>2. Covers(q, x)
      BY <1>1, <1>2, <1>3 DEF Covers
    <3> QED BY <3>1, <3>2
  <2> QED BY <2>1, <2>2
<1>4. ASSUME x \in issued, ~ (x.expires <= now), x \notin lost,
             x \notin DroppedWith(Room, q)
      PROVE  \E r \in PinStored(q) : Covers(r, x)
  <2>1. PICK r \in pins : Covers(r, x)
    BY <1>4 DEF IssuedCovered
  <2>2. r \in Quotes /\ r.basket = x.basket /\ r.micros <= x.micros
        /\ x.expires <= r.expires
    BY <2>1, <1>1 DEF Covers
  <2>3. ~ (r.expires <= now)
    BY <2>2, <1>1, <1>2, <1>4
  <2>4. r \notin Evicted
    BY <2>2, <1>4 DEF DroppedWith
  <2>5. r \in Room
    BY <2>1, <2>3, <2>4, <1>1
  <2>6. CASE Keeps(Room, q) # {} \/ r.basket # q.basket
    BY <2>6, <2>1, <2>5 DEF PinStored, SetPin
  <2>7. CASE Keeps(Room, q) = {} /\ r.basket = q.basket
    <3>1. q.micros <= x.micros
      <4>1. ~ (r.micros <= q.micros)
        BY <2>5, <2>7 DEF Keeps, OfBasket
      <4> QED BY <4>1, <2>2, <1>1, <1>2
    <3>2. x.expires <= q.expires
      <4>1. ~ (x.expires > q.expires)
        BY <1>4, <2>2, <2>7 DEF DroppedWith, OfBasket
      <4> QED BY <4>1, <1>1, <1>2
    <3>3. q \in PinStored(q)
      BY <2>7 DEF PinStored, SetPin
    <3> QED BY <3>1, <3>2, <3>3, <2>2, <2>7 DEF Covers
  <2> QED BY <2>6, <2>7
<1> QED BY <1>3, <1>4
-----------------------------------------------------------------------------
(* Every step                                                              *)

LEMMA QuotesInit == QuoteInit => QInv
<1> SUFFICES ASSUME QuoteInit PROVE QInv
  OBVIOUS
<1>1. /\ NoVisit \in [pc : {"idle", "verify", "accepted", "refused"},
                      quote : Quotes \cup {NoQuote}, fresh : Nat,
                      fee : Nat, at : Nat]
      /\ NoVisit.pc = "idle"
  BY DEF NoVisit
<1>2. \A p \in Payers : visit[p] = NoVisit
  BY DEF QuoteInit
<1>3. IsFiniteSet(pins) /\ Cardinality(pins) = 0 /\ 0 <= MaxPins
  BY FS_EmptySet, QuoteAssumption DEF QuoteInit
<1>4. QuoteTypeOK
  BY <1>1, <1>3 DEF QuoteTypeOK, QuoteInit, BasketsOf
<1>5. IssuedCovered /\ KeysOrdered
  BY DEF QuoteInit, IssuedCovered, KeysOrdered, BasketsOf
<1>6. FromUsers /\ PaidQuotesHonoured
  BY <1>1, <1>2 DEF FromUsers, PaidQuotesHonoured, QuoteInit
<1> QED BY <1>4, <1>5, <1>6 DEF QInv

\* A call that computes an estimate.
LEMMA EstimateOK ==
  ASSUME QInv, NEW e \in Estimators, NEW b \in Baskets, NEW m \in Rates,
         Estimate(e, b, m)
  PROVE  QInv'
<1>1. /\ estimate' = [estimate EXCEPT ![e] =
                        [basket |-> b, micros |-> m, expires |-> now + QuoteTtl]]
      /\ asked' = asked + 1
      /\ UNCHANGED <<now, pins, before, visit, issued, lost, restarts>>
  BY DEF Estimate
<1>2. [basket |-> b, micros |-> m, expires |-> now + QuoteTtl] \in Quotes
  BY QuoteAssumption DEF QInv, QuoteTypeOK, Quotes
<1>3. QuoteTypeOK'
  BY <1>1, <1>2 DEF QInv, QuoteTypeOK, BasketsOf
<1>4. IssuedCovered' /\ KeysOrdered'
  BY <1>1 DEF QInv, IssuedCovered, KeysOrdered, BasketsOf
<1>5. FromUsers' /\ PaidQuotesHonoured'
  BY <1>1 DEF QInv, FromUsers, PaidQuotesHonoured
<1> QED BY <1>3, <1>4, <1>5 DEF QInv

\* The estimate is pinned and answered.
LEMMA PinQuoteOK ==
  ASSUME QInv, NEW e \in Estimators, PinQuote(e)
  PROVE  QInv'
<1> DEFINE q == estimate[e]
<1>1. /\ q # NoQuote
      /\ pins' = PinStored(q)
      /\ before' = OrderWith(Room, q.basket)
      /\ lost' = lost \cup DroppedWith(Room, q)
      /\ issued' = issued \cup {q}
      /\ estimate' = [estimate EXCEPT ![e] = NoQuote]
      /\ UNCHANGED <<now, visit, asked, restarts>>
  BY DEF PinQuote, PinStored
<1>2. q \in Quotes
  BY <1>1 DEF QInv, QuoteTypeOK
<1> HIDE DEF q
<1>3. /\ pins' \in SUBSET Quotes
      /\ IsFiniteSet(pins') /\ Cardinality(pins') <= MaxPins
      /\ \A r, s \in pins' : r.basket = s.basket => r = s
      /\ BasketsOf(pins') = BasketsOf(Room) \cup {q.basket}
      /\ pins' \subseteq pins \cup {q}
  BY <1>1, <1>2, StoredFits DEF QInv
<1>4. /\ before' \in SUBSET (BasketsOf(pins') \X BasketsOf(pins'))
      /\ \A a, b \in BasketsOf(pins') :
           a # b => (<<a, b>> \in before' <=> <<b, a>> \notin before')
      /\ \A a \in BasketsOf(pins') : <<a, a>> \notin before'
      /\ \A a, b, c \in BasketsOf(pins') :
           <<a, b>> \in before' /\ <<b, c>> \in before' => <<a, c>> \in before'
  BY <1>1, <1>3, RoomLeft, OrderKept DEF QInv
<1>5. /\ DroppedWith(Room, q) \subseteq issued \cup {q}
      /\ lost' \subseteq issued' /\ issued \subseteq issued' /\ lost \subseteq lost'
  BY <1>1 DEF DroppedWith, OfBasket, QInv, FromUsers
<1>6. QuoteTypeOK'
  <2>1. issued' \in SUBSET Quotes /\ lost' \in SUBSET Quotes
    BY <1>1, <1>2, <1>5 DEF QInv, QuoteTypeOK
  <2>2. /\ estimate' \in [Estimators -> Quotes \cup {NoQuote}]
        /\ visit' = visit /\ now' = now /\ asked' = asked /\ restarts' = restarts
    BY <1>1 DEF QInv, QuoteTypeOK
  <2> QED BY <1>3, <1>4, <2>1, <2>2 DEF QInv, QuoteTypeOK, BasketsOf
<1>7. IssuedCovered'
  BY <1>1, <1>2, StoredCovers DEF QInv, IssuedCovered
<1>8. KeysOrdered'
  BY <1>4 DEF KeysOrdered, BasketsOf
<1>9. FromUsers'
  BY <1>1, <1>3, <1>5 DEF QInv, FromUsers
<1>10. PaidQuotesHonoured'
  BY <1>1, <1>5 DEF QInv, PaidQuotesHonoured
<1> QED BY <1>6, <1>7, <1>8, <1>9, <1>10 DEF QInv

LEMMA VisitsAlone ==
  ASSUME QInv, UNCHANGED <<now, pins, before, estimate, issued, lost, asked, restarts>>,
         NEW p \in Payers,
         NEW v \in [pc : {"idle", "verify", "accepted", "refused"},
                    quote : Quotes \cup {NoQuote}, fresh : Nat,
                    fee : Nat, at : Nat],
         visit' = [visit EXCEPT ![p] = v],
         v.pc # "idle" => v.quote \in issued,
         v.pc = "refused" => v.quote.expires <= v.at \/ v.quote \in lost,
         v.pc = "accepted" =>
           /\ v.fee <= v.quote.micros
           /\ \/ v.fee = v.fresh
              \/ \E q \in issued : /\ q.basket = v.quote.basket
                                   /\ q.micros = v.fee /\ q.expires > v.at
  PROVE  QInv'
<1>1. QuoteTypeOK'
  BY DEF QInv, QuoteTypeOK, BasketsOf
<1>2. IssuedCovered' /\ KeysOrdered'
  BY DEF QInv, IssuedCovered, KeysOrdered, BasketsOf
<1>3. \A x \in Payers : visit'[x] = IF x = p THEN v ELSE visit[x]
  BY DEF QInv, QuoteTypeOK
<1>4. FromUsers'
  BY <1>3 DEF QInv, FromUsers
<1>5. PaidQuotesHonoured'
  BY <1>3 DEF QInv, PaidQuotesHonoured
<1> QED BY <1>1, <1>2, <1>4, <1>5 DEF QInv

\* A user pays an estimate, and a request computes a fresh one.
LEMMA BringPaymentOK ==
  ASSUME QInv, NEW p \in Payers, NEW q \in issued, NEW m \in Rates,
         BringPayment(p, q, m)
  PROVE  QInv'
<1> DEFINE v == [visit[p] EXCEPT !.pc = "verify", !.quote = q, !.fresh = m]
<1>1. /\ visit' = [visit EXCEPT ![p] = v]
      /\ UNCHANGED <<now, pins, before, estimate, issued, lost, asked, restarts>>
  BY DEF BringPayment
<1>2. /\ v \in [pc : {"idle", "verify", "accepted", "refused"},
                quote : Quotes \cup {NoQuote}, fresh : Nat,
                fee : Nat, at : Nat]
      /\ v.pc = "verify" /\ v.quote = q
  BY QuoteAssumption DEF QInv, QuoteTypeOK
<1> HIDE DEF v
<1> QED BY <1>1, <1>2, VisitsAlone

\* At most two offers: the fresh total and the pin, when it is live.
LEMMA OffersAreFew ==
  ASSUME QInv, NEW p \in Payers
  PROVE  \E a, b \in Nat : Offers(p) = {a, b}
<1> DEFINE P == PinnedFor(visit[p].quote.basket)
<1>1. visit[p].fresh \in Nat
  BY DEF QInv, QuoteTypeOK
<1>2. \A r, s \in P : r = s
  BY DEF QInv, QuoteTypeOK, PinnedFor, OfBasket
<1>3. \A r \in P : r.micros \in Nat
  BY QuoteAssumption DEF QInv, QuoteTypeOK, PinnedFor, OfBasket, Quotes
<1>4. Offers(p) = {visit[p].fresh} \cup {r.micros : r \in P}
  BY DEF Offers
<1>5. CASE P = {}
  <2>1. Offers(p) = {visit[p].fresh, visit[p].fresh}
    BY <1>4, <1>5
  <2> QED BY <2>1, <1>1
<1>6. CASE P # {}
  <2>1. PICK r \in P : TRUE
    BY <1>6
  <2>2. P = {r}
    BY <1>2, <2>1
  <2>3. Offers(p) = {visit[p].fresh, r.micros}
    <3> HIDE DEF P
    <3> QED BY <1>4, <2>2
  <2>4. r.micros \in Nat
    BY <1>3, <2>1
  <2> QED BY <2>3, <2>4, <1>1
<1> QED BY <1>5, <1>6

\* The payment is taken when it covers the cheapest offer.
LEMMA VerifyPaymentOK ==
  ASSUME QInv, NEW p \in Payers, VerifyPayment(p)
  PROVE  QInv'
<1> DEFINE micros == visit[p].quote.micros
           fee == MatchingFee(p, micros)
           least == Cheapest(Offers(p))
           yes == [visit[p] EXCEPT !.pc = "accepted", !.fee = fee, !.at = now]
           no  == [visit[p] EXCEPT !.pc = "refused", !.at = now]
           v == IF micros >= least THEN yes ELSE no
<1>1. /\ visit[p].pc = "verify"
      /\ visit' = [visit EXCEPT ![p] = v]
      /\ UNCHANGED <<now, pins, before, estimate, issued, lost, asked, restarts>>
  BY DEF VerifyPayment
<1>2. /\ visit[p].quote \in issued /\ visit[p].quote \in Quotes
      /\ now \in Nat /\ visit[p].fresh \in Nat
      /\ pins \subseteq issued /\ pins \in SUBSET Quotes
  BY <1>1 DEF QInv, QuoteTypeOK, FromUsers
<1>3. /\ \A q \in Quotes : q.micros \in Nat /\ q.expires \in Nat
      /\ micros \in Nat
  BY <1>2, QuoteAssumption DEF Quotes
<1>4. PICK a \in Nat, b \in Nat : Offers(p) = {a, b}
  BY OffersAreFew
<1>5. \E m \in Offers(p) : \A n \in Offers(p) : m <= n
  BY <1>4
<1>6. least \in Offers(p) /\ \A n \in Offers(p) : least <= n
  BY <1>5 DEF Cheapest
<1>7. least \in Nat
  BY <1>4, <1>6
<1>8. \A n \in Offers(p) : \/ n = visit[p].fresh
                           \/ \E q \in pins : /\ q.basket = visit[p].quote.basket
                                              /\ q.micros = n /\ q.expires > now
  BY DEF Offers, PinnedFor, OfBasket, Live
<1>9. CASE micros >= least
  <2>1. \E m \in Offers(p) : m <= micros /\ \A n \in Offers(p) : n <= micros => n <= m
    BY <1>3, <1>4, <1>6, <1>7, <1>9
  <2>2. fee \in Offers(p) /\ fee <= micros
    BY <2>1 DEF MatchingFee
  <2>3. fee \in Nat
    BY <2>2, <1>4
  <2>4. yes \in [pc : {"idle", "verify", "accepted", "refused"},
                 quote : Quotes \cup {NoQuote}, fresh : Nat,
                 fee : Nat, at : Nat]
    BY <2>3, <1>2 DEF QInv, QuoteTypeOK
  <2>5. /\ yes.pc = "accepted" /\ yes.fee = fee /\ yes.at = now
        /\ yes.quote = visit[p].quote /\ yes.fresh = visit[p].fresh
    BY <1>2 DEF QInv, QuoteTypeOK
  <2>6. \/ fee = visit[p].fresh
        \/ \E q \in issued : /\ q.basket = visit[p].quote.basket
                             /\ q.micros = fee /\ q.expires > now
    BY <2>2, <1>2, <1>8
  <2>7. visit' = [visit EXCEPT ![p] = yes]
    BY <1>1, <1>9
  <2> HIDE DEF yes, fee
  <2>8. yes.pc = "refused" => FALSE
    BY <2>5
  <2> QED BY <2>2, <2>4, <2>5, <2>6, <2>7, <2>8, <1>1, <1>2, VisitsAlone
<1>10. CASE ~ (micros >= least)
  <2>1. no \in [pc : {"idle", "verify", "accepted", "refused"},
                quote : Quotes \cup {NoQuote}, fresh : Nat,
                fee : Nat, at : Nat]
    BY <1>2 DEF QInv, QuoteTypeOK
  <2>2. no.pc = "refused" /\ no.at = now /\ no.quote = visit[p].quote
    BY <1>2 DEF QInv, QuoteTypeOK
  <2>3. visit[p].quote.expires <= now \/ visit[p].quote \in lost
    <3> SUFFICES ASSUME ~ (visit[p].quote.expires <= now), visit[p].quote \notin lost
                 PROVE  FALSE
      OBVIOUS
    <3>1. PICK r \in pins : Covers(r, visit[p].quote)
      BY <1>2 DEF QInv, IssuedCovered
    <3>2. /\ r \in Quotes /\ r.basket = visit[p].quote.basket
          /\ r.micros <= micros /\ visit[p].quote.expires <= r.expires
      BY <3>1, <1>2 DEF Covers
    <3>3. r.expires > now
      BY <3>2, <1>2, <1>3
    <3>4. r.micros \in Offers(p)
      BY <3>2, <3>3, <3>1 DEF Offers, PinnedFor, OfBasket, Live
    <3>5. least <= r.micros
      BY <3>4, <1>6
    <3> HIDE DEF least, micros
    <3> QED BY <3>2, <3>5, <1>3, <1>7, <1>10
  <2>4. visit' = [visit EXCEPT ![p] = no]
    BY <1>1, <1>10
  <2> HIDE DEF no
  <2>5. no.pc # "accepted"
    BY <2>2
  <2> QED BY <2>1, <2>2, <2>3, <2>4, <2>5, <1>1, <1>2, VisitsAlone
<1> QED BY <1>9, <1>10

LEMMA AnswerPayerOK ==
  ASSUME QInv, NEW p \in Payers, AnswerPayer(p)
  PROVE  QInv'
<1>1. /\ visit' = [visit EXCEPT ![p] = NoVisit]
      /\ UNCHANGED <<now, pins, before, estimate, issued, lost, asked, restarts>>
  BY DEF AnswerPayer
<1>2. /\ NoVisit \in [pc : {"idle", "verify", "accepted", "refused"},
                      quote : Quotes \cup {NoQuote}, fresh : Nat,
                      fee : Nat, at : Nat]
      /\ NoVisit.pc = "idle"
  BY DEF NoVisit
<1> QED BY <1>1, <1>2, VisitsAlone

\* Time only lets estimates expire.
LEMMA TickOK ==
  ASSUME QInv, Tick
  PROVE  QInv'
<1>1. /\ now' = now + 1 /\ now \in Nat
      /\ UNCHANGED <<pins, before, estimate, visit, issued, lost, asked, restarts>>
  BY DEF Tick, QInv, QuoteTypeOK
<1>2. QuoteTypeOK'
  BY <1>1 DEF QInv, QuoteTypeOK, BasketsOf
<1>3. \A q \in issued : q.expires \in Nat
  BY DEF QInv, QuoteTypeOK, Quotes
<1>4. IssuedCovered'
  <2> SUFFICES ASSUME NEW q \in issued
               PROVE  \/ q.expires <= now'
                      \/ q \in lost
                      \/ \E r \in pins : Covers(r, q)
    BY <1>1 DEF IssuedCovered, Covers
  <2>1. CASE q.expires <= now
    BY <2>1, <1>1, <1>3
  <2> QED BY <2>1 DEF QInv, IssuedCovered
<1>5. KeysOrdered' /\ FromUsers' /\ PaidQuotesHonoured'
  BY <1>1 DEF QInv, KeysOrdered, BasketsOf, FromUsers, PaidQuotesHonoured
<1> QED BY <1>2, <1>4, <1>5 DEF QInv

\* A restart drops every pin, and says so.
LEMMA QuoteRestartOK ==
  ASSUME QInv, QuoteRestart
  PROVE  QInv'
<1>1. /\ pins' = {} /\ before' = {} /\ lost' = issued /\ issued' = issued
      /\ now' = now /\ asked' = asked /\ restarts' = restarts + 1
      /\ estimate' = [e \in Estimators |-> NoQuote]
      /\ visit' = [p \in Payers |-> NoVisit]
  BY DEF QuoteRestart
<1>2. /\ NoVisit \in [pc : {"idle", "verify", "accepted", "refused"},
                      quote : Quotes \cup {NoQuote}, fresh : Nat,
                      fee : Nat, at : Nat]
      /\ NoVisit.pc = "idle"
  BY DEF NoVisit
<1>3. \A p \in Payers : visit'[p] = NoVisit
  BY <1>1
<1>4. IsFiniteSet(pins') /\ Cardinality(pins') = 0 /\ 0 <= MaxPins
  BY <1>1, FS_EmptySet, QuoteAssumption
<1>5. QuoteTypeOK'
  BY <1>1, <1>2, <1>4 DEF QInv, QuoteTypeOK, BasketsOf
<1>6. IssuedCovered' /\ KeysOrdered'
  BY <1>1 DEF IssuedCovered, KeysOrdered, BasketsOf
<1>7. FromUsers' /\ PaidQuotesHonoured'
  BY <1>1, <1>2, <1>3 DEF FromUsers, PaidQuotesHonoured
<1> QED BY <1>5, <1>6, <1>7 DEF QInv

LEMMA QuoteStepOK == QInv /\ [QuoteNext]_quoteVars => QInv'
<1> SUFFICES ASSUME QInv, [QuoteNext]_quoteVars PROVE QInv'
  OBVIOUS
<1>1. ASSUME NEW e \in Estimators, NEW b \in Baskets, NEW m \in Rates,
             Estimate(e, b, m)
      PROVE  QInv'
  BY <1>1, EstimateOK
<1>2. ASSUME NEW e \in Estimators, PinQuote(e) PROVE QInv'
  BY <1>2, PinQuoteOK
<1>3. ASSUME NEW p \in Payers, NEW q \in issued, NEW m \in Rates,
             BringPayment(p, q, m)
      PROVE  QInv'
  BY <1>3, BringPaymentOK
<1>4. ASSUME NEW p \in Payers, VerifyPayment(p) \/ AnswerPayer(p) PROVE QInv'
  BY <1>4, VerifyPaymentOK, AnswerPayerOK
<1>5. CASE Tick
  BY <1>5, TickOK
<1>6. CASE QuoteRestart
  BY <1>6, QuoteRestartOK
<1>7. CASE UNCHANGED quoteVars
  <2>1. UNCHANGED <<now, pins, before, estimate, visit, issued, lost, asked, restarts>>
    BY <1>7 DEF quoteVars
  <2> QED BY <2>1 DEF QInv, QuoteTypeOK, IssuedCovered, KeysOrdered, BasketsOf,
                      FromUsers, PaidQuotesHonoured
<1> QED BY <1>1, <1>2, <1>3, <1>4, <1>5, <1>6, <1>7 DEF QuoteNext

LEMMA QuotesInvariant == QuoteSpec => []QInv
BY QuotesInit, QuoteStepOK, PTL DEF QuoteSpec

\* The Map of pins never outgrows its limit and has one entry per basket, in one
\* order of insertion (pinQuote); the rows of calls in flight are well formed.
THEOREM QuoteTypeCorrect == QuoteSpec => []QuoteTypeOK
<1>1. QInv => QuoteTypeOK
  BY DEF QInv
<1> QED BY <1>1, QuotesInvariant, PTL

\* "a completed payment is never rejected by re-quote drift" (requestRedemptionBatch):
\* for any rates, baskets, limit of pins and interleaving of estimates and
\* requests, a payment of an unexpired estimate is refused only when its pin was
\* evicted, replaced by a shorter one or lost in a restart, and the fee kept is
\* one that was quoted and never more than was paid.
THEOREM PaidQuotesAreHonoured == QuoteSpec => []PaidQuotesHonoured
<1>1. QInv => PaidQuotesHonoured
  BY DEF QInv
<1> QED BY <1>1, QuotesInvariant, PTL

-----------------------------------------------------------------------------
(* The claim and the batch.                                                *)

\* Request s was recorded, and its payment is one.
ClaimantOK(s) == step[s] # "idle" =>
  /\ payment[s] \in Payments /\ batch[s] \in 1..Len(wanted)
  /\ basket[s] = wanted[batch[s]]

\* Transaction s has locked the cards C and found them free.
Locks(s, C) == \A c \in C : rowHeld[c] = s /\ Insertable(c)

\* What a transaction has locked while it is open: its payment, and the cards
\* it has inserted so far.
TransactionOK(s) ==
  /\ step[s] \in {"row", "commit"} =>
       keyHeld[payment[s]] = s /\ claim[payment[s]] = 0
  /\ step[s] = "row" =>
       hand[s] \in Cards /\ Locks(s, basket[s] \ (left[s] \cup {hand[s]}))
  /\ step[s] = "commit" => Locks(s, basket[s])
  /\ step[s] = "cancel" => left[s] \subseteq basket[s]

RequestsOK == \A s \in Claimants : ClaimantOK(s) /\ TransactionOK(s)

CardsPaidBy(p) == {q.card : q \in {x \in redeems : x.pay = p}}

BatchesWhole == \A r \in redeems :
  /\ claim[r.pay] = r.batch /\ r.batch \in 1..Len(wanted)
  /\ CardsPaidBy(r.pay) = wanted[r.batch]

\* A refunded card has no open row until its cycle is reset.
CyclesHeld == \A c \in Cards :
  /\ \A r, q \in OpenRows(c) : r = q
  /\ OpenRows(c) # {} => vault[c] = "redemption_requested"
  /\ c \in resets => OpenRows(c) = {} /\ vault[c] = "redemption_requested"

\* s will still cancel the ask of card c.
WillCancel(s, c) ==
  \/ step[s] = "orders" /\ c \in basket[s]
  \/ step[s] = "cancel" /\ c \in left[s]

GapsKnown == \A c \in Cards : OpenRows(c) # {} =>
  /\ c \in listed => c \in gap \/ \E s \in Claimants : WillCancel(s, c)
  /\ holder[c] = "buyer" => c \in gap
  /\ \A l \in Listers : listing[l] = c => c \in gap

\* The inductive invariant.
ClaimInv ==
  ClaimTypeOK /\ RequestsOK /\ BatchesWhole /\ CyclesHeld /\ GapsKnown

-----------------------------------------------------------------------------
LEMMA ClaimInitOK == ClaimInit => ClaimInv
<1> SUFFICES ASSUME ClaimInit PROVE ClaimInv
  OBVIOUS
<1>1. ClaimTypeOK
  BY ClaimAssumption DEF ClaimInit, ClaimTypeOK, Steps
<1>2. RequestsOK /\ BatchesWhole
  BY DEF ClaimInit, RequestsOK, ClaimantOK, TransactionOK, BatchesWhole
<1>3. CyclesHeld /\ GapsKnown
  BY DEF ClaimInit, CyclesHeld, GapsKnown, OpenRows
<1> QED BY <1>1, <1>2, <1>3 DEF ClaimInv

\* What the table of redemptions means depends on it alone.
LEMMA SameRows ==
  ASSUME redeems' = redeems
  PROVE  /\ \A c \in Cards : OpenRows(c)' = OpenRows(c)
         /\ \A p \in Payments : CardsPaidBy(p)' = CardsPaidBy(p)
BY DEF OpenRows, Unfulfilled, CardsPaidBy

\* The parts about committed rows survive any step that leaves the tables alone.
LEMMA TablesAlone ==
  ASSUME ClaimInv, UNCHANGED <<vault, claim, redeems, resets, wanted>>
  PROVE  BatchesWhole' /\ CyclesHeld'
<1>1. /\ vault' = vault /\ claim' = claim /\ redeems' = redeems
      /\ resets' = resets /\ wanted' = wanted
  OBVIOUS
<1>2. BatchesWhole'
  BY <1>1 DEF ClaimInv, BatchesWhole, CardsPaidBy
<1>3. CyclesHeld'
  BY <1>1 DEF ClaimInv, CyclesHeld, OpenRows, Unfulfilled
<1> QED BY <1>2, <1>3

\* A request that does not move, and loses neither a lock nor what it found
\* under the lock.
LEMMA RequestKept ==
  ASSUME ClaimInv, NEW s \in Claimants,
         step'[s] = step[s], basket'[s] = basket[s], payment'[s] = payment[s],
         batch'[s] = batch[s], left'[s] = left[s], hand'[s] = hand[s],
         \A c \in Cards : rowHeld[c] = s /\ Insertable(c) =>
                          rowHeld'[c] = s /\ Insertable(c)',
         \A p \in Payments : keyHeld[p] = s =>
                          keyHeld'[p] = s /\ claim'[p] = claim[p],
         Len(wanted') \in Nat, Len(wanted) <= Len(wanted'),
         \A i \in 1..Len(wanted) : wanted'[i] = wanted[i]
  PROVE  ClaimantOK(s)' /\ TransactionOK(s)'
<1>1. /\ ClaimantOK(s) /\ TransactionOK(s) /\ basket[s] \in SUBSET Cards
      /\ Len(wanted) \in Nat
  BY DEF ClaimInv, ClaimTypeOK, RequestsOK
<1>2. ClaimantOK(s)'
  BY <1>1 DEF ClaimantOK
<1>3. step'[s] \in {"row", "commit"} =>
        keyHeld'[payment'[s]] = s /\ claim'[payment'[s]] = 0
  BY <1>1 DEF ClaimantOK, TransactionOK
<1>4. ASSUME NEW C \in SUBSET Cards, Locks(s, C)
      PROVE  \A c \in C : rowHeld'[c] = s /\ Insertable(c)'
  BY <1>4 DEF Locks
<1>5. step'[s] = "row" =>
        /\ hand'[s] \in Cards
        /\ Locks(s, basket[s] \ (left[s] \cup {hand[s]}))'
  <2>1. basket[s] \ (left[s] \cup {hand[s]}) \in SUBSET Cards
    BY <1>1
  <2> QED BY <1>1, <1>4, <2>1 DEF TransactionOK, Locks
<1>6. step'[s] = "commit" => Locks(s, basket[s])'
  BY <1>1, <1>4 DEF TransactionOK, Locks
<1>7. step'[s] = "cancel" => left'[s] \subseteq basket'[s]
  BY <1>1 DEF TransactionOK
<1> QED BY <1>2, <1>3, <1>5, <1>6, <1>7 DEF TransactionOK

\* The types, in three parts.
TableTypes ==
  /\ vault \in [Cards -> {"none", "minted", "redemption_requested", "redeemed"}]
  /\ claim \in [Payments -> 0..MaxBatches]
  /\ redeems \in SUBSET Redemptions
  /\ listed \in SUBSET Cards /\ resets \in SUBSET Cards /\ gap \in SUBSET Cards
  /\ holder \in [Cards -> {"user", "buyer", "custody", "burned"}]
  /\ listing \in [Listers -> Cards \cup {NoOne}]
  /\ wanted \in Seq(SUBSET Cards) /\ Len(wanted) <= MaxBatches
  /\ failures \in Nat
LockTypes ==
  /\ keyHeld \in [Payments -> Claimants \cup {NoOne}]
  /\ rowHeld \in [Cards -> Claimants \cup {NoOne}]
RequestTypes ==
  /\ step \in [Claimants -> Steps] /\ basket \in [Claimants -> SUBSET Cards]
  /\ payment \in [Claimants -> Payments \cup {NoOne}]
  /\ batch \in [Claimants -> 0..MaxBatches]
  /\ left \in [Claimants -> SUBSET Cards]
  /\ hand \in [Claimants -> Cards \cup {NoOne}]

LEMMA ClaimTypesSplit == ClaimTypeOK <=> TableTypes /\ LockTypes /\ RequestTypes
BY DEF ClaimTypeOK, TableTypes, LockTypes, RequestTypes

LEMMA LeavesTypes ==
  ASSUME ClaimInv, NEW S, Leaves(S), Release(S)
  PROVE  LockTypes' /\ RequestTypes'
<1>1. LockTypes /\ RequestTypes /\ MaxBatches \in Nat
  BY ClaimTypesSplit, ClaimAssumption DEF ClaimInv
<1>2. LockTypes'
  BY <1>1 DEF LockTypes, Release
<1>3. RequestTypes'
  BY <1>1 DEF RequestTypes, Leaves, Steps
<1> QED BY <1>2, <1>3

\* The requests S end, with their locks.
LEMMA LeavesOK ==
  ASSUME ClaimInv, NEW S \in SUBSET Claimants, Leaves(S), Release(S),
         UNCHANGED <<vault, claim, redeems, wanted>>
  PROVE  RequestsOK'
<1>1. ASSUME NEW s \in S
      PROVE  ClaimantOK(s)' /\ TransactionOK(s)'
  <2>1. step'[s] = "idle"
    BY DEF Leaves
  <2> QED BY <2>1 DEF ClaimantOK, TransactionOK
<1>2. ASSUME NEW s \in Claimants \ S
      PROVE  ClaimantOK(s)' /\ TransactionOK(s)'
  <2>1. /\ step'[s] = step[s] /\ basket'[s] = basket[s]
        /\ payment'[s] = payment[s] /\ batch'[s] = batch[s]
        /\ left'[s] = left[s] /\ hand'[s] = hand[s]
    BY DEF Leaves
  <2>2. /\ \A c \in Cards : rowHeld[c] = s /\ Insertable(c) =>
                            rowHeld'[c] = s /\ Insertable(c)'
        /\ \A p \in Payments : keyHeld[p] = s =>
                            keyHeld'[p] = s /\ claim'[p] = claim[p]
    BY DEF Release, Insertable, OpenRows, Unfulfilled
  <2>3. Len(wanted) \in Nat
    BY DEF ClaimInv, ClaimTypeOK
  <2> QED BY <2>1, <2>2, <2>3, RequestKept
<1> QED BY <1>1, <1>2 DEF RequestsOK

\* One request moves; no other one, no lock of others and no table does.
LEMMA MovesOK ==
  ASSUME ClaimInv, NEW s \in Claimants,
         \A t \in Claimants \ {s} :
           /\ step'[t] = step[t] /\ basket'[t] = basket[t]
           /\ payment'[t] = payment[t] /\ batch'[t] = batch[t]
           /\ left'[t] = left[t] /\ hand'[t] = hand[t]
           /\ \A c \in Cards : rowHeld[c] = t => rowHeld'[c] = t
           /\ \A p \in Payments : keyHeld[p] = t => keyHeld'[p] = t,
         UNCHANGED <<vault, claim, redeems, wanted>>,
         ClaimantOK(s)', TransactionOK(s)'
  PROVE  RequestsOK'
<1>1. ASSUME NEW t \in Claimants \ {s}
      PROVE  ClaimantOK(t)' /\ TransactionOK(t)'
  <2>1. /\ \A c \in Cards : rowHeld[c] = t /\ Insertable(c) =>
                            rowHeld'[c] = t /\ Insertable(c)'
        /\ \A p \in Payments : keyHeld[p] = t =>
                            keyHeld'[p] = t /\ claim'[p] = claim[p]
    BY DEF Insertable, OpenRows, Unfulfilled
  <2>2. Len(wanted) \in Nat
    BY DEF ClaimInv, ClaimTypeOK
  <2> QED BY <2>1, <2>2, RequestKept
<1> QED BY <1>1 DEF RequestsOK

\* GapsKnown is only about open rows, asks, owners and pending listings.
LEMMA GapsAlone ==
  ASSUME ClaimInv, UNCHANGED <<redeems, listed, holder, listing>>,
         gap \subseteq gap',
         \A c \in Cards : (\E s \in Claimants : WillCancel(s, c)) =>
           c \notin listed \/ c \in gap' \/ \E s \in Claimants : WillCancel(s, c)'
  PROVE  GapsKnown'
BY DEF ClaimInv, GapsKnown, OpenRows, Unfulfilled

-----------------------------------------------------------------------------
(* The steps of a request                                                  *)

LEMMA RejectedOK ==
  ASSUME ClaimInv, NEW s \in Claimants, Rejected(s),
         \A c \in Cards : WillCancel(s, c) => c \notin listed
  PROVE  ClaimInv'
<1>1. /\ Leaves({s}) /\ Release({s})
      /\ UNCHANGED <<vault, claim, redeems, resets, wanted>>
      /\ vault' = vault /\ claim' = claim /\ redeems' = redeems
      /\ resets' = resets /\ wanted' = wanted /\ listed' = listed
      /\ holder' = holder /\ listing' = listing /\ gap' = gap
      /\ failures' = failures
  BY DEF Rejected, tables
<1>2. ClaimTypeOK'
  <2>1. LockTypes' /\ RequestTypes' /\ TableTypes
    BY <1>1, LeavesTypes, ClaimTypesSplit DEF ClaimInv
  <2> QED BY <1>1, <2>1
          DEF ClaimTypeOK, TableTypes, LockTypes, RequestTypes
<1>3. RequestsOK' /\ BatchesWhole' /\ CyclesHeld'
  <2>1. {s} \in SUBSET Claimants
    OBVIOUS
  <2> QED BY <1>1, <2>1, LeavesOK, TablesAlone
<1>4. GapsKnown'
  <2>1. \A t \in Claimants \ {s}, c \in Cards : WillCancel(t, c) => WillCancel(t, c)'
    BY <1>1 DEF Leaves, WillCancel
  <2> QED BY <1>1, <2>1, GapsAlone
<1> QED BY <1>2, <1>3, <1>4 DEF ClaimInv

LEMMA StartRedeemOK ==
  ASSUME ClaimInv, NEW s \in Claimants, NEW S \in SUBSET Cards,
         NEW p \in Payments, StartRedeem(s, S, p)
  PROVE  ClaimInv'
<1>1. /\ step[s] = "idle" /\ Len(wanted) < MaxBatches
      /\ wanted' = Append(wanted, S)
      /\ step' = [step EXCEPT ![s] = "used"]
      /\ basket' = [basket EXCEPT ![s] = S]
      /\ payment' = [payment EXCEPT ![s] = p]
      /\ batch' = [batch EXCEPT ![s] = Len(wanted) + 1]
      /\ left' = left /\ hand' = hand /\ vault' = vault /\ claim' = claim
      /\ redeems' = redeems /\ listed' = listed /\ resets' = resets
      /\ holder' = holder /\ keyHeld' = keyHeld /\ rowHeld' = rowHeld
      /\ listing' = listing /\ gap' = gap /\ failures' = failures
  BY DEF StartRedeem, tables, locks
<1>2. TableTypes /\ LockTypes /\ RequestTypes /\ MaxBatches \in Nat
  BY ClaimTypesSplit, ClaimAssumption DEF ClaimInv
<1>3. /\ wanted' \in Seq(SUBSET Cards) /\ Len(wanted') = Len(wanted) + 1
      /\ Len(wanted) \in Nat /\ wanted'[Len(wanted) + 1] = S
      /\ \A i \in 1..Len(wanted) : wanted'[i] = wanted[i]
  BY <1>1, <1>2 DEF TableTypes
<1>4. ClaimTypeOK'
  <2>1. TableTypes'
    BY <1>1, <1>2, <1>3 DEF TableTypes
  <2>2. LockTypes' /\ RequestTypes'
    BY <1>1, <1>2, <1>3 DEF LockTypes, RequestTypes, Steps, TableTypes
  <2> QED BY <2>1, <2>2 DEF ClaimTypeOK, TableTypes, LockTypes, RequestTypes
<1>5. RequestsOK'
  <2>1. ClaimantOK(s)' /\ TransactionOK(s)'
    BY <1>1, <1>2, <1>3 DEF ClaimantOK, TransactionOK, RequestTypes
  <2>2. ASSUME NEW t \in Claimants \ {s}
        PROVE  ClaimantOK(t)' /\ TransactionOK(t)'
    <3>1. /\ step'[t] = step[t] /\ basket'[t] = basket[t]
          /\ payment'[t] = payment[t] /\ batch'[t] = batch[t]
          /\ left'[t] = left[t] /\ hand'[t] = hand[t]
      BY <1>1, <1>2 DEF RequestTypes
    <3>2. /\ \A c \in Cards : rowHeld[c] = t /\ Insertable(c) =>
                              rowHeld'[c] = t /\ Insertable(c)'
          /\ \A q \in Payments : keyHeld[q] = t =>
                              keyHeld'[q] = t /\ claim'[q] = claim[q]
      BY <1>1 DEF Insertable, OpenRows, Unfulfilled
    <3> QED BY <1>3, <3>1, <3>2, RequestKept
  <2> QED BY <2>1, <2>2 DEF RequestsOK
<1>6. BatchesWhole'
  BY <1>1, <1>3 DEF ClaimInv, BatchesWhole, CardsPaidBy
<1>7. CyclesHeld'
  BY <1>1 DEF ClaimInv, CyclesHeld, OpenRows, Unfulfilled
<1>8. GapsKnown'
  <2>1. \A t \in Claimants, c \in Cards : WillCancel(t, c) => WillCancel(t, c)'
    BY <1>1, <1>2 DEF WillCancel, RequestTypes
  <2> QED BY <1>1, <2>1, GapsAlone
<1> QED BY <1>4, <1>5, <1>6, <1>7, <1>8 DEF ClaimInv

LEMMA GoOnOK ==
  ASSUME ClaimInv, NEW s \in Claimants, step[s] \in {"used", "owners"},
         NEW p \in {"owners", "insert"}, GoOn(s, p),
         UNCHANGED <<tables, holder, locks, listing, wanted, gap, failures>>
  PROVE  ClaimInv'
<1>1. /\ step' = [step EXCEPT ![s] = p] /\ basket' = basket
      /\ payment' = payment /\ batch' = batch /\ left' = left /\ hand' = hand
      /\ vault' = vault /\ claim' = claim /\ redeems' = redeems
      /\ listed' = listed /\ resets' = resets /\ holder' = holder
      /\ keyHeld' = keyHeld /\ rowHeld' = rowHeld /\ listing' = listing
      /\ wanted' = wanted /\ gap' = gap /\ failures' = failures
  BY DEF GoOn, tables, locks
<1>2. TableTypes /\ LockTypes /\ RequestTypes /\ ClaimantOK(s)
  BY ClaimTypesSplit DEF ClaimInv, RequestsOK
<1>3. ClaimTypeOK'
  BY <1>1, <1>2 DEF ClaimTypeOK, TableTypes, LockTypes, RequestTypes, Steps
<1>4. RequestsOK'
  <2>1. ClaimantOK(s)' /\ TransactionOK(s)'
    BY <1>1, <1>2 DEF ClaimantOK, TransactionOK, RequestTypes
  <2>2. \A t \in Claimants \ {s} : step'[t] = step[t]
    BY <1>1, <1>2 DEF RequestTypes
  <2> QED BY <1>1, <2>1, <2>2, MovesOK
<1>5. BatchesWhole' /\ CyclesHeld'
  BY <1>1, TablesAlone
<1>6. GapsKnown'
  <2>1. \A t \in Claimants, c \in Cards : WillCancel(t, c) => WillCancel(t, c)'
    BY <1>1, <1>2 DEF WillCancel, RequestTypes
  <2> QED BY <1>1, <2>1, GapsAlone
<1> QED BY <1>3, <1>4, <1>5, <1>6 DEF ClaimInv

LEMMA CheckOK ==
  ASSUME ClaimInv, NEW s \in Claimants, CheckUsed(s) \/ CheckOwners(s)
  PROVE  ClaimInv'
<1>1. step[s] \in {"used", "owners"}
  BY DEF CheckUsed, CheckOwners
<1>2. CASE Rejected(s)
  BY <1>1, <1>2, RejectedOK DEF WillCancel
<1>3. CASE ~Rejected(s)
  BY <1>1, <1>3, GoOnOK DEF CheckUsed, CheckOwners
<1> QED BY <1>2, <1>3

LEMMA InsertClaimOK ==
  ASSUME ClaimInv, NEW s \in Claimants, InsertClaim(s)
  PROVE  ClaimInv'
<1>1. CASE Rejected(s)
  BY <1>1, RejectedOK DEF InsertClaim, WillCancel
<1>2. CASE ~Rejected(s)
  <2>1. PICK c \in basket[s] :
          /\ hand' = [hand EXCEPT ![s] = c]
          /\ left' = [left EXCEPT ![s] = basket[s] \ {c}]
    BY <1>2 DEF InsertClaim
  <2>2. /\ step[s] = "insert" /\ keyHeld[payment[s]] = NoOne
        /\ claim[payment[s]] = 0
        /\ keyHeld' = [keyHeld EXCEPT ![payment[s]] = s]
        /\ step' = [step EXCEPT ![s] = "row"] /\ basket' = basket
        /\ payment' = payment /\ batch' = batch /\ rowHeld' = rowHeld
        /\ vault' = vault /\ claim' = claim /\ redeems' = redeems
        /\ listed' = listed /\ resets' = resets /\ holder' = holder
        /\ listing' = listing /\ wanted' = wanted /\ gap' = gap
        /\ failures' = failures
    BY <1>2 DEF InsertClaim, Used, tables
  <2>3. /\ TableTypes /\ LockTypes /\ RequestTypes /\ ClaimantOK(s)
        /\ NoOne \notin Claimants
    BY ClaimTypesSplit, ClaimAssumption DEF ClaimInv, RequestsOK
  <2>4. payment[s] \in Payments /\ c \in Cards /\ basket[s] \in SUBSET Cards
    BY <2>1, <2>2, <2>3 DEF ClaimantOK, RequestTypes
  <2>5. ClaimTypeOK'
    BY <2>1, <2>2, <2>3, <2>4
       DEF ClaimTypeOK, TableTypes, LockTypes, RequestTypes, Steps
  <2>6. RequestsOK'
    <3>1. /\ step'[s] = "row" /\ left'[s] = basket[s] \ {c} /\ hand'[s] = c
          /\ keyHeld'[payment[s]] = s
      BY <2>1, <2>2, <2>3, <2>4 DEF RequestTypes, LockTypes
    <3>2. ClaimantOK(s)' /\ TransactionOK(s)'
      <4>1. basket[s] \ (left'[s] \cup {hand'[s]}) = {}
        BY <3>1
      <4> QED BY <2>2, <2>3, <2>4, <3>1, <4>1
              DEF ClaimantOK, TransactionOK, Locks
    <3>3. \A t \in Claimants \ {s} :
            /\ step'[t] = step[t] /\ left'[t] = left[t] /\ hand'[t] = hand[t]
            /\ \A p \in Payments : keyHeld[p] = t => keyHeld'[p] = t
      BY <2>1, <2>2, <2>3 DEF RequestTypes, LockTypes
    <3> QED BY <2>2, <3>2, <3>3, MovesOK
  <2>7. BatchesWhole' /\ CyclesHeld'
    BY <2>2, TablesAlone
  <2>8. GapsKnown'
    <3>1. \A t \in Claimants, d \in Cards : WillCancel(t, d) => WillCancel(t, d)'
      BY <2>1, <2>2, <2>3 DEF WillCancel, RequestTypes
    <3> QED BY <2>2, <3>1, GapsAlone
  <2> QED BY <2>5, <2>6, <2>7, <2>8 DEF ClaimInv
<1> QED BY <1>1, <1>2

LEMMA InsertRowOK ==
  ASSUME ClaimInv, NEW s \in Claimants, InsertRow(s)
  PROVE  ClaimInv'
<1>1. CASE Rejected(s)
  BY <1>1, RejectedOK DEF InsertRow, WillCancel
<1>2. CASE ~Rejected(s)
  <2>1. /\ step[s] = "row" /\ rowHeld[hand[s]] = NoOne /\ Insertable(hand[s])
        /\ rowHeld' = [rowHeld EXCEPT ![hand[s]] = s]
        /\ basket' = basket /\ payment' = payment /\ batch' = batch
        /\ keyHeld' = keyHeld
        /\ vault' = vault /\ claim' = claim /\ redeems' = redeems
        /\ listed' = listed /\ resets' = resets /\ holder' = holder
        /\ listing' = listing /\ wanted' = wanted /\ gap' = gap
        /\ failures' = failures
    BY <1>2 DEF InsertRow, GoOn, tables
  <2>2. /\ TableTypes /\ LockTypes /\ RequestTypes
        /\ ClaimantOK(s) /\ TransactionOK(s) /\ NoOne \notin Claimants
    BY ClaimTypesSplit, ClaimAssumption DEF ClaimInv, RequestsOK
  <2>3. hand[s] \in Cards /\ payment[s] \in Payments /\ basket[s] \in SUBSET Cards
    BY <2>1, <2>2 DEF ClaimantOK, TransactionOK, RequestTypes
  <2>4. ASSUME NEW c \in basket[s] \ left[s]
        PROVE  rowHeld'[c] = s /\ Insertable(c)'
    <3>1. (rowHeld[c] = s \/ c = hand[s]) /\ Insertable(c)
      BY <2>1, <2>2 DEF TransactionOK, Locks
    <3> QED BY <2>1, <2>2, <2>3, <3>1
            DEF LockTypes, Insertable, OpenRows, Unfulfilled
  <2>5. /\ keyHeld'[payment'[s]] = s /\ claim'[payment'[s]] = 0
        /\ payment'[s] = payment[s] /\ basket'[s] = basket[s]
    BY <2>1, <2>2 DEF TransactionOK
  <2>6. /\ RequestTypes' /\ ClaimantOK(s)' /\ TransactionOK(s)'
        /\ \A t \in Claimants \ {s} :
             step'[t] = step[t] /\ left'[t] = left[t] /\ hand'[t] = hand[t]
        /\ step'[s] \in {"row", "commit"}
    <3>1. CASE left[s] = {}
      <4>1. step' = [step EXCEPT ![s] = "commit"] /\ left' = left /\ hand' = hand
        BY <1>2, <3>1 DEF InsertRow, GoOn
      <4>2. \A c \in basket[s] : rowHeld'[c] = s /\ Insertable(c)'
        BY <2>4, <3>1
      <4>3. RequestTypes' /\ step'[s] = "commit"
        BY <2>1, <2>2, <4>1 DEF RequestTypes, Steps
      <4>4. ClaimantOK(s)' /\ TransactionOK(s)'
        BY <2>1, <2>2, <2>5, <4>2, <4>3 DEF ClaimantOK, TransactionOK, Locks
      <4> QED BY <2>2, <4>1, <4>3, <4>4 DEF RequestTypes
    <3>2. CASE left[s] # {}
      <4>1. PICK d \in left[s] : /\ hand' = [hand EXCEPT ![s] = d]
                                 /\ left' = [left EXCEPT ![s] = @ \ {d}]
        BY <1>2, <3>2 DEF InsertRow
      <4>2. step' = step /\ d \in Cards
        BY <1>2, <2>2, <3>2, <4>1 DEF InsertRow, RequestTypes
      <4>3. /\ RequestTypes' /\ left'[s] = left[s] \ {d} /\ hand'[s] = d
            /\ step'[s] = "row"
        BY <2>1, <2>2, <4>1, <4>2 DEF RequestTypes, Steps
      <4>4. basket[s] \ (left'[s] \cup {hand'[s]}) \subseteq basket[s] \ left[s]
        BY <4>3
      <4>5. ClaimantOK(s)' /\ TransactionOK(s)'
        BY <2>1, <2>2, <2>4, <2>5, <4>2, <4>3, <4>4
           DEF ClaimantOK, TransactionOK, Locks
      <4> QED BY <2>2, <4>1, <4>2, <4>3, <4>5 DEF RequestTypes
    <3> QED BY <3>1, <3>2
  <2>7. ClaimTypeOK'
    <3>1. LockTypes' /\ TableTypes'
      BY <2>1, <2>2 DEF LockTypes, TableTypes
    <3> QED BY <2>6, <3>1 DEF ClaimTypeOK, TableTypes, LockTypes, RequestTypes
  <2>8. RequestsOK'
    <3>1. \A t \in Claimants \ {s}, c \in Cards : rowHeld[c] = t => rowHeld'[c] = t
      BY <2>1, <2>2, <2>3 DEF LockTypes
    <3> QED BY <2>1, <2>6, <3>1, MovesOK
  <2>9. BatchesWhole' /\ CyclesHeld'
    BY <2>1, TablesAlone
  <2>10. GapsKnown'
    <3>1. \A t \in Claimants, c \in Cards : WillCancel(t, c) => WillCancel(t, c)'
      BY <2>1, <2>6 DEF WillCancel
    <3> QED BY <2>1, <3>1, GapsAlone
  <2> QED BY <2>6, <2>7, <2>8, <2>9, <2>10 DEF ClaimInv
<1> QED BY <1>1, <1>2

LEMMA DeadlockedOK ==
  ASSUME ClaimInv, NEW s \in Claimants, Deadlocked(s)
  PROVE  ClaimInv'
<1>1. step[s] = "row"
  BY DEF Deadlocked, WaitsFor
<1> QED BY <1>1, RejectedOK DEF Deadlocked, WillCancel

LEMMA FindOrdersOK ==
  ASSUME ClaimInv, NEW s \in Claimants, FindOrders(s)
  PROVE  ClaimInv'
<1>1. /\ step[s] = "orders" /\ left' = [left EXCEPT ![s] = basket[s] \cap listed]
      /\ step' = [step EXCEPT ![s] = "cancel"] /\ basket' = basket
      /\ payment' = payment /\ batch' = batch /\ hand' = hand
      /\ vault' = vault /\ claim' = claim /\ redeems' = redeems
      /\ listed' = listed /\ resets' = resets /\ holder' = holder
      /\ keyHeld' = keyHeld /\ rowHeld' = rowHeld /\ listing' = listing
      /\ wanted' = wanted /\ gap' = gap /\ failures' = failures
  BY DEF FindOrders, tables, locks
<1>2. TableTypes /\ LockTypes /\ RequestTypes /\ ClaimantOK(s)
  BY ClaimTypesSplit DEF ClaimInv, RequestsOK
<1>3. ClaimTypeOK'
  BY <1>1, <1>2 DEF ClaimTypeOK, TableTypes, LockTypes, RequestTypes, Steps
<1>4. /\ step'[s] = "cancel" /\ left'[s] = basket[s] \cap listed
      /\ \A t \in Claimants \ {s} : step'[t] = step[t] /\ left'[t] = left[t]
  BY <1>1, <1>2 DEF RequestTypes
<1>5. RequestsOK'
  <2>1. ClaimantOK(s)' /\ TransactionOK(s)'
    BY <1>1, <1>2, <1>4 DEF ClaimantOK, TransactionOK
  <2> QED BY <1>1, <1>4, <2>1, MovesOK
<1>6. BatchesWhole' /\ CyclesHeld'
  BY <1>1, TablesAlone
<1>7. GapsKnown'
  <2>1. \A t \in Claimants, c \in Cards :
          WillCancel(t, c) => c \notin listed \/ WillCancel(t, c)'
    BY <1>1, <1>4 DEF WillCancel
  <2> QED BY <1>1, <2>1, GapsAlone
<1> QED BY <1>3, <1>5, <1>6, <1>7 DEF ClaimInv

LEMMA CancelOrderOK ==
  ASSUME ClaimInv, NEW s \in Claimants, CancelOrder(s)
  PROVE  ClaimInv'
<1>1. CASE left[s] = {}
  BY <1>1, RejectedOK DEF CancelOrder, WillCancel
<1>2. CASE left[s] # {}
  <2>1. PICK c \in left[s] : /\ listed' = listed \ {c}
                             /\ left' = [left EXCEPT ![s] = @ \ {c}]
    BY <1>2 DEF CancelOrder
  <2>2. /\ step[s] = "cancel" /\ step' = step /\ basket' = basket
        /\ payment' = payment /\ batch' = batch /\ hand' = hand
        /\ vault' = vault /\ claim' = claim /\ redeems' = redeems
        /\ resets' = resets /\ holder' = holder
        /\ keyHeld' = keyHeld /\ rowHeld' = rowHeld /\ listing' = listing
        /\ wanted' = wanted /\ gap' = gap /\ failures' = failures
    BY <1>2 DEF CancelOrder, locks
  <2>3. /\ TableTypes /\ LockTypes /\ RequestTypes
        /\ ClaimantOK(s) /\ TransactionOK(s) /\ GapsKnown
    BY ClaimTypesSplit DEF ClaimInv, RequestsOK
  <2>4. /\ left'[s] = left[s] \ {c}
        /\ \A t \in Claimants \ {s} : left'[t] = left[t]
    BY <2>1, <2>3 DEF RequestTypes
  <2>5. ClaimTypeOK'
    BY <2>1, <2>2, <2>3 DEF ClaimTypeOK, TableTypes, LockTypes, RequestTypes
  <2>6. RequestsOK'
    <3>1. ClaimantOK(s)' /\ TransactionOK(s)'
      BY <2>2, <2>3, <2>4 DEF ClaimantOK, TransactionOK
    <3> QED BY <2>2, <2>4, <3>1, MovesOK
  <2>7. BatchesWhole' /\ CyclesHeld'
    BY <2>2, TablesAlone
  <2>8. GapsKnown'
    <3>1. \A t \in Claimants, d \in Cards \ {c} : WillCancel(t, d) => WillCancel(t, d)'
      BY <2>2, <2>4 DEF WillCancel
    <3> QED BY <2>1, <2>2, <2>3, <3>1 DEF GapsKnown, OpenRows, Unfulfilled
  <2> QED BY <2>5, <2>6, <2>7, <2>8 DEF ClaimInv
<1> QED BY <1>1, <1>2

LEMMA RedeemRowIs ==
  ASSUME NEW s, NEW c
  PROVE  /\ RedeemRow(s, c).pay = payment[s] /\ RedeemRow(s, c).batch = batch[s]
         /\ RedeemRow(s, c).card = c /\ RedeemRow(s, c).status = "open"
BY DEF RedeemRow

LEMMA CommitBatchOK ==
  ASSUME ClaimInv, NEW s \in Claimants, CommitBatch(s)
  PROVE  ClaimInv'
<1>1. /\ step[s] = "commit"
      /\ claim' = [claim EXCEPT ![payment[s]] = batch[s]]
      /\ redeems' = redeems \cup {RedeemRow(s, c) : c \in basket[s]}
      /\ vault' = [c \in Cards |-> IF c \in basket[s] THEN "redemption_requested"
                                                      ELSE vault[c]]
      /\ gap' = gap \cup {c \in basket[s] : \/ holder[c] # "user"
                                           \/ \E l \in Listers : listing[l] = c}
      /\ Release({s}) /\ step' = [step EXCEPT ![s] = "orders"]
      /\ hand' = [hand EXCEPT ![s] = NoOne] /\ basket' = basket
      /\ payment' = payment /\ batch' = batch /\ left' = left
      /\ listed' = listed /\ resets' = resets /\ holder' = holder
      /\ listing' = listing /\ wanted' = wanted /\ failures' = failures
  BY DEF CommitBatch
<1>2. /\ TableTypes /\ LockTypes /\ RequestTypes /\ ClaimantOK(s)
      /\ TransactionOK(s) /\ NoOne \notin Claimants /\ MaxBatches \in Nat
      /\ BatchesWhole /\ CyclesHeld /\ GapsKnown
  BY ClaimTypesSplit, ClaimAssumption DEF ClaimInv, RequestsOK
<1>3. /\ payment[s] \in Payments /\ batch[s] \in 1..Len(wanted)
      /\ basket[s] = wanted[batch[s]] /\ basket[s] \in SUBSET Cards
      /\ Len(wanted) \in Nat /\ Len(wanted) <= MaxBatches
      /\ keyHeld[payment[s]] = s /\ claim[payment[s]] = 0
      /\ \A c \in basket[s] : rowHeld[c] = s /\ Insertable(c)
  BY <1>1, <1>2
     DEF ClaimantOK, TransactionOK, Locks, RequestTypes, TableTypes
<1>4. \A r \in redeems : r.pay # payment[s]
  BY <1>2, <1>3 DEF BatchesWhole
<1>5. /\ \A c \in basket[s] : OpenRows(c) = {} /\ OpenRows(c)' = {RedeemRow(s, c)}
      /\ \A c \in Cards \ basket[s] : OpenRows(c)' = OpenRows(c)
  BY <1>1, <1>3, RedeemRowIs DEF OpenRows, Unfulfilled, Insertable
<1>6. ClaimTypeOK'
  <2>1. \A c \in basket[s] : RedeemRow(s, c) \in Redemptions
    BY <1>2, <1>3 DEF RedeemRow, Redemptions
  <2>2. redeems' \in SUBSET Redemptions
    BY <1>1, <1>2, <2>1 DEF TableTypes
  <2>3. TableTypes'
    BY <1>1, <1>2, <1>3, <2>2 DEF TableTypes
  <2>4. LockTypes' /\ RequestTypes'
    BY <1>1, <1>2 DEF LockTypes, RequestTypes, Release, Steps
  <2> QED BY <2>3, <2>4 DEF ClaimTypeOK, TableTypes, LockTypes, RequestTypes
<1>7. RequestsOK'
  <2>1. ClaimantOK(s)' /\ TransactionOK(s)'
    BY <1>1, <1>2 DEF ClaimantOK, TransactionOK, RequestTypes
  <2>2. ASSUME NEW t \in Claimants \ {s}
        PROVE  ClaimantOK(t)' /\ TransactionOK(t)'
    <3>1. /\ step'[t] = step[t] /\ basket'[t] = basket[t]
          /\ payment'[t] = payment[t] /\ batch'[t] = batch[t]
          /\ left'[t] = left[t] /\ hand'[t] = hand[t]
      BY <1>1, <1>2 DEF RequestTypes
    <3>2. ASSUME NEW c \in Cards, rowHeld[c] = t, Insertable(c)
          PROVE  rowHeld'[c] = t /\ Insertable(c)'
      <4>1. c \notin basket[s] /\ rowHeld'[c] = t
        BY <1>1, <1>3, <3>2 DEF Release
      <4> QED BY <1>1, <1>5, <3>2, <4>1 DEF Insertable
    <3>3. ASSUME NEW p \in Payments, keyHeld[p] = t
          PROVE  keyHeld'[p] = t /\ claim'[p] = claim[p]
      BY <1>1, <1>2, <1>3, <3>3 DEF Release, TableTypes
    <3> QED BY <1>1, <1>3, <3>1, <3>2, <3>3, RequestKept
  <2> QED BY <2>1, <2>2 DEF RequestsOK
<1>8. BatchesWhole'
  <2>1. ASSUME NEW r \in redeems
        PROVE  /\ claim'[r.pay] = r.batch /\ r.batch \in 1..Len(wanted')
               /\ CardsPaidBy(r.pay)' = wanted'[r.batch]
    <3>1. CardsPaidBy(r.pay)' = CardsPaidBy(r.pay)
      BY <1>1, <1>4, RedeemRowIs DEF CardsPaidBy
    <3>2. r.pay \in Payments
      BY <1>2 DEF TableTypes, Redemptions
    <3> QED BY <1>1, <1>2, <1>4, <3>1, <3>2 DEF BatchesWhole, TableTypes
  <2>2. ASSUME NEW r \in {RedeemRow(s, d) : d \in basket[s]}
        PROVE  /\ claim'[r.pay] = r.batch /\ r.batch \in 1..Len(wanted')
               /\ CardsPaidBy(r.pay)' = wanted'[r.batch]
    <3>1. r.pay = payment[s] /\ r.batch = batch[s]
      BY RedeemRowIs
    <3>2. \A x \in redeems' :
            x.pay = payment[s] <=> \E d \in basket[s] : x = RedeemRow(s, d)
      BY <1>1, <1>4, RedeemRowIs
    <3>3. ASSUME NEW d \in basket[s]
          PROVE  RedeemRow(s, d) \in redeems' /\ RedeemRow(s, d).card = d
      BY <1>1, RedeemRowIs
    <3>4. {x.card : x \in {y \in redeems' : y.pay = r.pay}} = basket[s]
      BY <3>1, <3>2, <3>3, RedeemRowIs
    <3>5. claim'[payment[s]] = batch[s]
      BY <1>1, <1>2, <1>3 DEF TableTypes
    <3> QED BY <1>1, <1>3, <3>1, <3>4, <3>5 DEF CardsPaidBy
  <2>3. redeems' = redeems \cup {RedeemRow(s, d) : d \in basket[s]}
    BY <1>1
  <2> QED BY <2>1, <2>2, <2>3 DEF BatchesWhole
<1>9. CyclesHeld'
  <2>1. ASSUME NEW c \in basket[s]
        PROVE  c \in Cards /\ c \notin resets
    BY <1>2, <1>3 DEF CyclesHeld, Insertable
  <2> QED BY <1>1, <1>2, <1>5, <2>1 DEF CyclesHeld
<1>10. GapsKnown'
  <2>1. /\ step'[s] = "orders"
        /\ \A t \in Claimants \ {s}, c \in Cards : WillCancel(t, c) => WillCancel(t, c)'
        /\ \A c \in Cards : ~WillCancel(s, c)
    BY <1>1, <1>2 DEF WillCancel, RequestTypes
  <2>2. ASSUME NEW c \in basket[s]
        PROVE  /\ WillCancel(s, c)'
               /\ holder[c] = "buyer" => c \in gap'
               /\ \A l \in Listers : listing[l] = c => c \in gap'
    BY <1>1, <2>1 DEF WillCancel
  <2> QED BY <1>1, <1>2, <1>5, <2>1, <2>2 DEF GapsKnown
<1> QED BY <1>6, <1>7, <1>8, <1>9, <1>10 DEF ClaimInv

-----------------------------------------------------------------------------
(* Listings, sales, and the end of a batch                                 *)

\* No request moves and no table of the transaction changes.
LEMMA RequestsRest ==
  ASSUME ClaimInv,
         UNCHANGED <<vault, claim, redeems, resets, wanted, locks, claiming>>
  PROVE  /\ RequestsOK' /\ BatchesWhole' /\ CyclesHeld'
         /\ LockTypes' /\ RequestTypes'
         /\ \A s \in Claimants, c \in Cards : WillCancel(s, c)' = WillCancel(s, c)
<1>1. /\ vault' = vault /\ claim' = claim /\ redeems' = redeems /\ wanted' = wanted
      /\ keyHeld' = keyHeld /\ rowHeld' = rowHeld /\ step' = step
      /\ basket' = basket /\ payment' = payment /\ batch' = batch
      /\ left' = left /\ hand' = hand
  BY DEF locks, claiming
<1>2. RequestsOK'
  BY <1>1 DEF ClaimInv, RequestsOK, ClaimantOK, TransactionOK, Locks, Insertable,
              OpenRows, Unfulfilled
<1>3. LockTypes' /\ RequestTypes'
  BY <1>1, ClaimTypesSplit DEF ClaimInv, LockTypes, RequestTypes
<1>4. BatchesWhole' /\ CyclesHeld'
  BY TablesAlone
<1>5. \A s \in Claimants, c \in Cards : WillCancel(s, c)' = WillCancel(s, c)
  BY <1>1 DEF WillCancel
<1> QED BY <1>2, <1>3, <1>4, <1>5

LEMMA CheckListingOK ==
  ASSUME ClaimInv, NEW l \in Listers, NEW c \in Cards, CheckListing(l, c)
  PROVE  ClaimInv'
<1>1. /\ UNCHANGED <<vault, claim, redeems, resets, wanted, locks, claiming>>
      /\ Listable(c) /\ listing' = [listing EXCEPT ![l] = c]
      /\ redeems' = redeems /\ listed' = listed /\ holder' = holder /\ gap' = gap
      /\ vault' = vault /\ claim' = claim /\ resets' = resets
      /\ wanted' = wanted /\ failures' = failures
  BY DEF CheckListing, tables
<1>2. TableTypes /\ CyclesHeld /\ GapsKnown
  BY ClaimTypesSplit DEF ClaimInv
<1>3. /\ RequestsOK' /\ BatchesWhole' /\ CyclesHeld' /\ LockTypes' /\ RequestTypes'
      /\ \A s \in Claimants, d \in Cards : WillCancel(s, d)' = WillCancel(s, d)
  BY <1>1, RequestsRest
<1>4. TableTypes'
  BY <1>1, <1>2 DEF TableTypes
<1>5. OpenRows(c) = {}
  BY <1>1, <1>2 DEF CyclesHeld, Listable
<1>6. GapsKnown'
  BY <1>1, <1>2, <1>3, <1>5 DEF GapsKnown, OpenRows, Unfulfilled, TableTypes
<1> QED BY <1>3, <1>4, <1>6
        DEF ClaimInv, ClaimTypeOK, TableTypes, LockTypes, RequestTypes

LEMMA InsertListingOK ==
  ASSUME ClaimInv, NEW l \in Listers, InsertListing(l)
  PROVE  ClaimInv'
<1>1. /\ UNCHANGED <<vault, claim, redeems, resets, wanted, locks, claiming>>
      /\ listing[l] # NoOne /\ listed' = listed \cup {listing[l]}
      /\ listing' = [listing EXCEPT ![l] = NoOne]
      /\ redeems' = redeems /\ holder' = holder /\ gap' = gap
      /\ vault' = vault /\ claim' = claim /\ resets' = resets
      /\ wanted' = wanted /\ failures' = failures
  BY DEF InsertListing
<1>2. TableTypes /\ GapsKnown /\ NoOne \notin Cards
  BY ClaimTypesSplit, ClaimAssumption DEF ClaimInv
<1>3. /\ RequestsOK' /\ BatchesWhole' /\ CyclesHeld' /\ LockTypes' /\ RequestTypes'
      /\ \A s \in Claimants, d \in Cards : WillCancel(s, d)' = WillCancel(s, d)
  BY <1>1, RequestsRest
<1>4. TableTypes'
  BY <1>1, <1>2 DEF TableTypes
<1>5. GapsKnown'
  BY <1>1, <1>2, <1>3 DEF GapsKnown, OpenRows, Unfulfilled, TableTypes
<1> QED BY <1>3, <1>4, <1>5
        DEF ClaimInv, ClaimTypeOK, TableTypes, LockTypes, RequestTypes

LEMMA LeavesBookOK ==
  ASSUME ClaimInv, NEW c \in Cards, Unlist(c) \/ Buy(c) \/ Deposit(c)
  PROVE  ClaimInv'
<1>1. /\ UNCHANGED <<vault, claim, redeems, resets, wanted, locks, claiming>>
      /\ listed' \in {listed, listed \ {c}} /\ listing' = listing
      /\ redeems' = redeems /\ vault' = vault /\ claim' = claim
      /\ resets' = resets /\ wanted' = wanted /\ failures' = failures
      /\ \/ holder' = holder /\ gap' = gap
         \/ /\ holder' = [holder EXCEPT ![c] = "buyer"]
            /\ gap' = IF OpenRows(c) # {} THEN gap \cup {c} ELSE gap
         \/ holder' = [holder EXCEPT ![c] = "custody"] /\ gap' = gap
  BY DEF Unlist, Buy, Deposit, tables
<1>2. TableTypes /\ GapsKnown
  BY ClaimTypesSplit DEF ClaimInv
<1>3. /\ RequestsOK' /\ BatchesWhole' /\ CyclesHeld' /\ LockTypes' /\ RequestTypes'
      /\ \A s \in Claimants, d \in Cards : WillCancel(s, d)' = WillCancel(s, d)
  BY <1>1, RequestsRest
<1>4. TableTypes'
  BY <1>1, <1>2 DEF TableTypes
<1>5. \A d \in Cards : OpenRows(d)' = OpenRows(d)
  BY <1>1 DEF OpenRows, Unfulfilled
<1>6. GapsKnown'
  BY <1>1, <1>2, <1>3, <1>5 DEF GapsKnown, TableTypes
<1> QED BY <1>3, <1>4, <1>6
        DEF ClaimInv, ClaimTypeOK, TableTypes, LockTypes, RequestTypes

\* Closing the open row of a card changes no payment, batch or card of a row.
LEMMA CloseOK ==
  ASSUME ClaimInv, NEW c \in Cards, NEW how \in {"refunded", "completed"},
         Close(c, how), UNCHANGED <<claim, wanted>>
  PROVE  /\ redeems' \in SUBSET Redemptions /\ BatchesWhole'
         /\ OpenRows(c)' = {}
         /\ \A d \in Cards \ {c} : OpenRows(d)' = OpenRows(d)
<1> DEFINE New(r) == IF r.card = c /\ Unfulfilled(r) THEN [r EXCEPT !.status = how]
                                                     ELSE r
<1>1. /\ redeems' = {New(r) : r \in redeems} /\ redeems \in SUBSET Redemptions
      /\ BatchesWhole /\ claim' = claim /\ wanted' = wanted
  BY ClaimTypesSplit DEF Close, ClaimInv, TableTypes
<1>2. ASSUME NEW r \in Redemptions
      PROVE  /\ New(r) \in Redemptions /\ New(r).pay = r.pay
             /\ New(r).batch = r.batch /\ New(r).card = r.card
             /\ r.card = c => New(r).status # "open"
             /\ r.card # c => New(r) = r
  BY DEF Redemptions, Unfulfilled
<1> HIDE DEF New
<1>3. redeems' \in SUBSET Redemptions
  BY <1>1, <1>2
<1>4. OpenRows(c)' = {} /\ \A d \in Cards \ {c} : OpenRows(d)' = OpenRows(d)
  BY <1>1, <1>2 DEF OpenRows, Unfulfilled
<1>5. \A p \in Payments : CardsPaidBy(p)' = CardsPaidBy(p)
  BY <1>1, <1>2 DEF CardsPaidBy
<1>6. BatchesWhole'
  <2>1. ASSUME NEW x \in redeems'
        PROVE  /\ claim'[x.pay] = x.batch /\ x.batch \in 1..Len(wanted')
               /\ CardsPaidBy(x.pay)' = wanted'[x.batch]
    <3>1. PICK r \in redeems : x = New(r)
      BY <1>1, <2>1
    <3>2. x.pay = r.pay /\ x.batch = r.batch /\ r.pay \in Payments
      BY <1>1, <1>2, <3>1 DEF Redemptions
    <3> QED BY <1>1, <1>5, <3>2 DEF BatchesWhole
  <2> QED BY <2>1 DEF BatchesWhole
<1> QED BY <1>3, <1>4, <1>6

\* The locks are kept when only cards change that nobody has locked and found
\* free.
LEMMA RequestsStay ==
  ASSUME ClaimInv, UNCHANGED <<claim, wanted, locks, claiming>>,
         \A s \in Claimants, d \in Cards :
           rowHeld[d] = s /\ Insertable(d) => Insertable(d)'
  PROVE  /\ RequestsOK' /\ LockTypes' /\ RequestTypes'
         /\ \A s \in Claimants, d \in Cards : WillCancel(s, d)' = WillCancel(s, d)
<1>1. /\ claim' = claim /\ wanted' = wanted /\ keyHeld' = keyHeld
      /\ rowHeld' = rowHeld /\ step' = step /\ basket' = basket
      /\ payment' = payment /\ batch' = batch /\ left' = left /\ hand' = hand
  BY DEF locks, claiming
<1>2. ASSUME NEW s \in Claimants
      PROVE  ClaimantOK(s)' /\ TransactionOK(s)'
  <2>1. Len(wanted) \in Nat
    BY DEF ClaimInv, ClaimTypeOK
  <2> QED BY <1>1, <2>1, RequestKept
<1>3. LockTypes' /\ RequestTypes'
  BY <1>1, ClaimTypesSplit DEF ClaimInv, LockTypes, RequestTypes
<1>4. \A s \in Claimants, d \in Cards : WillCancel(s, d)' = WillCancel(s, d)
  BY <1>1 DEF WillCancel
<1> QED BY <1>2, <1>3, <1>4 DEF RequestsOK

LEMMA RefundOK ==
  ASSUME ClaimInv, NEW c \in Cards, Refund(c)
  PROVE  ClaimInv'
<1>1. /\ OpenRows(c) # {} /\ Close(c, "refunded")
      /\ holder' = [holder EXCEPT ![c] = IF @ = "custody" THEN "user" ELSE @]
      /\ resets' = resets \cup {c} /\ gap' = gap \ {c}
      /\ vault' = vault /\ claim' = claim /\ listed' = listed
      /\ listing' = listing /\ wanted' = wanted /\ failures' = failures
      /\ UNCHANGED <<claim, wanted, locks, claiming>>
  BY DEF Refund
<1>2. TableTypes /\ CyclesHeld /\ GapsKnown
  BY ClaimTypesSplit DEF ClaimInv
<1>3. /\ redeems' \in SUBSET Redemptions /\ BatchesWhole' /\ OpenRows(c)' = {}
      /\ \A d \in Cards \ {c} : OpenRows(d)' = OpenRows(d)
  BY <1>1, CloseOK
<1>4. /\ RequestsOK' /\ LockTypes' /\ RequestTypes'
      /\ \A s \in Claimants, d \in Cards : WillCancel(s, d)' = WillCancel(s, d)
  <2>1. \A d \in Cards : Insertable(d) => Insertable(d)'
    BY <1>1, <1>3 DEF Insertable
  <2> QED BY <1>1, <2>1, RequestsStay
<1>5. TableTypes'
  BY <1>1, <1>2, <1>3 DEF TableTypes
<1>6. CyclesHeld'
  BY <1>1, <1>2, <1>3 DEF CyclesHeld
<1>7. GapsKnown'
  BY <1>1, <1>2, <1>3, <1>4 DEF GapsKnown, TableTypes
<1> QED BY <1>3, <1>4, <1>5, <1>6, <1>7
        DEF ClaimInv, ClaimTypeOK, TableTypes, LockTypes, RequestTypes

LEMMA CompleteOK ==
  ASSUME ClaimInv, NEW c \in Cards, Complete(c)
  PROVE  ClaimInv'
<1>1. /\ OpenRows(c) # {} /\ Close(c, "completed")
      /\ holder' = [holder EXCEPT ![c] = "burned"]
      /\ vault' = [vault EXCEPT ![c] = "redeemed"]
      /\ resets' = resets /\ gap' = gap /\ claim' = claim /\ listed' = listed
      /\ listing' = listing /\ wanted' = wanted /\ failures' = failures
      /\ UNCHANGED <<claim, wanted, locks, claiming>>
  BY DEF Complete
<1>2. TableTypes /\ CyclesHeld /\ GapsKnown
  BY ClaimTypesSplit DEF ClaimInv
<1>3. /\ redeems' \in SUBSET Redemptions /\ BatchesWhole' /\ OpenRows(c)' = {}
      /\ \A d \in Cards \ {c} : OpenRows(d)' = OpenRows(d)
  BY <1>1, CloseOK
<1>4. /\ RequestsOK' /\ LockTypes' /\ RequestTypes'
      /\ \A s \in Claimants, d \in Cards : WillCancel(s, d)' = WillCancel(s, d)
  <2>1. \A d \in Cards : Insertable(d) => Insertable(d)'
    BY <1>1, <1>2, <1>3 DEF Insertable, TableTypes
  <2> QED BY <1>1, <2>1, RequestsStay
<1>5. TableTypes'
  BY <1>1, <1>2, <1>3 DEF TableTypes
<1>6. CyclesHeld'
  BY <1>1, <1>2, <1>3 DEF CyclesHeld, TableTypes
<1>7. GapsKnown'
  BY <1>1, <1>2, <1>3, <1>4 DEF GapsKnown, TableTypes
<1> QED BY <1>3, <1>4, <1>5, <1>6, <1>7
        DEF ClaimInv, ClaimTypeOK, TableTypes, LockTypes, RequestTypes

LEMMA ResetCycleOK ==
  ASSUME ClaimInv, NEW c \in Cards, ResetCycle(c)
  PROVE  ClaimInv'
<1>1. /\ c \in resets /\ rowHeld[c] = NoOne
      /\ vault' = [vault EXCEPT ![c] = FreedStatus(@)]
      /\ resets' = resets \ {c} /\ holder' = holder /\ redeems' = redeems
      /\ gap' = gap /\ claim' = claim /\ listed' = listed
      /\ listing' = listing /\ wanted' = wanted /\ failures' = failures
      /\ UNCHANGED <<claim, wanted, locks, claiming>>
  BY DEF ResetCycle
<1>2. TableTypes /\ CyclesHeld /\ GapsKnown /\ BatchesWhole /\ NoOne \notin Claimants
  BY ClaimTypesSplit, ClaimAssumption DEF ClaimInv
<1>3. \A d \in Cards : OpenRows(d)' = OpenRows(d)
  BY <1>1 DEF OpenRows, Unfulfilled
<1>4. /\ RequestsOK' /\ LockTypes' /\ RequestTypes'
      /\ \A s \in Claimants, d \in Cards : WillCancel(s, d)' = WillCancel(s, d)
  <2>1. \A s \in Claimants, d \in Cards :
          rowHeld[d] = s /\ Insertable(d) => Insertable(d)'
    BY <1>1, <1>2, <1>3 DEF Insertable, TableTypes
  <2> QED BY <1>1, <2>1, RequestsStay
<1>5. TableTypes'
  BY <1>1, <1>2 DEF TableTypes, FreedStatus
<1>6. CyclesHeld'
  BY <1>1, <1>2, <1>3 DEF CyclesHeld, TableTypes
<1>7. GapsKnown' /\ BatchesWhole'
  BY <1>1, <1>2, <1>3, <1>4 DEF GapsKnown, BatchesWhole, CardsPaidBy
<1> QED BY <1>4, <1>5, <1>6, <1>7
        DEF ClaimInv, ClaimTypeOK, TableTypes, LockTypes, RequestTypes

-----------------------------------------------------------------------------
(* Failures                                                                *)

\* Requests S are cut off, one or all of them.
LEMMA CutOffOK ==
  ASSUME ClaimInv, NEW S \in SUBSET Claimants, Leaves(S), Release(S),
         UNCHANGED <<vault, claim, redeems, listed, holder, wanted>>,
         gap' = gap \cup Unfinished(S), failures' = failures + 1,
         resets' \in {resets, {}},
         listing' \in {listing, [l \in Listers |-> NoOne]}
  PROVE  ClaimInv'
<1>1. /\ vault' = vault /\ claim' = claim /\ redeems' = redeems
      /\ listed' = listed /\ holder' = holder /\ wanted' = wanted
  OBVIOUS
<1>2. /\ TableTypes /\ RequestTypes /\ RequestsOK /\ BatchesWhole /\ CyclesHeld
      /\ GapsKnown /\ NoOne \notin Cards
  BY ClaimTypesSplit, ClaimAssumption DEF ClaimInv
<1>3. LockTypes' /\ RequestTypes' /\ RequestsOK'
  BY <1>1, LeavesTypes, LeavesOK
<1>4. gap' \in SUBSET Cards
  BY <1>2 DEF TableTypes, RequestTypes, Unfinished
<1>5. TableTypes'
  BY <1>1, <1>2, <1>4 DEF TableTypes
<1>6. \A c \in Cards : OpenRows(c)' = OpenRows(c)
  BY <1>1 DEF OpenRows, Unfulfilled
<1>7. BatchesWhole' /\ CyclesHeld'
  BY <1>1, <1>2, <1>6 DEF BatchesWhole, CardsPaidBy, CyclesHeld
<1>8. GapsKnown'
  <2>1. ASSUME NEW s \in Claimants, NEW c \in Cards, WillCancel(s, c)
        PROVE  c \in gap' \/ WillCancel(s, c)'
    <3>1. CASE s \in S
      <4>1. step[s] \in {"orders", "cancel"} /\ c \in basket[s]
        BY <1>2, <2>1 DEF WillCancel, RequestsOK, TransactionOK
      <4> QED BY <3>1, <4>1 DEF Unfinished
    <3>2. CASE s \notin S
      BY <2>1, <3>2 DEF WillCancel, Leaves
    <3> QED BY <3>1, <3>2
  <2> QED BY <1>1, <1>2, <1>6, <2>1 DEF GapsKnown
<1> QED BY <1>3, <1>5, <1>7, <1>8
        DEF ClaimInv, ClaimTypeOK, TableTypes, LockTypes, RequestTypes

LEMMA FailuresOK ==
  ASSUME ClaimInv, ClaimRestart \/ \E s \in Claimants : ClaimFails(s)
  PROVE  ClaimInv'
<1>1. CASE ClaimRestart
  <2>1. Claimants \in SUBSET Claimants
    OBVIOUS
  <2> QED BY <1>1, <2>1, CutOffOK DEF ClaimRestart
<1>2. CASE \E s \in Claimants : ClaimFails(s)
  <2>1. PICK s \in Claimants : ClaimFails(s)
    BY <1>2
  <2>2. {s} \in SUBSET Claimants
    OBVIOUS
  <2> QED BY <2>1, <2>2, CutOffOK DEF ClaimFails, tables
<1> QED BY <1>1, <1>2

LEMMA StutterOK ==
  ASSUME ClaimInv, UNCHANGED claimVars
  PROVE  ClaimInv'
<1>1. /\ UNCHANGED <<vault, claim, redeems, resets, wanted, locks, claiming>>
      /\ UNCHANGED <<listed, holder, listing, gap, failures>>
  BY DEF claimVars, tables
<1>2. /\ RequestsOK' /\ BatchesWhole' /\ CyclesHeld' /\ LockTypes' /\ RequestTypes'
      /\ \A s \in Claimants, d \in Cards : WillCancel(s, d)' = WillCancel(s, d)
  BY <1>1, RequestsRest
<1>3. TableTypes'
  BY <1>1, ClaimTypesSplit DEF ClaimInv, TableTypes
<1>4. GapsKnown'
  BY <1>1, <1>2, GapsAlone
<1> QED BY <1>2, <1>3, <1>4
        DEF ClaimInv, ClaimTypeOK, TableTypes, LockTypes, RequestTypes

LEMMA NextOK == ClaimInv /\ [ClaimNext]_claimVars => ClaimInv'
<1> SUFFICES ASSUME ClaimInv, [ClaimNext]_claimVars PROVE ClaimInv'
  OBVIOUS
<1>1. CASE \E s \in Claimants, S \in (SUBSET Cards) \ {{}}, p \in Payments :
             StartRedeem(s, S, p)
  BY <1>1, StartRedeemOK
<1>2. CASE \E s \in Claimants : Claims(s)
  BY <1>2, CheckOK, InsertClaimOK, InsertRowOK, CommitBatchOK, DeadlockedOK,
     FindOrdersOK, CancelOrderOK DEF Claims
<1>3. CASE Trade
  BY <1>3, CheckListingOK, InsertListingOK, LeavesBookOK DEF Trade
<1>4. CASE \E c \in Cards : Ends(c)
  BY <1>4, LeavesBookOK, RefundOK, ResetCycleOK, CompleteOK DEF Ends
<1>5. CASE ClaimRestart \/ \E s \in Claimants : ClaimFails(s)
  BY <1>5, FailuresOK
<1>6. CASE UNCHANGED claimVars
  BY <1>6, StutterOK
<1> QED BY <1>1, <1>2, <1>3, <1>4, <1>5, <1>6 DEF ClaimNext

-----------------------------------------------------------------------------
(* The theorems                                                            *)

\* What the transactions of createPaidRedemptionBatch have locked and found is
\* still so when they commit, for any number of requests, cards and failures.
THEOREM ClaimInvariant == ClaimSpec => []ClaimInv
BY ClaimInitOK, NextOK, PTL DEF ClaimSpec

\* Tables, locks and requests keep their types.
THEOREM ClaimTypeCorrect == ClaimSpec => []ClaimTypeOK
<1>1. ClaimInv => ClaimTypeOK
  BY DEF ClaimInv
<1> QED BY <1>1, ClaimInvariant, PTL

\* "a payment tx may only fund one batch" (vault-redeem-payment-claim.entity.ts),
\* and funds it whole: the unique index and the transaction of
\* createPaidRedemptionBatch, whatever requests bring the same payment.
THEOREM PaymentFunds == ClaimSpec => []PaymentFundsOneBatch
<1>1. ClaimInv => PaymentFundsOneBatch
  BY DEF ClaimInv, BatchesWhole, CardsPaidBy, PaymentFundsOneBatch
<1> QED BY <1>1, ClaimInvariant, PTL

\* A card has one open redemption at most, and its cycle is in redemption for
\* as long: the checks of insertPaidRedemptionRow under the row locks, against
\* other requests, refunds and their late cycle resets.
THEOREM OpenRowHolds == ClaimSpec => []OpenRowHoldsCycle
<1>1. ClaimInv => OpenRowHoldsCycle
  <2> SUFFICES ASSUME ClaimInv, NEW c \in Cards
               PROVE  /\ Cardinality(OpenRows(c)) <= 1
                      /\ OpenRows(c) # {} => vault[c] = "redemption_requested"
    BY DEF OpenRowHoldsCycle
  <2>1. /\ \A r, q \in OpenRows(c) : r = q
        /\ OpenRows(c) # {} => vault[c] = "redemption_requested"
    BY DEF ClaimInv, CyclesHeld
  <2>2. CASE OpenRows(c) = {}
    BY <2>2, FS_EmptySet
  <2>3. CASE OpenRows(c) # {}
    <3>1. PICK r \in OpenRows(c) : TRUE
      BY <2>3
    <3>2. OpenRows(c) = {r}
      BY <2>1, <3>1
    <3>3. Cardinality(OpenRows(c)) = 1
      BY <3>2, FS_Singleton
    <3> QED BY <2>1, <3>3
  <2> QED BY <2>2, <2>3
<1> QED BY <1>1, ClaimInvariant, PTL

\* cancelActiveOrdersForTokens after the commit: a card in redeem is listed or
\* sold only while its request is still cancelling, after the request was cut
\* off there, or when the listing or sale was under way at the commit.
THEOREM RedeemedUnlisted == ClaimSpec => []RedeemedCardsUnlisted
<1>1. ClaimInv => RedeemedCardsUnlisted
  <2> SUFFICES ASSUME ClaimInv, NEW c \in Cards, OpenRows(c) # {},
                      c \in listed \/ holder[c] = "buyer", c \notin gap
               PROVE  \E s \in Claimants : c \in Unfinished({s})
    BY DEF RedeemedCardsUnlisted
  <2>1. PICK s \in Claimants : WillCancel(s, c)
    BY DEF ClaimInv, GapsKnown
  <2>2. step[s] \in {"orders", "cancel"} /\ c \in basket[s]
    BY <2>1 DEF ClaimInv, WillCancel, RequestsOK, TransactionOK
  <2>3. c \in Unfinished({s})
    BY <2>2 DEF Unfinished
  <2> QED BY <2>3
<1> QED BY <1>1, ClaimInvariant, PTL

-----------------------------------------------------------------------------
(* The four services in one run                                             *)

LEMMA ServicesRunApart == AllSpec => Spec /\ QuoteSpec /\ ClaimSpec /\ BoxSpec
<1>1. AllInit => Init /\ QuoteInit /\ ClaimInit /\ BoxInit
  BY DEF AllInit
<1>2. [AllNext]_<<service, vars, quoteVars, claimVars, boxVars>> =>
        /\ [Next]_vars /\ [QuoteNext]_quoteVars
        /\ [ClaimNext]_claimVars /\ [BoxNext]_boxVars
  BY DEF AllNext
<1> QED BY <1>1, <1>2, PTL DEF AllSpec, Spec, QuoteSpec, ClaimSpec, BoxSpec

\* Whichever of the four services runs, its rows, pins and calls, and those of
\* the others, keep the values their columns and types allow.
THEOREM AllTypeCorrect == AllSpec => []AllTypesOK
<1>1. TypeOK /\ QuoteTypeOK /\ ClaimTypeOK /\ BoxTypeOK => AllTypesOK
  BY DEF AllTypesOK
<1> QED BY <1>1, ServicesRunApart, TypeCorrect, QuoteTypeCorrect,
           ClaimTypeCorrect, BoxTypeCorrect, PTL
=============================================================================
