-------------------------- MODULE OrderBook_proofs --------------------------
(***************************************************************************)
(* Proofs about OrderBook, for any number of orders, wallets, calls and     *)
(* failures: its types, that the book and the payout ledger show no sale    *)
(* without a cause on the chain, how a row that ended may still change, and *)
(* that every live ask of the token beyond the first comes from two calls   *)
(* that listed at a time.                                                   *)
(* Then about KycStatus, which runs beside the book in MCTrade: the gate on *)
(* a user's verification lets no one through without a reason, and an       *)
(* approval ends only for one.                                              *)
(***************************************************************************)
EXTENDS MCTrade, FiniteSetTheorems, TLAPS

\* What a sale leaves on the chain.
Gone(o) == filled[o] \/ moved[o]

AskOf(a, m) == IF a \in Asks THEN a ELSE m
BidOf(a, m) == IF a \in Bids THEN a ELSE m
Opposite(a, m) == (a \in Asks /\ m \in Bids) \/ (a \in Bids /\ m \in Asks)

-----------------------------------------------------------------------------
(* What holds of a call: of its kind k, its place p, its orders a and m, its *)
(* wallet w and its candidates cs.                                           *)

ListPcs == {"own", "cross", "stale", "staleowner", "stalesave", "stalerecord",
            "exists", "insert", "oldread", "commit"}
RowPcs  == {"read", "fund", "seller", "save", "fillsave", "record", "ledger",
            "consumed", "find", "candidates", "selffill", "repair"} \cup PairPcs

\* The orders it names are there.
PlaceOK(k, p, a, m, w, cs) ==
  /\ p \in ListPcs => a \in Orders
  /\ p \in RowPcs => a \in Listed
  /\ k = "replace" /\ p \in {"own", "cross", "oldread", "commit"} => m \in Listed
  /\ p \in {"oldread", "commit"} => k = "replace"
  /\ p \in {"staleowner", "stalesave"} => m \in Listed
  /\ p = "sweep" => cs \subseteq Listed

\* Its kind fits its place.
KindOK(k, p) ==
  /\ p \in ListPcs => k \in {"post", "replace"}
  /\ p = "read" => k \in {"cancel", "dead", "unowned", "fulfill", "reconcile", "drop"}
  /\ (p = "fund" => k = "dead") /\ (p = "seller" => k = "unowned")
  /\ p \in {"settle", "clear", "ledger"} => k \in {"fulfill", "pair", "reconcile"}
  /\ p \in {"readask", "readbid", "settlebid", "pairsave"} => k \in {"pair", "reconcile"}
  /\ p = "fillsave" => k = "fulfill"
  /\ p \in {"find", "candidates", "selffill"} => k = "reconcile"
  /\ p \in {"consumed", "repair"} => k \in {"reconcile", "drop"}
  /\ p = "record" => k \in {"fulfill", "pair", "reconcile", "unowned"}

\* A pair is an ask and a bid, bought by the bidder.
PairOK(k, p, a, m, w, cs) ==
  /\ k \in {"pair", "reconcile"} /\ p \in PairPcs \cup {"ledger", "record"} =>
       m \in Listed /\ Opposite(a, m) /\ w = Offerer[BidOf(a, m)]
  /\ k = "reconcile" /\ p \in PairPcs \cup {"candidates"} =>
       \A c \in cs : c \in Listed /\ Opposite(a, c)

\* Its wallet is a wallet, and a buyer has held the token.
WhoOK(k, p, a, w) ==
  /\ p \in {"stalesave", "stalerecord", "record"} => w \in Wallets
  /\ k = "unowned" /\ p = "save" => w \in Wallets
  /\ k = "fulfill" /\ p # "idle" => w \in held
  /\ k = "drop" /\ p # "idle" => w = None
  /\ p \in {"pairsave", "ledger"} => w \in held
  /\ p = "clear" /\ (k = "fulfill" => a \in Asks) => w \in held
  /\ p = "repair" => w \in held \cup {None}

\* What it is about to call sold is gone.
CauseOK(k, p, a, m) ==
  /\ p \in {"fillsave", "find", "candidates", "selffill", "repair"} => Gone(a)
  /\ k = "reconcile" /\ p \in PairPcs => Gone(a)
  /\ p = "settlebid" => Gone(AskOf(a, m))
  /\ p = "pairsave" => Gone(a) /\ Gone(m)
  /\ p = "ledger" \/ (p = "clear" /\ (k = "fulfill" => a \in Asks)) =>
       AskOf(a, m) \in Asks /\ Gone(AskOf(a, m))

CallOK(k, p, a, m, w, cs) ==
  /\ PlaceOK(k, p, a, m, w, cs) /\ KindOK(k, p)
  /\ PairOK(k, p, a, m, w, cs) /\ WhoOK(k, p, a, w) /\ CauseOK(k, p, a, m)

CallsOK == \A j \in Calls : CallOK(op[j], pc[j], at[j], mate[j], who[j], cands[j])

\* The history variables agree with the chain.
HistOK ==
  /\ owner \in held
  /\ \A o \in Listed : Away(o, owner) => moved[o]
  /\ \A o \in Orders : filled[o] => o \in Listed /\ Offerer[o] \in held
  /\ \A o \in Orders : moved[o] => o \in Listed

\* The inductive invariant.
IInv == TypeOK /\ HistOK /\ CallsOK /\ FulfilledWasConsumed /\ LedgerNamesSales

DataTypes ==
  /\ status \in [Orders -> Statuses] /\ buyer \in [Orders -> Wallets \cup {None}]
  /\ ledger \in [Asks -> Wallets \cup {None}] /\ index \in Wallets
ChainTypes ==
  /\ owner \in Wallets /\ filled \in [Orders -> BOOLEAN] /\ elapsed \in BOOLEAN
CallTypes ==
  /\ op \in [Calls -> Ops] /\ pc \in [Calls -> Pcs]
  /\ at \in [Calls -> Orders \cup {None}] /\ mate \in [Calls -> Orders \cup {None}]
  /\ who \in [Calls -> Wallets \cup {None}] /\ cands \in [Calls -> SUBSET Orders]
HistTypes ==
  /\ started \in 0..MaxCalls /\ faults \in 0..MaxFaults
  /\ held \subseteq Wallets /\ moved \in [Orders -> BOOLEAN] /\ overlaps \in Nat

LEMMA TypesSplit == TypeOK <=> DataTypes /\ ChainTypes /\ CallTypes /\ HistTypes
BY DEF TypeOK, DataTypes, ChainTypes, CallTypes, HistTypes

LEMMA Facts ==
  /\ None \notin Orders /\ None \notin Wallets /\ None \notin Asks /\ None \notin Bids
  /\ \A o \in Orders : Offerer[o] \in Wallets /\ (o \in Bids <=> o \notin Asks)
  /\ Asks \subseteq Orders /\ Bids \subseteq Orders /\ Listed \subseteq Orders
BY OrdersAssumption DEF Orders, Listed

-----------------------------------------------------------------------------
(* Facts about orders and wallets only grow.                                *)

Grows ==
  /\ Listed \subseteq Listed' /\ held \subseteq held'
  /\ \A o \in Orders : Gone(o) => Gone(o)'

LEMMA CallGrows ==
  ASSUME Grows, NEW k, NEW p, NEW a, NEW m, NEW w, NEW cs, CallOK(k, p, a, m, w, cs)
  PROVE  /\ PlaceOK(k, p, a, m, w, cs)' /\ PairOK(k, p, a, m, w, cs)'
         /\ WhoOK(k, p, a, w)' /\ CauseOK(k, p, a, m)'
<1>1. PlaceOK(k, p, a, m, w, cs)'
  BY DEF Grows, CallOK, PlaceOK
<1>2. PairOK(k, p, a, m, w, cs)'
  BY DEF Grows, CallOK, PairOK
<1>3. WhoOK(k, p, a, w)'
  BY DEF Grows, CallOK, WhoOK
<1>4. CauseOK(k, p, a, m)'
  <2>1. p \in RowPcs => a \in Orders
    BY Facts DEF CallOK, PlaceOK
  <2>2. p \in {"settlebid", "pairsave"} => a \in Orders /\ m \in Orders
    BY <2>1, Facts DEF CallOK, KindOK, PairOK, PairPcs, RowPcs
  <2>3. \A o \in Orders : Gone(o) => Gone(o)'
    BY DEF Grows
  <2>4. p \in {"fillsave", "find", "candidates", "selffill", "repair"} => Gone(a)'
    BY <2>1, <2>3 DEF CallOK, CauseOK, RowPcs
  <2>5. k = "reconcile" /\ p \in PairPcs => Gone(a)'
    BY <2>1, <2>3 DEF CallOK, CauseOK, RowPcs
  <2>6. p = "settlebid" => Gone(AskOf(a, m))'
    <3>1. p = "settlebid" => AskOf(a, m) \in Orders /\ Gone(AskOf(a, m))
      BY <2>2 DEF CallOK, CauseOK, AskOf
    <3> QED BY <2>3, <3>1 DEF Gone, AskOf
  <2>7. p = "pairsave" => Gone(a)' /\ Gone(m)'
    BY <2>2, <2>3 DEF CallOK, CauseOK
  <2>8. p = "ledger" \/ (p = "clear" /\ (k = "fulfill" => a \in Asks)) =>
          AskOf(a, m) \in Asks /\ Gone(AskOf(a, m))'
    <3>1. \A o \in Asks : Gone(o) => Gone(o)'
      BY <2>3, Facts
    <3> QED BY <3>1 DEF CallOK, CauseOK, Gone, AskOf
  <2> QED BY <2>4, <2>5, <2>6, <2>7, <2>8 DEF CauseOK, AskOf
<1> QED BY <1>1, <1>2, <1>3, <1>4

\* One call moves; the others keep what they hold.
Moves(j) ==
  /\ CallTypes'
  /\ \A i \in Calls \ {j} :
       /\ op'[i] = op[i] /\ pc'[i] = pc[i] /\ at'[i] = at[i]
       /\ mate'[i] = mate[i] /\ who'[i] = who[i] /\ cands'[i] = cands[i]

LEMMA MoveOK ==
  ASSUME CallsOK, Grows, NEW j \in Calls, Moves(j),
         CallOK(op[j], pc[j], at[j], mate[j], who[j], cands[j])'
  PROVE  CallsOK'
<1> SUFFICES ASSUME NEW i \in Calls
             PROVE  CallOK(op[i], pc[i], at[i], mate[i], who[i], cands[i])'
  BY DEF CallsOK
<1>1. CASE i = j
  BY <1>1
<1>2. CASE i # j
  <2>1. PICK k, p, a, m, w, cs :
          /\ k = op[i] /\ p = pc[i] /\ a = at[i] /\ m = mate[i]
          /\ w = who[i] /\ cs = cands[i]
    OBVIOUS
  <2>2. /\ op'[i] = k /\ pc'[i] = p /\ at'[i] = a
        /\ mate'[i] = m /\ who'[i] = w /\ cands'[i] = cs
    BY <1>2, <2>1 DEF Moves
  <2>3. CallOK(k, p, a, m, w, cs)
    BY <2>1 DEF CallsOK
  <2>4. KindOK(k, p)
    BY <2>3 DEF CallOK
  <2>5. /\ PlaceOK(k, p, a, m, w, cs)' /\ PairOK(k, p, a, m, w, cs)'
        /\ WhoOK(k, p, a, w)' /\ CauseOK(k, p, a, m)'
    BY <2>3, CallGrows
  <2>6. CallOK(k, p, a, m, w, cs)'
    BY <2>4, <2>5 DEF CallOK, KindOK
  <2> QED
    BY <2>2, <2>6 DEF CallOK, PlaceOK, KindOK, PairOK, WhoOK, CauseOK, AskOf, BidOf, Gone
<1> QED BY <1>1, <1>2

LEMMA FinishOK ==
  ASSUME CallTypes, NEW j \in Calls, Finish(j)
  PROVE  /\ Moves(j)
         /\ CallOK(op[j], pc[j], at[j], mate[j], who[j], cands[j])'
<1>1. Moves(j)
  BY DEF CallTypes, Finish, Go, Moves, Ops, Pcs
<1>2. pc'[j] = "idle" /\ op'[j] = "post"
  BY DEF CallTypes, Finish, Go
<1> QED
  BY <1>1, <1>2 DEF CallOK, PlaceOK, KindOK, PairOK, WhoOK, CauseOK, ListPcs,
                    RowPcs, PairPcs

LEMMA StepOK ==
  ASSUME CallTypes, NEW j \in Calls, NEW p \in Pcs, Step(j, p)
  PROVE  /\ Moves(j) /\ pc'[j] = p
         /\ op'[j] = op[j] /\ at'[j] = at[j] /\ mate'[j] = mate[j]
         /\ who'[j] = who[j] /\ cands'[j] = cands[j]
BY DEF CallTypes, Step, Go, Moves, locals

LEMMA StayOK ==
  ASSUME CallsOK, Grows, UNCHANGED <<op, pc, at, mate, who, cands>>
  PROVE  CallsOK'
<1> SUFFICES ASSUME NEW i \in Calls
             PROVE  CallOK(op[i], pc[i], at[i], mate[i], who[i], cands[i])'
  BY DEF CallsOK
<1>1. PICK k, p, a, m, w, cs :
        /\ k = op[i] /\ p = pc[i] /\ a = at[i] /\ m = mate[i]
        /\ w = who[i] /\ cs = cands[i]
  OBVIOUS
<1>2. CallOK(k, p, a, m, w, cs) /\ KindOK(k, p)
  BY <1>1 DEF CallsOK, CallOK
<1>3. CallOK(k, p, a, m, w, cs)'
  BY <1>2, CallGrows DEF CallOK, KindOK
<1> QED
  BY <1>1, <1>3 DEF CallOK, PlaceOK, KindOK, PairOK, WhoOK, CauseOK, AskOf, BidOf, Gone

-----------------------------------------------------------------------------
(* Steps that leave the book, the chain and the history as they are.        *)

Still ==
  /\ UNCHANGED <<status, buyer, ledger, index, owner, filled, elapsed, held,
                 moved, overlaps>>
  /\ started' \in 0..MaxCalls /\ faults' \in 0..MaxFaults

LEMMA ReadOnlyStill == IInv /\ ReadOnly => Still
BY DEF IInv, TypeOK, ReadOnly, Still, book, chain, budget, hist

LEMMA QuietOK ==
  ASSUME IInv, Still, NEW j \in Calls, Moves(j),
         CallOK(op[j], pc[j], at[j], mate[j], who[j], cands[j])'
  PROVE  IInv'
<1>1. Grows
  BY DEF Still, Grows, Listed, Gone
<1>2. CallsOK'
  BY <1>1, MoveOK DEF IInv
<1>3. TypeOK'
  BY TypesSplit DEF IInv, Still, Moves, TypeOK, CallTypes
<1>4. HistOK'
  BY DEF IInv, HistOK, Still, Listed, Away
<1>5. FulfilledWasConsumed' /\ LedgerNamesSales'
  BY DEF IInv, Still, FulfilledWasConsumed, LedgerNamesSales
<1> QED BY <1>2, <1>3, <1>4, <1>5 DEF IInv

LEMMA QuietStepOK ==
  ASSUME IInv, Still, NEW j \in Calls, NEW p \in Pcs, Step(j, p),
         CallOK(op[j], p, at[j], mate[j], who[j], cands[j])
  PROVE  IInv'
<1>1. /\ Moves(j) /\ pc'[j] = p
      /\ op'[j] = op[j] /\ at'[j] = at[j] /\ mate'[j] = mate[j]
      /\ who'[j] = who[j] /\ cands'[j] = cands[j]
  BY StepOK, TypesSplit DEF IInv
<1>2. Grows
  BY DEF Still, Grows, Listed, Gone
<1>3. CallOK(op[j], pc[j], at[j], mate[j], who[j], cands[j])'
  <2>1. PICK k, a, m, w, cs :
          k = op[j] /\ a = at[j] /\ m = mate[j] /\ w = who[j] /\ cs = cands[j]
    OBVIOUS
  <2>2. CallOK(k, p, a, m, w, cs) /\ KindOK(k, p)
    BY <2>1 DEF CallOK
  <2>3. CallOK(k, p, a, m, w, cs)'
    BY <1>2, <2>2, CallGrows DEF CallOK, KindOK
  <2> QED
    BY <1>1, <2>1, <2>3 DEF CallOK, PlaceOK, KindOK, PairOK, WhoOK, CauseOK,
                            AskOf, BidOf, Gone
<1> QED BY <1>1, <1>3, QuietOK

LEMMA QuietFinishOK ==
  ASSUME IInv, Still, NEW j \in Calls, Finish(j)
  PROVE  IInv'
BY FinishOK, QuietOK, TypesSplit DEF IInv

LEMMA QuietAbandonOK ==
  ASSUME IInv, Still, NEW j \in Calls, Abandon(j)
  PROVE  IInv'
<1>1. CASE op[j] = "reconcile" /\ pc[j] \in PairPcs
  <2>1. Step(j, "candidates")
    BY <1>1 DEF Abandon, Step
  <2>2. CallOK(op[j], pc[j], at[j], mate[j], who[j], cands[j])
    BY DEF IInv, CallsOK
  <2>3. CallOK(op[j], "candidates", at[j], mate[j], who[j], cands[j])
    BY <1>1, <2>2 DEF CallOK, PlaceOK, KindOK, PairOK, WhoOK, CauseOK, RowPcs,
                      ListPcs, PairPcs
  <2> QED BY <2>1, <2>3, QuietStepOK DEF Pcs
<1>2. CASE ~(op[j] = "reconcile" /\ pc[j] \in PairPcs)
  BY <1>2, QuietFinishOK DEF Abandon
<1> QED BY <1>1, <1>2

LEMMA BeginOK ==
  ASSUME IInv, NEW j \in Calls, NEW k \in Ops, NEW p \in Pcs,
         NEW o \in Orders \cup {None}, NEW m \in Orders \cup {None},
         NEW w \in Wallets \cup {None}, NEW cs \in SUBSET Orders,
         Begin(j, o, k, m, w, p), cands' = [cands EXCEPT ![j] = cs],
         CallOK(k, p, o, m, w, cs)
  PROVE  IInv'
<1>1. Still
  BY OrdersAssumption DEF IInv, TypeOK, Begin, Still, book, chain, hist
<1>2. Moves(j) /\ pc'[j] = p /\ op'[j] = k /\ at'[j] = o /\ mate'[j] = m
      /\ who'[j] = w /\ cands'[j] = cs
  BY DEF IInv, TypeOK, Begin, Go, Moves, CallTypes
<1>3. Grows
  BY <1>1 DEF Still, Grows, Listed, Gone
<1>4. CallOK(k, p, o, m, w, cs)'
  BY <1>3, CallGrows DEF CallOK, KindOK
<1>5. CallOK(op[j], pc[j], at[j], mate[j], who[j], cands[j])'
  BY <1>2, <1>4 DEF CallOK, PlaceOK, KindOK, PairOK, WhoOK, CauseOK, AskOf, BidOf, Gone
<1> QED BY <1>1, <1>2, <1>5, QuietOK

\* A call begun on the rows it names, with the candidates left by an earlier one.
LEMMA BeginSame ==
  ASSUME IInv, NEW j \in Calls, NEW k \in Ops,
         NEW p \in {"own", "cross", "read", "readask"},
         NEW o \in Orders, NEW m \in Orders \cup {None},
         NEW w \in Wallets \cup {None},
         Begin(j, o, k, m, w, p), UNCHANGED cands,
         p \in {"read", "readask"} => o \in Listed,
         k = "replace" => m \in Listed,
         k = "pair" <=> p = "readask",
         k = "pair" => m \in Listed /\ Opposite(o, m) /\ w = Offerer[BidOf(o, m)],
         k = "fulfill" => w \in held,
         k = "drop" => w = None,
         KindOK(k, p)
  PROVE  IInv'
<1>1. cands[j] \in SUBSET Orders /\ cands' = [cands EXCEPT ![j] = cands[j]]
  BY DEF IInv, TypeOK
<1>2. p \in Pcs
  BY DEF Pcs, PairPcs
<1>3. CallOK(k, p, o, m, w, cands[j])
  BY DEF CallOK, PlaceOK, KindOK, PairOK, WhoOK, CauseOK, ListPcs, RowPcs, PairPcs
<1> QED BY <1>1, <1>2, <1>3, BeginOK

LEMMA StartOK ==
  ASSUME IInv, NEW j \in Calls, Start(j)
  PROVE  IInv'
<1> USE Facts
<1>1. ASSUME NEW o \in Orders, Post(j, o)
      PROVE  IInv'
  BY <1>1, BeginSame DEF Post, Ops, KindOK, ListPcs
<1>2. ASSUME NEW old \in Orders, NEW new \in Orders, Replace(j, old, new)
      PROVE  IInv'
  BY <1>2, BeginSame DEF Replace, Ops, KindOK, ListPcs
<1>3. ASSUME NEW o \in Orders, NEW k \in {"cancel", "dead", "unowned", "reconcile", "drop"},
             Call(j, o, k, None)
      PROVE  IInv'
  BY <1>3, BeginSame DEF Call, Ops, KindOK, ListPcs
<1>4. ASSUME NEW o \in Orders, Fulfill(j, o)
      PROVE  IInv'
  <2>1. PICK w \in held : Call(j, o, "fulfill", w)
    BY <1>4 DEF Fulfill
  <2>2. w \in Wallets
    BY DEF IInv, TypeOK
  <2> QED BY <2>1, <2>2, BeginSame DEF Call, Ops, KindOK, ListPcs
<1>5. ASSUME NEW a \in Asks, NEW b \in Bids, Pair(j, a, b)
      PROVE  IInv'
  <2>1. a \notin Bids /\ a \in Listed /\ b \in Listed
    BY <1>5 DEF Pair
  <2>2. Opposite(a, b) /\ BidOf(a, b) = b /\ Offerer[b] \in Wallets
    BY <2>1 DEF Opposite, BidOf
  <2> QED BY <1>5, <2>1, <2>2, BeginSame DEF Pair, Ops, KindOK, ListPcs
<1>6. ASSUME Sweep(j)
      PROVE  IInv'
  <2>1. Live(Orders) \in SUBSET Orders /\ Live(Orders) \subseteq Listed
    BY DEF Live, Listed
  <2>2. CallOK("sweep", "sweep", None, None, None, Live(Orders))
    BY <2>1 DEF CallOK, PlaceOK, KindOK, PairOK, WhoOK, CauseOK, ListPcs, RowPcs, PairPcs
  <2> QED BY <1>6, <2>1, <2>2, BeginOK DEF Sweep, Ops, Pcs
<1>7. \/ \E o \in Orders : Post(j, o) \/ Fulfill(j, o)
      \/ \E o \in Orders : \E k \in {"cancel", "dead", "unowned", "reconcile", "drop"} :
           Call(j, o, k, None)
      \/ \E old, new \in Orders : Replace(j, old, new)
      \/ \E a \in Asks, b \in Bids : Pair(j, a, b)
      \/ Sweep(j)
  BY DEF Start, Cancel, Dead, Unowned, Reconcile, Drop
<1> QED BY <1>1, <1>2, <1>3, <1>4, <1>5, <1>6, <1>7

-----------------------------------------------------------------------------
(* The steps of a call that only read.                                      *)

LEMMA ListReadsOK ==
  ASSUME IInv, NEW j \in Calls,
         \/ OwnsToken(j) \/ CrossCheck(j) \/ ExistsCheck(j) \/ OldRead(j)
  PROVE  IInv'
<1>1. Still /\ CallOK(op[j], pc[j], at[j], mate[j], who[j], cands[j])
  BY ReadOnlyStill DEF IInv, CallsOK, OwnsToken, CrossCheck, ExistsCheck, OldRead
<1>2. CASE Abandon(j)
  BY <1>1, <1>2, QuietAbandonOK
<1>3. CASE \E p \in {"stale", "insert", "commit", "oldread"} :
             /\ Step(j, p) /\ pc[j] \in ListPcs
             /\ p = "oldread" => op[j] = "replace" /\ pc[j] \in {"own", "cross"}
             /\ p = "commit" => pc[j] = "oldread"
  <2>1. PICK p \in {"stale", "insert", "commit", "oldread"} :
             /\ Step(j, p) /\ pc[j] \in ListPcs
             /\ p = "oldread" => op[j] = "replace" /\ pc[j] \in {"own", "cross"}
             /\ p = "commit" => pc[j] = "oldread"
    BY <1>3
  <2>2. CallOK(op[j], p, at[j], mate[j], who[j], cands[j])
    BY <1>1, <2>1 DEF CallOK, PlaceOK, KindOK, PairOK, WhoOK, CauseOK, ListPcs,
                      RowPcs, PairPcs
  <2> QED BY <1>1, <2>1, <2>2, QuietStepOK DEF Pcs
<1> QED
  BY <1>2, <1>3 DEF OwnsToken, CrossCheck, ExistsCheck, OldRead, Check, AfterCheck, ListPcs

LEMMA FindStaleOK ==
  ASSUME IInv, NEW j \in Calls, FindStale(j)
  PROVE  IInv'
<1>1. Still /\ CallOK(op[j], pc[j], at[j], mate[j], who[j], cands[j])
  BY ReadOnlyStill DEF IInv, CallsOK, FindStale
<1>2. CASE Step(j, "exists")
  <2>1. CallOK(op[j], "exists", at[j], mate[j], who[j], cands[j])
    BY <1>1 DEF FindStale, CallOK, PlaceOK, KindOK, PairOK, WhoOK, CauseOK, ListPcs,
                      RowPcs, PairPcs
  <2> QED BY <1>1, <1>2, <2>1, QuietStepOK DEF Pcs
<1>3. ASSUME NEW a \in Live(Asks), mate' = [mate EXCEPT ![j] = a],
             Go(j, "staleowner"), UNCHANGED <<op, at, who, cands>>
      PROVE  IInv'
  <2>1. a \in Orders /\ a \in Listed
    BY Facts DEF Live, Listed
  <2>2. /\ Moves(j) /\ pc'[j] = "staleowner" /\ mate'[j] = a /\ at'[j] = at[j]
        /\ op'[j] = op[j] /\ who'[j] = who[j]
    BY <1>3, <2>1 DEF IInv, TypeOK, Go, Moves, CallTypes, Pcs
  <2>3. Listed' = Listed /\ held' = held
    BY <1>1 DEF Still, Listed
  <2>4. CallOK(op[j], pc[j], at[j], mate[j], who[j], cands[j])'
    BY <1>1, <2>1, <2>2, <2>3 DEF FindStale, CallOK, PlaceOK, KindOK, PairOK, WhoOK, CauseOK, ListPcs,
                      RowPcs, PairPcs
  <2> QED BY <1>1, <2>2, <2>4, QuietOK
<1> QED BY <1>2, <1>3 DEF FindStale

LEMMA StaleOwnerOK ==
  ASSUME IInv, NEW j \in Calls, StaleOwner(j)
  PROVE  IInv'
<1>1. Still /\ CallOK(op[j], pc[j], at[j], mate[j], who[j], cands[j])
  BY ReadOnlyStill DEF IInv, CallsOK, StaleOwner
<1>2. CASE Step(j, "exists")
  <2>1. CallOK(op[j], "exists", at[j], mate[j], who[j], cands[j])
    BY <1>1 DEF StaleOwner, CallOK, PlaceOK, KindOK, PairOK, WhoOK, CauseOK, ListPcs,
                      RowPcs, PairPcs
  <2> QED BY <1>1, <1>2, <2>1, QuietStepOK DEF Pcs
<1>3. CASE who' = [who EXCEPT ![j] = owner] /\ Go(j, "stalesave")
           /\ UNCHANGED <<op, at, mate, cands>>
  <2>1. /\ Moves(j) /\ pc'[j] = "stalesave" /\ mate'[j] = mate[j]
        /\ at'[j] = at[j] /\ op'[j] = op[j] /\ who'[j] = owner /\ owner \in Wallets
    BY <1>3 DEF IInv, TypeOK, Go, Moves, CallTypes, Pcs
  <2>2. Listed' = Listed /\ held' = held /\ owner \in held
    BY <1>1 DEF IInv, HistOK, Still, Listed
  <2>3. op[j] # "drop" /\ CallOK(op[j], pc[j], at[j], mate[j], who[j], cands[j])'
    BY <1>1, <2>1, <2>2 DEF StaleOwner, CallOK, PlaceOK, KindOK, PairOK, WhoOK, CauseOK, ListPcs,
                      RowPcs, PairPcs
  <2> QED BY <1>1, <2>1, <2>3, QuietOK
<1> QED BY <1>2, <1>3 DEF StaleOwner

LEMMA ReadOK ==
  ASSUME IInv, NEW j \in Calls, Read(j)
  PROVE  IInv'
<1>1. Still /\ CallOK(op[j], pc[j], at[j], mate[j], who[j], cands[j])
  BY ReadOnlyStill DEF IInv, CallsOK, Read
<1>2. op[j] \in DOMAIN AfterRead
  BY <1>1 DEF Read, AfterRead, CallOK, KindOK
<1>3. CASE Abandon(j)
  BY <1>1, <1>3, QuietAbandonOK
<1>4. CASE Step(j, AfterRead[op[j]])
  <2>1. AfterRead[op[j]] \in Pcs
    BY <1>2 DEF AfterRead, Pcs, PairPcs
  <2>2. CallOK(op[j], AfterRead[op[j]], at[j], mate[j], who[j], cands[j])
    <3>1. \/ op[j] \in {"cancel", "dead", "unowned"}
             /\ AfterRead[op[j]] \in {"save", "fund", "seller"}
             /\ (AfterRead[op[j]] = "save" => op[j] = "cancel")
             /\ (AfterRead[op[j]] = "fund" => op[j] = "dead")
             /\ (AfterRead[op[j]] = "seller" => op[j] = "unowned")
          \/ op[j] = "fulfill" /\ AfterRead[op[j]] = "settle"
          \/ op[j] \in {"reconcile", "drop"} /\ AfterRead[op[j]] = "consumed"
      BY <1>2 DEF AfterRead
    <3> QED
      BY <1>1, <3>1 DEF Read, CallOK, PlaceOK, KindOK, PairOK, WhoOK, CauseOK, ListPcs,
                      RowPcs, PairPcs
  <2> QED BY <1>1, <1>4, <2>1, <2>2, QuietStepOK
<1> QED BY <1>3, <1>4 DEF Read, Check

LEMMA FundOK ==
  ASSUME IInv, NEW j \in Calls, Fund(j)
  PROVE  IInv'
<1>1. Still /\ CallOK(op[j], pc[j], at[j], mate[j], who[j], cands[j])
  BY ReadOnlyStill DEF IInv, CallsOK, Fund
<1>2. CASE Step(j, "save")
  <2>1. CallOK(op[j], "save", at[j], mate[j], who[j], cands[j])
    BY <1>1 DEF Fund, CallOK, PlaceOK, KindOK, PairOK, WhoOK, CauseOK, ListPcs,
                      RowPcs, PairPcs
  <2> QED BY <1>1, <1>2, <2>1, QuietStepOK DEF Pcs
<1>3. CASE Finish(j)
  BY <1>1, <1>3, QuietFinishOK
<1> QED BY <1>2, <1>3 DEF Fund

LEMMA SellerOK ==
  ASSUME IInv, NEW j \in Calls, Seller(j)
  PROVE  IInv'
<1>1. Still /\ CallOK(op[j], pc[j], at[j], mate[j], who[j], cands[j])
  BY ReadOnlyStill DEF IInv, CallsOK, Seller
<1>2. CASE Finish(j)
  BY <1>1, <1>2, QuietFinishOK
<1>3. CASE who' = [who EXCEPT ![j] = owner] /\ Go(j, "save")
           /\ UNCHANGED <<op, at, mate, cands>>
  <2>1. /\ Moves(j) /\ pc'[j] = "save" /\ mate'[j] = mate[j]
        /\ at'[j] = at[j] /\ op'[j] = op[j] /\ who'[j] = owner /\ owner \in Wallets
    BY <1>3 DEF IInv, TypeOK, Go, Moves, CallTypes, Pcs
  <2>2. Listed' = Listed /\ held' = held /\ owner \in held
    BY <1>1 DEF IInv, HistOK, Still, Listed
  <2>3. CallOK(op[j], pc[j], at[j], mate[j], who[j], cands[j])'
    BY <1>1, <2>1, <2>2 DEF Seller, CallOK, PlaceOK, KindOK, PairOK, WhoOK, CauseOK, ListPcs,
                      RowPcs, PairPcs
  <2> QED BY <1>1, <2>1, <2>3, QuietOK
<1> QED BY <1>2, <1>3 DEF Seller

LEMMA ReadPairOK ==
  ASSUME IInv, NEW j \in Calls, ReadAsk(j) \/ ReadBid(j)
  PROVE  IInv'
<1>1. Still /\ CallOK(op[j], pc[j], at[j], mate[j], who[j], cands[j])
  BY ReadOnlyStill DEF IInv, CallsOK, ReadAsk, ReadBid
<1>2. CASE Abandon(j)
  BY <1>1, <1>2, QuietAbandonOK
<1>3. CASE pc[j] = "readask" /\ Step(j, "readbid")
  <2>1. CallOK(op[j], "readbid", at[j], mate[j], who[j], cands[j])
    BY <1>1, <1>3 DEF CallOK, PlaceOK, KindOK, PairOK, WhoOK, CauseOK, ListPcs,
                      RowPcs, PairPcs
  <2> QED BY <1>1, <1>3, <2>1, QuietStepOK DEF Pcs, PairPcs
<1>4. CASE pc[j] = "readbid" /\ Step(j, "settle")
  <2>1. CallOK(op[j], "settle", at[j], mate[j], who[j], cands[j])
    BY <1>1, <1>4 DEF CallOK, PlaceOK, KindOK, PairOK, WhoOK, CauseOK, ListPcs,
                      RowPcs, PairPcs
  <2> QED BY <1>1, <1>4, <2>1, QuietStepOK DEF Pcs, PairPcs
<1> QED BY <1>2, <1>3, <1>4 DEF ReadAsk, ReadBid, Check

\* An ask the chain shows as settled, or a bid, is gone and its buyer has held
\* the token.
LEMMA SettledIsGone ==
  ASSUME IInv
  PROVE  /\ \A a \in Asks : \A w : a \in Listed /\ AskSettled(a, w) => Gone(a)
         /\ \A b \in Bids : b \in Listed /\ BidSettled(b) =>
                              Gone(b) /\ Offerer[b] \in held
         /\ \A a \in Asks : a \in Listed /\ AskConsumed(a) => Gone(a)
BY Facts DEF IInv, HistOK, AskSettled, BidSettled, AskConsumed, Gone, Away

LEMMA SettleOK ==
  ASSUME IInv, NEW j \in Calls, Settle(j)
  PROVE  IInv'
<1>1. Still /\ CallOK(op[j], pc[j], at[j], mate[j], who[j], cands[j])
  BY ReadOnlyStill DEF IInv, CallsOK, Settle
<1>2. CASE Abandon(j)
  BY <1>1, <1>2, QuietAbandonOK
<1>3. CASE op[j] = "fulfill" /\ Step(j, "fillsave")
           /\ (IF at[j] \in Asks THEN AskSettled(at[j], who[j])
               ELSE filled[at[j]] /\ ~HoldPolicy)
  <2>1. at[j] \in Listed
    BY <1>1 DEF Settle, CallOK, PlaceOK, RowPcs, PairPcs
  <2>2. Gone(at[j])
    BY <1>3, <2>1, SettledIsGone DEF Gone
  <2>3. CallOK(op[j], "fillsave", at[j], mate[j], who[j], cands[j])
    BY <1>1, <1>3, <2>1, <2>2 DEF Settle, CallOK, PlaceOK, KindOK, PairOK, WhoOK, CauseOK, ListPcs,
                      RowPcs, PairPcs
  <2> QED BY <1>1, <1>3, <2>3, QuietStepOK DEF Pcs
<1>4. CASE op[j] # "fulfill" /\ Step(j, "settlebid") /\ AskSettled(Ask(j), who[j])
  <2>1. /\ op[j] \in {"pair", "reconcile"} /\ at[j] \in Listed /\ mate[j] \in Listed
        /\ Opposite(at[j], mate[j])
    BY <1>1, <1>4 DEF Settle, CallOK, KindOK, PlaceOK, PairOK, RowPcs, PairPcs
  <2>2. Ask(j) = AskOf(at[j], mate[j]) /\ Ask(j) \in Asks /\ Ask(j) \in Listed
    BY <2>1, Facts DEF Ask, AskOf, Opposite
  <2>3. Gone(AskOf(at[j], mate[j]))
    BY <1>4, <2>2, SettledIsGone DEF Gone
  <2>4. CallOK(op[j], "settlebid", at[j], mate[j], who[j], cands[j])
    BY <1>1, <1>4, <2>1, <2>3 DEF Settle, CallOK, PlaceOK, KindOK, PairOK, WhoOK, CauseOK, ListPcs,
                      RowPcs, PairPcs
  <2> QED BY <1>1, <1>4, <2>4, QuietStepOK DEF Pcs, PairPcs
<1> QED BY <1>2, <1>3, <1>4 DEF Settle, Check

LEMMA SettleBidOK ==
  ASSUME IInv, NEW j \in Calls, SettleBid(j)
  PROVE  IInv'
<1>1. Still /\ CallOK(op[j], pc[j], at[j], mate[j], who[j], cands[j])
  BY ReadOnlyStill DEF IInv, CallsOK, SettleBid
<1>2. CASE Abandon(j)
  BY <1>1, <1>2, QuietAbandonOK
<1>3. CASE Step(j, "pairsave") /\ BidSettled(Bid(j))
  <2>1. /\ op[j] \in {"pair", "reconcile"} /\ at[j] \in Listed /\ mate[j] \in Listed
        /\ Opposite(at[j], mate[j]) /\ Gone(AskOf(at[j], mate[j]))
        /\ who[j] = Offerer[BidOf(at[j], mate[j])]
    BY <1>1 DEF SettleBid, CallOK, KindOK, PlaceOK, PairOK, CauseOK, RowPcs, PairPcs
  <2>2. Bid(j) = BidOf(at[j], mate[j]) /\ Bid(j) \in Bids /\ Bid(j) \in Listed
    BY <2>1, Facts DEF Bid, BidOf, Opposite
  <2>3. Gone(BidOf(at[j], mate[j])) /\ who[j] \in held
    BY <1>3, <2>1, <2>2, SettledIsGone DEF Gone
  <2>4. Gone(at[j]) /\ Gone(mate[j])
    BY <2>1, <2>3, Facts DEF Opposite, AskOf, BidOf
  <2>5. CallOK(op[j], "pairsave", at[j], mate[j], who[j], cands[j])
    BY <1>1, <2>1, <2>3, <2>4 DEF SettleBid, CallOK, PlaceOK, KindOK, PairOK, WhoOK, CauseOK, ListPcs,
                      RowPcs, PairPcs
  <2> QED BY <1>1, <1>3, <2>5, QuietStepOK DEF Pcs, PairPcs
<1> QED BY <1>2, <1>3 DEF SettleBid, Check

LEMMA ConsumedOK ==
  ASSUME IInv, NEW j \in Calls, Consumed(j)
  PROVE  IInv'
<1>1. Still /\ CallOK(op[j], pc[j], at[j], mate[j], who[j], cands[j])
  BY ReadOnlyStill DEF IInv, CallsOK, Consumed
<1>2. at[j] \in Listed /\ op[j] \in {"reconcile", "drop"}
  BY <1>1 DEF Consumed, CallOK, PlaceOK, KindOK, RowPcs, PairPcs
<1>3. CASE Abandon(j)
  BY <1>1, <1>3, QuietAbandonOK
<1>4. CASE op[j] = "drop" /\ filled[at[j]] /\ Step(j, "repair")
  <2>1. Gone(at[j])
    BY <1>4 DEF Gone
  <2>2. CallOK(op[j], "repair", at[j], mate[j], who[j], cands[j])
    BY <1>1, <1>2, <1>4, <2>1 DEF Consumed, CallOK, PlaceOK, KindOK, PairOK, WhoOK, CauseOK, ListPcs,
                      RowPcs, PairPcs
  <2> QED BY <1>1, <1>4, <2>2, QuietStepOK DEF Pcs
<1>5. CASE op[j] # "drop" /\ ConsumedOnChain(at[j]) /\ Step(j, "find")
  <2>1. Gone(at[j])
    BY <1>2, <1>5, SettledIsGone, Facts DEF ConsumedOnChain, Gone
  <2>2. CallOK(op[j], "find", at[j], mate[j], who[j], cands[j])
    BY <1>1, <1>2, <1>5, <2>1 DEF Consumed, CallOK, PlaceOK, KindOK, PairOK, WhoOK, CauseOK, ListPcs,
                      RowPcs, PairPcs
  <2> QED BY <1>1, <1>5, <2>2, QuietStepOK DEF Pcs
<1> QED BY <1>3, <1>4, <1>5 DEF Consumed, Check

LEMMA FindPairsOK ==
  ASSUME IInv, NEW j \in Calls, FindPairs(j)
  PROVE  IInv'
<1>1. Still /\ CallOK(op[j], pc[j], at[j], mate[j], who[j], cands[j])
  BY ReadOnlyStill DEF IInv, CallsOK, FindPairs
<1> DEFINE cs == Live(IF at[j] \in Asks THEN Bids ELSE Asks)
<1>2. at[j] \in Orders /\ at[j] \in Listed
  BY <1>1, Facts DEF FindPairs, CallOK, PlaceOK, RowPcs
<1>3. cs \in SUBSET Orders /\ \A c \in cs : c \in Listed /\ Opposite(at[j], c)
  BY <1>2, Facts DEF Live, Listed, Opposite
<1>4. /\ Moves(j) /\ pc'[j] = "candidates" /\ mate'[j] = mate[j]
      /\ at'[j] = at[j] /\ op'[j] = op[j] /\ who'[j] = who[j] /\ cands'[j] = cs
  BY <1>3 DEF IInv, TypeOK, FindPairs, Go, Moves, CallTypes, Pcs
<1>5. /\ Listed' = Listed /\ held' = held
      /\ (Gone(at[j]) => (filled'[at[j]] \/ moved'[at[j]]))
  BY <1>1 DEF Still, Listed, Gone
<1>6. CallOK(op[j], pc[j], at[j], mate[j], who[j], cands[j])'
  BY <1>1, <1>3, <1>4, <1>5 DEF FindPairs, Opposite, Gone, CallOK, PlaceOK, KindOK, PairOK, WhoOK, CauseOK, ListPcs,
                      RowPcs, PairPcs
<1> QED BY <1>1, <1>4, <1>6, QuietOK

LEMMA CandidateOK ==
  ASSUME IInv, NEW j \in Calls, Candidate(j)
  PROVE  IInv'
<1>1. Still /\ CallOK(op[j], pc[j], at[j], mate[j], who[j], cands[j])
  BY ReadOnlyStill DEF IInv, CallsOK, Candidate
<1>2. /\ pc[j] = "candidates" /\ op[j] = "reconcile" /\ at[j] \in Orders
      /\ \A c \in cands[j] : c \in Listed /\ Opposite(at[j], c)
  BY <1>1, Facts DEF Candidate, CallOK, PlaceOK, KindOK, PairOK, RowPcs
<1>3. ASSUME NEW c \in cands[j],
             cands' = [cands EXCEPT ![j] = @ \ {c}],
             mate' = [mate EXCEPT ![j] = c],
             who' = [who EXCEPT ![j] = Offerer[IF c \in Bids THEN c ELSE at[j]]],
             Go(j, IF Fits(at[j], c) THEN "readask" ELSE "candidates"),
             UNCHANGED <<op, at>>
      PROVE  IInv'
  <2> DEFINE w == Offerer[IF c \in Bids THEN c ELSE at[j]]
  <2>1. c \in Orders /\ c \in Listed /\ Opposite(at[j], c)
    BY <1>2, Facts
  <2>2. w \in Wallets /\ w = Offerer[BidOf(at[j], c)]
    BY <1>2, <2>1, Facts DEF Opposite, BidOf
  <2>3. /\ Moves(j) /\ pc'[j] \in {"readask", "candidates"} /\ mate'[j] = c
        /\ at'[j] = at[j] /\ op'[j] = op[j] /\ who'[j] = w
        /\ cands'[j] = cands[j] \ {c}
    BY <1>3, <2>1, <2>2 DEF IInv, TypeOK, Go, Moves, CallTypes, Pcs, PairPcs
  <2>4. /\ Listed' = Listed /\ held' = held
        /\ (Gone(at[j]) => (filled'[at[j]] \/ moved'[at[j]]))
    BY <1>1 DEF Still, Listed, Gone
  <2>5. CallOK(op[j], pc[j], at[j], mate[j], who[j], cands[j])'
    BY <1>1, <1>2, <2>1, <2>2, <2>3, <2>4
       DEF Opposite, BidOf, Gone, CallOK, PlaceOK, KindOK, PairOK, WhoOK, CauseOK, ListPcs,
                      RowPcs, PairPcs
  <2> QED BY <1>1, <2>3, <2>5, QuietOK
<1>4. CASE Step(j, "selffill")
  <2>1. CallOK(op[j], "selffill", at[j], mate[j], who[j], cands[j])
    BY <1>1, <1>2 DEF CallOK, PlaceOK, KindOK, PairOK, WhoOK, CauseOK, ListPcs,
                      RowPcs, PairPcs
  <2> QED BY <1>1, <1>4, <2>1, QuietStepOK DEF Pcs
<1> QED BY <1>3, <1>4 DEF Candidate

LEMMA SelfFillOK ==
  ASSUME IInv, NEW j \in Calls, SelfFill(j)
  PROVE  IInv'
<1>1. PICK read \in BOOLEAN :
        /\ who' = [who EXCEPT ![j] =
             IF at[j] \in Asks /\ filled[at[j]] /\ (read => owner = Offerer[at[j]])
               THEN Offerer[at[j]] ELSE None]
        /\ read \/ faults < MaxFaults
        /\ faults' = faults + (IF read THEN 0 ELSE 1)
  BY DEF SelfFill
<1>2. Still
  BY <1>1, OrdersAssumption DEF IInv, TypeOK, SelfFill, Still, book, chain, hist
<1>3. CallOK(op[j], pc[j], at[j], mate[j], who[j], cands[j])
  BY DEF IInv, CallsOK
<1>4. at[j] \in Listed /\ op[j] = "reconcile" /\ Gone(at[j])
  BY <1>3 DEF SelfFill, CallOK, PlaceOK, KindOK, CauseOK, RowPcs
<1>5. PICK w \in held \cup {None} : who' = [who EXCEPT ![j] = w] /\ w \in Wallets \cup {None}
  BY <1>1, <1>4, Facts DEF IInv, HistOK
<1>6. /\ Moves(j) /\ pc'[j] = "repair" /\ mate'[j] = mate[j]
      /\ at'[j] = at[j] /\ op'[j] = op[j] /\ who'[j] = w
  BY <1>5 DEF IInv, TypeOK, SelfFill, Go, Moves, CallTypes, Pcs
<1>7. /\ Listed' = Listed /\ held' = held
      /\ (Gone(at[j]) => (filled'[at[j]] \/ moved'[at[j]]))
  BY <1>2 DEF Still, Listed, Gone
<1>8. CallOK(op[j], pc[j], at[j], mate[j], who[j], cands[j])'
  BY <1>3, <1>4, <1>5, <1>6, <1>7 DEF Gone, CallOK, PlaceOK, KindOK, PairOK, WhoOK, CauseOK, ListPcs,
                      RowPcs, PairPcs
<1> QED BY <1>2, <1>6, <1>8, QuietOK

LEMMA FailsOK ==
  ASSUME IInv, NEW j \in Calls, Fails(j)
  PROVE  IInv'
<1>1. Still
  BY OrdersAssumption DEF IInv, TypeOK, Fails, Still, book, chain, hist
<1> QED BY <1>1, QuietAbandonOK, QuietFinishOK DEF Fails

-----------------------------------------------------------------------------
(* Steps that write the book.                                               *)

\* The invariant but for the calls.
DataOK == /\ DataTypes /\ ChainTypes /\ HistTypes /\ HistOK
          /\ FulfilledWasConsumed /\ LedgerNamesSales

LEMMA Assemble ==
  /\ IInv => DataOK /\ CallTypes /\ CallsOK
  /\ DataOK' /\ CallTypes' /\ CallsOK' => IInv'
BY TypesSplit DEF IInv, DataOK, TypeOK, DataTypes, ChainTypes, CallTypes, HistTypes

\* Rows leave the book unsold, with no buyer named.
LEMMA EndedOK ==
  ASSUME IInv, NEW S \in SUBSET Listed, NEW to \in {"cancelled", "expired"},
         status' = [o \in Orders |-> IF o \in S THEN to ELSE status[o]],
         buyer' \in [Orders -> Wallets \cup {None}],
         \A o \in Orders : buyer'[o] = None \/ (o \notin S /\ buyer'[o] = buyer[o]),
         UNCHANGED <<ledger, index, chain, budget, hist>>
  PROVE  DataOK' /\ Grows
<1>1. DataTypes /\ ChainTypes /\ HistTypes /\ HistOK
      /\ FulfilledWasConsumed /\ LedgerNamesSales
  BY Assemble DEF DataOK
<1>2. \A o \in Orders : status'[o] = IF o \in S THEN to ELSE status[o]
  OBVIOUS
<1>3. Listed' = Listed
  BY <1>2 DEF Listed
<1>4. DataTypes'
  BY <1>1 DEF DataTypes, Statuses, Terminal
<1>5. ChainTypes' /\ HistTypes'
  BY <1>1 DEF ChainTypes, HistTypes, chain, budget, hist
<1>6. HistOK'
  BY <1>1, <1>3 DEF HistOK, Away, chain, hist
<1>7. FulfilledWasConsumed'
  BY <1>1, <1>2 DEF FulfilledWasConsumed, chain, hist
<1>8. LedgerNamesSales'
  BY <1>1, <1>2, Facts DEF LedgerNamesSales, chain, hist
<1>9. Grows
  BY <1>3 DEF Grows, Gone, chain, hist
<1> QED BY <1>4, <1>5, <1>6, <1>7, <1>8, <1>9 DEF DataOK

\* Rows whose orders are gone become fulfilled.
LEMMA SoldOK ==
  ASSUME IInv, NEW S \in SUBSET Listed, \A o \in S : Gone(o),
         NEW w \in held \cup {None}, SaveFilled(S, w),
         UNCHANGED <<ledger, index, chain, budget, hist>>
  PROVE  DataOK' /\ Grows
<1>1. DataTypes /\ ChainTypes /\ HistTypes /\ HistOK
      /\ FulfilledWasConsumed /\ LedgerNamesSales
  BY Assemble DEF DataOK
<1>2. /\ \A o \in Orders : status'[o] = IF o \in S THEN "fulfilled" ELSE status[o]
      /\ \A o \in Orders : buyer'[o] = IF o \in S \cap Asks THEN w ELSE buyer[o]
  BY DEF SaveFilled
<1>3. Listed' = Listed
  BY <1>2 DEF Listed
<1>4. DataTypes'
  <2>1. w \in Wallets \cup {None}
    BY <1>1 DEF HistTypes
  <2> QED BY <1>1, <2>1 DEF DataTypes, Statuses, Terminal, SaveFilled
<1>5. ChainTypes' /\ HistTypes'
  BY <1>1 DEF ChainTypes, HistTypes, chain, budget, hist
<1>6. HistOK'
  BY <1>1, <1>3 DEF HistOK, Away, chain, hist
<1>7. FulfilledWasConsumed'
  BY <1>1, <1>2 DEF FulfilledWasConsumed, Gone, chain, hist
<1>8. LedgerNamesSales'
  BY <1>1, <1>2, Facts DEF LedgerNamesSales, chain, hist
<1>9. Grows
  BY <1>3 DEF Grows, Gone, chain, hist
<1> QED BY <1>4, <1>5, <1>6, <1>7, <1>8, <1>9 DEF DataOK

LEMMA CancelledOK ==
  ASSUME IInv, NEW o \in Listed, Save(o, "cancelled"),
         UNCHANGED <<ledger, index, chain, budget, hist>>
  PROVE  DataOK' /\ Grows
<1>1. status \in [Orders -> Statuses] /\ buyer \in [Orders -> Wallets \cup {None}]
      /\ o \in Orders
  BY Facts DEF IInv, TypeOK
<1>2. {o} \in SUBSET Listed
  OBVIOUS
<1>3. status' = [x \in Orders |-> IF x \in {o} THEN "cancelled" ELSE status[x]]
  BY <1>1 DEF Save
<1>4. buyer' \in [Orders -> Wallets \cup {None}]
      /\ \A x \in Orders : buyer'[x] = None \/ (x \notin {o} /\ buyer'[x] = buyer[x])
  BY <1>1 DEF Save
<1> QED BY <1>2, <1>3, <1>4, EndedOK

\* A call that goes on or ends while the book grows no smaller.
LEMMA GoesOn ==
  ASSUME IInv, Grows, NEW j \in Calls, NEW p \in Pcs, Step(j, p),
         CallOK(op[j], p, at[j], mate[j], who[j], cands[j])
  PROVE  CallTypes' /\ CallsOK'
<1>1. /\ Moves(j) /\ pc'[j] = p
      /\ op'[j] = op[j] /\ at'[j] = at[j] /\ mate'[j] = mate[j]
      /\ who'[j] = who[j] /\ cands'[j] = cands[j]
  BY StepOK, TypesSplit DEF IInv
<1>2. PICK k, a, m, w, cs :
        k = op[j] /\ a = at[j] /\ m = mate[j] /\ w = who[j] /\ cs = cands[j]
  OBVIOUS
<1>3. CallOK(k, p, a, m, w, cs) /\ KindOK(k, p)
  BY <1>2 DEF CallOK
<1>4. CallOK(k, p, a, m, w, cs)'
  BY <1>3, CallGrows DEF CallOK, KindOK
<1>5. CallOK(op[j], pc[j], at[j], mate[j], who[j], cands[j])'
  BY <1>1, <1>2, <1>4 DEF CallOK, PlaceOK, KindOK, PairOK, WhoOK, CauseOK,
                          AskOf, BidOf, Gone
<1> QED BY <1>1, <1>5, MoveOK DEF IInv, Moves

LEMMA Ends ==
  ASSUME IInv, Grows, NEW j \in Calls, Finish(j)
  PROVE  CallTypes' /\ CallsOK'
<1>1. CallTypes /\ CallsOK
  BY Assemble
<1> QED BY <1>1, FinishOK, MoveOK DEF Moves

LEMMA StaleSaveOK ==
  ASSUME IInv, NEW j \in Calls, StaleSave(j)
  PROVE  IInv'
<1>1. CallOK(op[j], pc[j], at[j], mate[j], who[j], cands[j])
  BY DEF IInv, CallsOK
<1>2. mate[j] \in Listed
  BY <1>1 DEF StaleSave, CallOK, PlaceOK
<1>3. DataOK' /\ Grows
  BY <1>2, CancelledOK DEF StaleSave
<1>4. CallOK(op[j], "stalerecord", at[j], mate[j], who[j], cands[j])
  BY <1>1 DEF StaleSave, CallOK, PlaceOK, KindOK, PairOK, WhoOK, CauseOK, ListPcs,
                      RowPcs, PairPcs
<1>5. CallTypes' /\ CallsOK'
  BY <1>3, <1>4, GoesOn DEF StaleSave, Pcs
<1> QED BY <1>3, <1>5, Assemble

LEMMA SaveCancelledOK ==
  ASSUME IInv, NEW j \in Calls, SaveCancelled(j)
  PROVE  IInv'
<1>1. CallOK(op[j], pc[j], at[j], mate[j], who[j], cands[j])
  BY DEF IInv, CallsOK
<1>2. at[j] \in Listed
  BY <1>1 DEF SaveCancelled, CallOK, PlaceOK, RowPcs
<1>3. DataOK' /\ Grows
  BY <1>2, CancelledOK DEF SaveCancelled
<1>4. CallTypes' /\ CallsOK'
  <2>1. CASE op[j] = "unowned" /\ Step(j, "record")
    <3>1. CallOK(op[j], "record", at[j], mate[j], who[j], cands[j])
      BY <1>1, <2>1 DEF SaveCancelled, CallOK, PlaceOK, KindOK, PairOK, WhoOK, CauseOK, ListPcs,
                      RowPcs, PairPcs
    <3> QED BY <1>3, <2>1, <3>1, GoesOn DEF Pcs
  <2>2. CASE Finish(j)
    BY <1>3, <2>2, Ends
  <2> QED BY <2>1, <2>2 DEF SaveCancelled
<1> QED BY <1>3, <1>4, Assemble

LEMMA RecordsOK ==
  ASSUME IInv, NEW j \in Calls, StaleRecord(j) \/ Record(j)
  PROVE  IInv'
<1>1. CallOK(op[j], pc[j], at[j], mate[j], who[j], cands[j])
  BY DEF IInv, CallsOK
<1>2. /\ who[j] \in Wallets /\ index' = who[j]
      /\ UNCHANGED <<book, ledger, chain, budget, hist>>
  BY <1>1 DEF StaleRecord, Record, CallOK, WhoOK
<1>3. DataOK' /\ Grows
  <2>1. DataOK
    BY Assemble
  <2>2. DataTypes' /\ ChainTypes' /\ HistTypes'
    BY <1>2, <2>1 DEF DataOK, DataTypes, ChainTypes, HistTypes, book, chain, budget, hist
  <2>3. HistOK' /\ FulfilledWasConsumed' /\ LedgerNamesSales' /\ Grows
    BY <1>2, <2>1 DEF DataOK, HistOK, FulfilledWasConsumed, LedgerNamesSales, Grows,
                      Listed, Away, Gone, book, chain, hist
  <2> QED BY <2>2, <2>3 DEF DataOK
<1>4. CallTypes' /\ CallsOK'
  <2>1. CASE pc[j] = "stalerecord" /\ Step(j, "exists")
    <3>1. CallOK(op[j], "exists", at[j], mate[j], who[j], cands[j])
      BY <1>1, <2>1 DEF CallOK, PlaceOK, KindOK, PairOK, WhoOK, CauseOK, ListPcs,
                      RowPcs, PairPcs
    <3> QED BY <1>3, <2>1, <3>1, GoesOn DEF Pcs
  <2>2. CASE Finish(j)
    BY <1>3, <2>2, Ends
  <2> QED BY <2>1, <2>2 DEF StaleRecord, Record
<1> QED BY <1>3, <1>4, Assemble

LEMMA FillSaveOK ==
  ASSUME IInv, NEW j \in Calls, FillSave(j)
  PROVE  IInv'
<1>1. CallOK(op[j], pc[j], at[j], mate[j], who[j], cands[j])
  BY DEF IInv, CallsOK
<1>2. CASE pc[j] = "fillsave" /\ SaveFilled({at[j]}, who[j])
  <2>1. /\ {at[j]} \in SUBSET Listed /\ Gone(at[j]) /\ who[j] \in held \cup {None}
    BY <1>1, <1>2 DEF CallOK, PlaceOK, KindOK, WhoOK, CauseOK, RowPcs
  <2>2. DataOK' /\ Grows
    BY <1>2, <2>1, SoldOK DEF FillSave
  <2>3. CallOK(op[j], "clear", at[j], mate[j], who[j], cands[j])
    BY <1>1, <1>2 DEF AskOf, CallOK, PlaceOK, KindOK, PairOK, WhoOK, CauseOK, ListPcs,
                      RowPcs, PairPcs
  <2>4. CallTypes' /\ CallsOK'
    BY <2>2, <2>3, GoesOn DEF FillSave, Pcs, PairPcs
  <2> QED BY <2>2, <2>4, Assemble
<1>3. CASE pc[j] = "pairsave" /\ SaveFilled({Ask(j), Bid(j)}, who[j])
  <2>1. /\ op[j] \in {"pair", "reconcile"} /\ at[j] \in Listed /\ mate[j] \in Listed
        /\ Opposite(at[j], mate[j]) /\ Gone(at[j]) /\ Gone(mate[j]) /\ who[j] \in held
    BY <1>1, <1>3 DEF CallOK, PlaceOK, KindOK, PairOK, WhoOK, CauseOK, RowPcs, PairPcs
  <2>2. {Ask(j), Bid(j)} = {at[j], mate[j]} /\ AskOf(at[j], mate[j]) \in Asks
        /\ Gone(AskOf(at[j], mate[j]))
    BY <2>1, Facts DEF Opposite, Ask, Bid, AskOf
  <2>3. DataOK' /\ Grows
    <3>1. {Ask(j), Bid(j)} \in SUBSET Listed /\ \A o \in {Ask(j), Bid(j)} : Gone(o)
      BY <2>1, <2>2
    <3>2. who[j] \in held \cup {None}
      BY <2>1
    <3> QED BY <1>3, <3>1, <3>2, SoldOK DEF FillSave
  <2>4. CallOK(op[j], "clear", at[j], mate[j], who[j], cands[j])
    BY <1>1, <1>3, <2>1, <2>2 DEF CallOK, PlaceOK, KindOK, PairOK, WhoOK, CauseOK, ListPcs,
                      RowPcs, PairPcs
  <2>5. CallTypes' /\ CallsOK'
    BY <2>3, <2>4, GoesOn DEF FillSave, Pcs, PairPcs
  <2> QED BY <2>3, <2>5, Assemble
<1> QED BY <1>2, <1>3 DEF FillSave

LEMMA ClearOK ==
  ASSUME IInv, NEW j \in Calls, Clear(j)
  PROVE  IInv'
<1>1. CallOK(op[j], pc[j], at[j], mate[j], who[j], cands[j])
  BY DEF IInv, CallsOK
<1> DEFINE S == Live(Asks) \ {Ask(j)}
<1>2. S \in SUBSET Listed
  BY Facts DEF Live, Listed
<1>3. /\ buyer' \in [Orders -> Wallets \cup {None}]
      /\ \A o \in Orders : buyer'[o] = None \/ (o \notin S /\ buyer'[o] = buyer[o])
  BY Facts DEF Clear, IInv, TypeOK, LedgerNamesSales, Live
<1>4. DataOK' /\ Grows
  BY <1>2, <1>3, EndedOK DEF Clear
<1>5. CallTypes' /\ CallsOK'
  <2>1. CASE op[j] = "fulfill" /\ at[j] \in Bids /\ Step(j, "record")
    <3>1. held \subseteq Wallets
      BY DEF IInv, TypeOK
    <3>2. CallOK(op[j], "record", at[j], mate[j], who[j], cands[j])
      BY <1>1, <2>1, <3>1 DEF Clear, CallOK, PlaceOK, KindOK, PairOK, WhoOK, CauseOK, ListPcs,
                      RowPcs, PairPcs
    <3> QED BY <1>4, <2>1, <3>2, GoesOn DEF Pcs
  <2>2. CASE ~(op[j] = "fulfill" /\ at[j] \in Bids) /\ Step(j, "ledger")
    <3>1. op[j] = "fulfill" => at[j] \in Asks
      BY <1>1, <2>2 DEF Clear, CallOK, PlaceOK, RowPcs, PairPcs, Listed, Orders
    <3>2. CallOK(op[j], "ledger", at[j], mate[j], who[j], cands[j])
      BY <1>1, <2>2, <3>1 DEF Clear, CallOK, PlaceOK, KindOK, PairOK, WhoOK, CauseOK, ListPcs,
                      RowPcs, PairPcs
    <3> QED BY <1>4, <2>2, <3>2, GoesOn DEF Pcs
  <2> QED BY <2>1, <2>2 DEF Clear
<1> QED BY <1>4, <1>5, Assemble

LEMMA LedgerRowOK ==
  ASSUME IInv, NEW j \in Calls, LedgerRow(j)
  PROVE  IInv'
<1>1. CallOK(op[j], pc[j], at[j], mate[j], who[j], cands[j])
  BY DEF IInv, CallsOK
<1>2. /\ Ask(j) = AskOf(at[j], mate[j]) /\ Ask(j) \in Asks /\ Gone(Ask(j))
      /\ who[j] \in held /\ who[j] \in Wallets
  BY <1>1 DEF LedgerRow, CallOK, WhoOK, CauseOK, Ask, AskOf, IInv, TypeOK
<1>3. CallOK(op[j], "record", at[j], mate[j], who[j], cands[j])
  BY <1>1, <1>2 DEF LedgerRow, CallOK, PlaceOK, KindOK, PairOK, WhoOK, CauseOK, ListPcs,
                      RowPcs, PairPcs
<1>4. /\ \/ ledger' = [ledger EXCEPT ![Ask(j)] =
                         IF Owed(Ask(j)) /\ @ = None THEN who[j] ELSE @]
         \/ ledger' = ledger
      /\ faults' \in 0..MaxFaults
      /\ UNCHANGED <<book, index, chain, started, hist>>
  BY OrdersAssumption DEF LedgerRow, IInv, TypeOK
<1>5. DataOK' /\ Grows
  <2>1. DataOK
    BY Assemble
  <2>2. DataTypes'
    <3>1. CASE ledger' = ledger
      BY <1>4, <2>1, <3>1 DEF DataOK, DataTypes, book
    <3>2. CASE ledger' # ledger
      BY <1>2, <1>4, <2>1, <3>2 DEF DataOK, DataTypes, book
    <3> QED BY <3>1, <3>2
  <2>3. ChainTypes' /\ HistTypes'
    BY <1>4, <2>1 DEF DataOK, ChainTypes, HistTypes, chain, hist
  <2>4. HistOK' /\ FulfilledWasConsumed' /\ Grows
    BY <1>4, <2>1 DEF DataOK, HistOK, FulfilledWasConsumed, Grows,
                      Listed, Away, Gone, book, chain, hist
  <2>5. \A a \in Asks : \/ ledger'[a] = ledger[a]
                        \/ a = Ask(j) /\ Owed(a) /\ ledger'[a] = who[j]
    BY <1>2, <1>4, <2>1 DEF DataOK, DataTypes
  <2>6. LedgerNamesSales'
    BY <1>2, <1>4, <2>1, <2>5 DEF DataOK, LedgerNamesSales, Owed, Gone, book, chain, hist
  <2> QED BY <2>2, <2>3, <2>4, <2>6 DEF DataOK
<1>6. CallTypes' /\ CallsOK'
  BY <1>3, <1>5, GoesOn DEF LedgerRow, Pcs
<1> QED BY <1>5, <1>6, Assemble

LEMMA RepairOK ==
  ASSUME IInv, NEW j \in Calls, Repair(j)
  PROVE  IInv'
<1>1. CallOK(op[j], pc[j], at[j], mate[j], who[j], cands[j])
  BY DEF IInv, CallsOK
<1>2. /\ {at[j]} \in SUBSET Listed /\ Gone(at[j]) /\ who[j] \in held \cup {None}
  BY <1>1 DEF Repair, CallOK, PlaceOK, WhoOK, CauseOK, RowPcs
<1>3. DataOK' /\ Grows
  BY <1>2, SoldOK DEF Repair
<1>4. CallTypes' /\ CallsOK'
  BY <1>3, Ends DEF Repair
<1> QED BY <1>3, <1>4, Assemble

LEMMA SweepSaveOK ==
  ASSUME IInv, NEW j \in Calls, SweepSave(j)
  PROVE  IInv'
<1>1. CallOK(op[j], pc[j], at[j], mate[j], who[j], cands[j])
  BY DEF IInv, CallsOK
<1>2. PICK o \in cands[j] :
        /\ Save(o, "cancelled")
        /\ IF cands[j] = {o}
             THEN Finish(j)
             ELSE /\ cands' = [cands EXCEPT ![j] = @ \ {o}]
                  /\ UNCHANGED <<pc, op, at, mate, who>>
  BY DEF SweepSave
<1>3. o \in Listed
  BY <1>1 DEF SweepSave, CallOK, PlaceOK
<1>4. DataOK' /\ Grows
  BY <1>2, <1>3, CancelledOK DEF SweepSave
<1>5. CASE Finish(j)
  BY <1>4, <1>5, Ends, Assemble
<1>6. CASE cands' = [cands EXCEPT ![j] = @ \ {o}] /\ UNCHANGED <<pc, op, at, mate, who>>
  <2>1. CallTypes /\ CallsOK
    BY Assemble
  <2>2. Moves(j) /\ pc'[j] = "sweep" /\ op'[j] = op[j] /\ who'[j] = who[j]
        /\ cands'[j] \subseteq cands[j]
    BY <1>6, <2>1 DEF SweepSave, CallTypes, Moves
  <2>3. CallOK(op[j], pc[j], at[j], mate[j], who[j], cands[j])'
    BY <1>1, <1>4, <2>2 DEF Grows, SweepSave, CallOK, PlaceOK, KindOK, PairOK, WhoOK, CauseOK, ListPcs,
                      RowPcs, PairPcs
  <2> QED BY <1>4, <2>1, <2>2, <2>3, MoveOK, Assemble DEF Moves
<1> QED BY <1>2, <1>5, <1>6

LEMMA OverlapsOK ==
  ASSUME NEW j \in Calls
  PROVE  Cardinality(AboutToList(j)) \in Nat
<1>1. AboutToList(j) \subseteq Calls
  BY DEF AboutToList
<1> QED BY <1>1, OrdersAssumption, FS_Subset, FS_CardinalityType

\* A new row n enters the book, and an old row m may leave it.
LEMMA ListedOK ==
  ASSUME IInv, NEW j \in Calls, NEW n \in Orders \ Listed, NEW m \in Listed \cup {None},
         n = at[j],
         status' \in [Orders -> Statuses],
         \A o \in Orders : status'[o] = IF o = n THEN "active"
                                        ELSE IF o = m THEN "cancelled" ELSE status[o],
         buyer' \in [Orders -> Wallets \cup {None}],
         \A o \in Orders : buyer'[o] = None \/ (o # m /\ buyer'[o] = buyer[o]),
         buyer'[n] = None,
         NewRow(j), UNCHANGED <<ledger, index, chain, budget>>
  PROVE  DataOK' /\ Grows
<1>1. DataTypes /\ ChainTypes /\ HistTypes /\ HistOK
      /\ FulfilledWasConsumed /\ LedgerNamesSales
  BY Assemble DEF DataOK
<1>2. /\ moved' \in [Orders -> BOOLEAN] /\ overlaps' \in Nat
      /\ moved'[n] = Away(n, owner)
      /\ \A o \in Orders : o # n => moved'[o] = moved[o]
      /\ held' = held
  <2>1. Away(n, owner) \in BOOLEAN
    BY DEF Away
  <2>2. Cardinality(AboutToList(j)) \in Nat
    BY OverlapsOK
  <2> QED BY <1>1, <2>1, <2>2 DEF NewRow, HistTypes
<1>3. Listed' = Listed \cup {n}
  BY Facts DEF Listed
<1>4. ~filled[n] /\ ~moved[n]
  BY <1>1 DEF HistOK
<1>5. DataTypes' /\ ChainTypes' /\ HistTypes'
  BY <1>1, <1>2 DEF DataTypes, ChainTypes, HistTypes, chain, budget
<1>6. HistOK'
  BY <1>1, <1>2, <1>3, Facts DEF HistOK, Away, chain
<1>7. FulfilledWasConsumed'
  BY <1>1, <1>2 DEF FulfilledWasConsumed, chain
<1>8. Grows
  BY <1>2, <1>3, <1>4 DEF Grows, Gone, chain
<1>9. LedgerNamesSales'
  <2>1. \A a \in Asks : Gone(a) => filled'[a] \/ moved'[a]
    BY <1>8, Facts DEF Grows, Gone
  <2>2. ledger' = ledger /\ held' = held
    BY <1>2
  <2>3. \A o \in Orders : buyer'[o] # None =>
          o # n /\ o # m /\ buyer'[o] = buyer[o] /\ status'[o] = status[o]
    BY Facts
  <2> QED BY <1>1, <2>1, <2>2, <2>3 DEF LedgerNamesSales, Gone
<1> QED BY <1>5, <1>6, <1>7, <1>8, <1>9 DEF DataOK

LEMMA InsertOK ==
  ASSUME IInv, NEW j \in Calls, Insert(j)
  PROVE  IInv'
<1>1. CallOK(op[j], pc[j], at[j], mate[j], who[j], cands[j])
  BY DEF IInv, CallsOK
<1>2. at[j] \in Orders
  BY <1>1 DEF Insert, CallOK, PlaceOK, ListPcs
<1>3. CASE ~HashFree(at[j]) /\ UNCHANGED <<book, hist>>
  <2>1. Still
    BY <1>3 DEF Insert, IInv, TypeOK, Still, book, chain, budget, hist
  <2> QED BY <2>1, QuietFinishOK DEF Insert
<1>4. CASE HashFree(at[j]) /\ Save(at[j], "active") /\ NewRow(j)
  <2>1. at[j] \in Orders \ Listed
    BY <1>2, <1>4 DEF HashFree, Listed
  <2>2. status \in [Orders -> Statuses] /\ buyer \in [Orders -> Wallets \cup {None}]
    BY DEF IInv, TypeOK
  <2>3. /\ status' \in [Orders -> Statuses]
        /\ \A o \in Orders : status'[o] = IF o = at[j] THEN "active" ELSE status[o]
        /\ buyer' \in [Orders -> Wallets \cup {None}] /\ buyer'[at[j]] = None
        /\ \A o \in Orders : buyer'[o] = None \/ buyer'[o] = buyer[o]
    BY <1>2, <1>4, <2>2 DEF Save, Statuses
  <2>4. \A o \in Orders : /\ status'[o] = IF o = at[j] THEN "active"
                                          ELSE IF o = None THEN "cancelled" ELSE status[o]
                          /\ buyer'[o] = None \/ (o # None /\ buyer'[o] = buyer[o])
    BY <2>3, Facts
  <2>5. DataOK' /\ Grows
    BY <1>4, <2>1, <2>3, <2>4, ListedOK DEF Insert
  <2> QED BY <2>5, Ends, Assemble DEF Insert
<1> QED BY <1>3, <1>4 DEF Insert

LEMMA CommitOK ==
  ASSUME IInv, NEW j \in Calls, Commit(j)
  PROVE  IInv'
<1>1. CallOK(op[j], pc[j], at[j], mate[j], who[j], cands[j])
  BY DEF IInv, CallsOK
<1>2. at[j] \in Orders /\ mate[j] \in Listed
  BY <1>1 DEF Commit, CallOK, PlaceOK, ListPcs
<1>3. CASE ~HashFree(at[j]) /\ UNCHANGED <<book, hist>>
  <2>1. Still
    BY <1>3 DEF Commit, IInv, TypeOK, Still, book, chain, budget, hist
  <2> QED BY <2>1, QuietFinishOK DEF Commit
<1>4. CASE /\ HashFree(at[j])
           /\ status' = [status EXCEPT ![mate[j]] = "cancelled", ![at[j]] = "active"]
           /\ NewRow(j)
           /\ buyer' = [buyer EXCEPT ![mate[j]] = None]
  <2>1. at[j] \in Orders \ Listed /\ mate[j] \in Orders
    BY <1>2, <1>4, Facts DEF HashFree, Listed
  <2>2. /\ status \in [Orders -> Statuses] /\ buyer \in [Orders -> Wallets \cup {None}]
        /\ buyer[at[j]] = None
    BY <1>2, <1>4 DEF IInv, TypeOK, LedgerNamesSales, HashFree
  <2>3. /\ status' \in [Orders -> Statuses]
        /\ \A o \in Orders : status'[o] = IF o = at[j] THEN "active"
                                          ELSE IF o = mate[j] THEN "cancelled" ELSE status[o]
    BY <1>4, <2>1, <2>2 DEF Statuses, Terminal
  <2>4. /\ buyer' \in [Orders -> Wallets \cup {None}] /\ buyer'[at[j]] = None
        /\ \A o \in Orders : buyer'[o] = None \/ (o # mate[j] /\ buyer'[o] = buyer[o])
    BY <1>4, <2>1, <2>2
  <2>5. DataOK' /\ Grows
    BY <1>2, <1>4, <2>1, <2>3, <2>4, ListedOK DEF Commit
  <2> QED BY <2>5, Ends, Assemble DEF Commit
<1> QED BY <1>3, <1>4 DEF Commit

LEMMA ExpireOK ==
  ASSUME IInv, Expire
  PROVE  IInv'
<1>1. Due \in SUBSET Listed
  BY Facts DEF Due, Live, Listed
<1>2. /\ buyer' \in [Orders -> Wallets \cup {None}]
      /\ \A o \in Orders : buyer'[o] = None \/ (o \notin Due /\ buyer'[o] = buyer[o])
  BY Facts DEF Expire, IInv, TypeOK, LedgerNamesSales, Due, Live
<1>3. DataOK' /\ Grows
  BY <1>1, <1>2, EndedOK DEF Expire
<1>4. UNCHANGED <<op, pc, at, mate, who, cands>>
  BY DEF Expire, locals
<1>5. CallTypes' /\ CallsOK'
  BY <1>3, <1>4, StayOK, Assemble DEF CallTypes
<1> QED BY <1>3, <1>5, Assemble

-----------------------------------------------------------------------------
(* The chain, the initial states and the theorems.                          *)

LEMMA MoveToOK ==
  ASSUME IInv, NEW w \in Wallets, MoveTo(w), NEW S \in SUBSET Listed,
         filled' = [o \in Orders |-> filled[o] \/ o \in S],
         \A o \in S : Offerer[o] \in held \cup {w},
         UNCHANGED <<book, ledger, index, elapsed, pc, locals, budget, overlaps>>
  PROVE  IInv'
<1>1. DataTypes /\ ChainTypes /\ HistTypes /\ HistOK /\ CallTypes /\ CallsOK
      /\ FulfilledWasConsumed /\ LedgerNamesSales
  BY Assemble DEF DataOK
<1>2. /\ owner' = w /\ held' = held \cup {w} /\ Listed' = Listed
      /\ \A o \in Orders : filled'[o] = (filled[o] \/ o \in S)
      /\ \A o \in Orders : moved'[o] = (moved[o] \/ (o \in Listed /\ Away(o, w)))
  BY DEF MoveTo, book, Listed
<1>3. DataTypes' /\ ChainTypes' /\ CallTypes'
  BY <1>1 DEF MoveTo, DataTypes, ChainTypes, CallTypes, book, locals
<1>4. HistTypes'
  <2>1. moved' \in [Orders -> BOOLEAN]
    BY <1>1 DEF MoveTo, HistTypes
  <2> QED BY <1>1, <1>2, <2>1 DEF HistTypes, budget
<1>5. HistOK'
  BY <1>1, <1>2, Facts DEF HistOK, Away
<1>6. FulfilledWasConsumed' /\ LedgerNamesSales'
  BY <1>1, <1>2, Facts DEF FulfilledWasConsumed, LedgerNamesSales, book
<1>7. Grows
  BY <1>2 DEF Grows, Gone
<1>8. CallsOK'
  BY <1>1, <1>7, StayOK DEF locals
<1> QED BY <1>3, <1>4, <1>5, <1>6, <1>8, Assemble DEF DataOK

LEMMA FillOK ==
  ASSUME IInv, NEW S \in SUBSET Orders, NEW w \in Wallets, Fill(S, w),
         \A o \in S : Offerer[o] \in held \cup {w}
  PROVE  IInv'
<1>1. S \in SUBSET Listed
  BY DEF Fill, Fillable
<1> QED BY <1>1, MoveToOK DEF Fill

LEMMA OnChainOK ==
  ASSUME IInv, OnChain
  PROVE  IInv'
<1> USE Facts
<1>1. HistOK /\ filled \in [Orders -> BOOLEAN]
  BY DEF IInv, TypeOK
<1>2. CASE Transfer
  <2>1. PICK w \in Wallets \ {owner} :
          /\ MoveTo(w)
          /\ UNCHANGED <<book, ledger, index, filled, elapsed, pc, locals, budget, overlaps>>
    BY <1>2 DEF Transfer
  <2> DEFINE S == {}
  <2>2. filled' = [o \in Orders |-> filled[o] \/ o \in S]
    BY <1>1, <2>1
  <2>3. S \in SUBSET Listed
    OBVIOUS
  <2>4. w \in Wallets /\ \A o \in S : Offerer[o] \in held \cup {w}
    OBVIOUS
  <2>5. UNCHANGED <<book, ledger, index, elapsed, pc, locals, budget, overlaps>>
    BY <2>1
  <2> HIDE DEF S
  <2> QED BY <2>1, <2>2, <2>3, <2>4, <2>5, MoveToOK
<1>3. ASSUME NEW a \in Asks, FillAsk(a)
      PROVE  IInv'
  <2>1. Offerer[a] \in held /\ {a} \in SUBSET Orders
    BY <1>1, <1>3 DEF FillAsk, HistOK
  <2> QED BY <1>3, <2>1, FillOK DEF FillAsk
<1>4. ASSUME NEW b \in Bids, FillBid(b)
      PROVE  IInv'
  <2>1. {b} \in SUBSET Orders /\ Offerer[b] \in Wallets
    OBVIOUS
  <2> QED BY <1>4, <2>1, FillOK DEF FillBid
<1>5. ASSUME NEW a \in Asks, NEW b \in Bids, Match(a, b)
      PROVE  IInv'
  <2>1. Offerer[a] \in held /\ {a, b} \in SUBSET Orders /\ Offerer[b] \in Wallets
    BY <1>1, <1>5 DEF Match, HistOK
  <2> QED BY <1>5, <2>1, FillOK DEF Match
<1>6. CASE Elapse
  <2>1. UNCHANGED <<status, buyer, ledger, index, owner, filled, op, pc, at, mate, who,
                    cands, started, faults, held, moved, overlaps>> /\ elapsed' = TRUE
    BY <1>6 DEF Elapse, book, locals, budget, hist
  <2>2. DataOK /\ CallTypes /\ CallsOK
    BY Assemble
  <2>3. DataOK' /\ Grows /\ CallTypes'
    BY <2>1, <2>2 DEF DataOK, DataTypes, ChainTypes, HistTypes, HistOK, CallTypes, Listed,
                      Away, Gone, Grows, FulfilledWasConsumed, LedgerNamesSales
  <2> QED BY <2>1, <2>2, <2>3, StayOK, Assemble
<1> QED BY <1>2, <1>3, <1>4, <1>5, <1>6 DEF OnChain

LEMMA ContinueOK ==
  ASSUME IInv, NEW j \in Calls, Continue(j)
  PROVE  IInv'
BY ListReadsOK, FindStaleOK, StaleOwnerOK, StaleSaveOK, RecordsOK, InsertOK, CommitOK,
   ReadOK, FundOK, SellerOK, SaveCancelledOK, ReadPairOK, SettleOK, SettleBidOK,
   FillSaveOK, ClearOK, LedgerRowOK, ConsumedOK, FindPairsOK, CandidateOK, SelfFillOK,
   RepairOK, SweepSaveOK DEF Continue

LEMMA StutterOK ==
  ASSUME IInv, UNCHANGED vars
  PROVE  IInv'
<1>1. UNCHANGED <<op, pc, at, mate, who, cands>> /\ Still
  BY DEF IInv, TypeOK, vars, book, chain, hist, locals, budget, Still
<1>2. DataOK /\ CallTypes /\ CallsOK
  BY Assemble
<1>3. DataOK' /\ Grows /\ CallTypes'
  BY <1>1, <1>2 DEF Still, DataOK, DataTypes, ChainTypes, HistTypes, HistOK, CallTypes,
                    Listed, Away, Gone, Grows, FulfilledWasConsumed, LedgerNamesSales
<1> QED BY <1>1, <1>2, <1>3, StayOK, Assemble

LEMMA InitOK == Init => IInv
<1> SUFFICES ASSUME Init PROVE IInv
  OBVIOUS
<1>1. owner \in Wallets /\ held = {owner}
  BY Facts DEF Init
<1>2. Listed = Resting
  BY OrdersAssumption DEF Init, Listed
<1>3. DataTypes /\ ChainTypes
  BY <1>1 DEF Init, DataTypes, ChainTypes, Statuses, Terminal
<1>4. HistTypes
  <2>1. moved \in [Orders -> BOOLEAN]
    BY DEF Init, Away
  <2> QED BY <1>1, <2>1, OrdersAssumption DEF Init, HistTypes
<1>5. CallTypes
  BY DEF Init, CallTypes, Ops, Pcs
<1>6. HistOK
  BY <1>1, <1>2, OrdersAssumption DEF Init, HistOK
<1>7. CallsOK
  BY DEF Init, CallsOK, CallOK, PlaceOK, KindOK, PairOK, WhoOK, CauseOK, ListPcs,
         RowPcs, PairPcs
<1>8. FulfilledWasConsumed /\ LedgerNamesSales
  BY DEF Init, FulfilledWasConsumed, LedgerNamesSales
<1> QED BY <1>3, <1>4, <1>5, <1>6, <1>7, <1>8, TypesSplit DEF IInv

LEMMA NextOK == IInv /\ [Next]_vars => IInv'
<1> SUFFICES ASSUME IInv, [Next]_vars PROVE IInv'
  OBVIOUS
<1>1. ASSUME NEW j \in Calls, Start(j) \/ Continue(j) \/ Fails(j) PROVE IInv'
  BY <1>1, StartOK, ContinueOK, FailsOK
<1>2. CASE OnChain \/ Expire
  BY <1>2, OnChainOK, ExpireOK
<1>3. CASE UNCHANGED vars
  BY <1>3, StutterOK
<1> QED BY <1>1, <1>2, <1>3 DEF Next

LEMMA Invariance == Spec => []IInv
BY InitOK, NextOK, PTL DEF Spec

\* Type correctness of the order book and of every call on it.
THEOREM TypeCorrect == Spec => []TypeOK
<1>1. IInv => TypeOK
  BY DEF IInv
<1> QED BY <1>1, Invariance, PTL

\* fulfillOrder, fulfillMatchedPair and the readers that repair the book only
\* call an order fulfilled that the chain shows as sold, however old the row
\* and the owner they read: sold once is sold for good.
THEOREM FulfilledHasCause == Spec => []FulfilledWasConsumed
<1>1. IInv => FulfilledWasConsumed
  BY DEF IInv
<1> QED BY <1>1, Invariance, PTL

\* maybeCreateSelfVaultSettlement writes no row for a sale that was none, and
\* names a buyer who has held the token.
THEOREM LedgerIsTruthful == Spec => []LedgerNamesSales
<1>1. IInv => LedgerNamesSales
  BY DEF IInv
<1> QED BY <1>1, Invariance, PTL

-----------------------------------------------------------------------------
(* Rows that end, and asks listed twice.                                    *)

\* A step that leaves the rows alone.
LEMMA QuietRows ==
  ASSUME NEW j \in Calls,
         \/ Start(j) \/ Fails(j)
         \/ OwnsToken(j) \/ CrossCheck(j) \/ FindStale(j) \/ StaleOwner(j)
         \/ StaleRecord(j) \/ ExistsCheck(j) \/ OldRead(j) \/ Read(j) \/ Fund(j)
         \/ Seller(j) \/ Record(j) \/ ReadAsk(j) \/ ReadBid(j) \/ Settle(j)
         \/ SettleBid(j) \/ LedgerRow(j) \/ Consumed(j) \/ FindPairs(j)
         \/ Candidate(j) \/ SelfFill(j)
  PROVE  status' = status /\ overlaps' = overlaps
<1>1. CASE Start(j)
  BY <1>1 DEF Start, Post, Replace, Cancel, Dead, Unowned, Reconcile, Drop, Fulfill,
              Call, Pair, Sweep, Begin, book, hist
<1>2. CASE Fails(j) \/ StaleRecord(j) \/ Record(j) \/ LedgerRow(j) \/ SelfFill(j)
  BY <1>2 DEF Fails, StaleRecord, Record, LedgerRow, SelfFill, book, hist
<1>3. CASE ReadOnly
  BY <1>3 DEF ReadOnly, book, hist
<1> QED
  BY <1>1, <1>2, <1>3 DEF OwnsToken, CrossCheck, FindStale, StaleOwner, ExistsCheck,
     OldRead, Read, Fund, Seller, ReadAsk, ReadBid, Settle, SettleBid, Consumed,
     FindPairs, Candidate

-----------------------------------------------------------------------------
(* Rows that ended.                                                         *)

Kept(o) ==
  status[o] \in Terminal /\ status'[o] # status[o] =>
    /\ status'[o] \in {"fulfilled", "cancelled"}
    /\ \E j \in Calls : /\ Writes(j, o)
                        /\ pc'[j] # pc[j] \/ cands'[j] # cands[j]

\* A save of one call: where the call is, and what it writes.
LEMMA SaveKept ==
  ASSUME IInv, NEW j \in Calls, NEW o \in Orders,
         \/ StaleSave(j) \/ Commit(j) \/ SaveCancelled(j) \/ FillSave(j) \/ Repair(j)
         \/ SweepSave(j) \/ Insert(j) \/ Clear(j)
  PROVE  Kept(o)
<1>1. /\ status \in [Orders -> Statuses] /\ pc \in [Calls -> Pcs]
      /\ cands \in [Calls -> SUBSET Orders]
  BY DEF IInv, TypeOK
<1>2. CASE StaleSave(j)
  <2>1. /\ pc[j] = "stalesave" /\ pc'[j] = "stalerecord"
        /\ o # mate[j] => status'[o] = status[o]
        /\ status'[o] \in {status[o], "cancelled"}
    BY <1>1, <1>2 DEF StaleSave, Save, Step, Go
  <2> QED BY <2>1 DEF Kept, Writes
<1>3. CASE Commit(j)
  <2>1. /\ pc[j] = "commit" /\ pc'[j] = "idle"
        /\ o # mate[j] => status'[o] = status[o] \/ status[o] = "none"
        /\ status'[o] \in {status[o], "cancelled"} \/ status[o] = "none"
    BY <1>1, <1>3 DEF Commit, HashFree, Finish, Go, book
  <2> QED BY <2>1 DEF Kept, Writes, Terminal
<1>4. CASE SaveCancelled(j)
  <2>1. /\ pc[j] = "save" /\ pc'[j] \in {"record", "idle"}
        /\ o # at[j] => status'[o] = status[o]
        /\ status'[o] \in {status[o], "cancelled"}
    BY <1>1, <1>4 DEF SaveCancelled, Save, Step, Finish, Go
  <2> QED BY <2>1 DEF Kept, Writes
<1>5. CASE FillSave(j)
  <2>1. /\ pc[j] = "fillsave" \/ pc[j] = "pairsave"
        /\ pc'[j] = "clear"
        /\ status'[o] \in {status[o], "fulfilled"}
        /\ status'[o] # status[o] => o = at[j] \/ (pc[j] = "pairsave" /\ o = mate[j])
    BY <1>1, <1>5 DEF FillSave, SaveFilled, Step, Go, Ask, Bid
  <2> QED BY <2>1 DEF Kept, Writes
<1>6. CASE Repair(j)
  <2>1. /\ pc[j] = "repair" /\ pc'[j] = "idle"
        /\ o # at[j] => status'[o] = status[o]
        /\ status'[o] \in {status[o], "fulfilled"}
    BY <1>1, <1>6 DEF Repair, SaveFilled, Finish, Go
  <2> QED BY <2>1 DEF Kept, Writes
<1>7. CASE SweepSave(j)
  <2>1. PICK x \in cands[j] :
          /\ Save(x, "cancelled")
          /\ pc'[j] = "idle" \/ cands'[j] = cands[j] \ {x}
    BY <1>1, <1>7 DEF SweepSave, Finish, Go
  <2>2. /\ pc[j] = "sweep" /\ (o # x => status'[o] = status[o])
        /\ status'[o] \in {status[o], "cancelled"}
        /\ pc'[j] # pc[j] \/ cands'[j] # cands[j]
    BY <1>1, <1>7, <2>1 DEF SweepSave, Save
  <2> QED BY <2>1, <2>2 DEF Kept, Writes
<1>8. CASE Insert(j)
  <2>1. status'[o] = status[o] \/ status[o] = "none"
    BY <1>1, <1>8 DEF Insert, HashFree, Save, book
  <2> QED BY <2>1 DEF Kept, Terminal
<1>9. CASE Clear(j)
  <2>1. status'[o] = status[o] \/ status[o] = "active"
    BY <1>1, <1>9 DEF Clear, Live
  <2> QED BY <2>1 DEF Kept, Terminal
<1> QED BY <1>2, <1>3, <1>4, <1>5, <1>6, <1>7, <1>8, <1>9

LEMMA StepKept == IInv /\ [Next]_vars => \A o \in Orders : Kept(o)
<1> SUFFICES ASSUME IInv, [Next]_vars, NEW o \in Orders PROVE Kept(o)
  OBVIOUS
<1>1. CASE status' = status
  BY <1>1 DEF Kept
<1>2. ASSUME NEW j \in Calls, Start(j) \/ Continue(j) \/ Fails(j) PROVE Kept(o)
  BY <1>1, <1>2, QuietRows, SaveKept DEF Continue
<1>3. CASE Expire
  <2>1. status'[o] = status[o] \/ status[o] = "active"
    BY <1>3 DEF Expire, Due, Live, IInv, TypeOK
  <2> QED BY <2>1 DEF Kept, Terminal
<1>4. CASE OnChain
  BY <1>1, <1>4 DEF OnChain, Transfer, FillAsk, FillBid, Match, Fill, Elapse, book
<1>5. CASE UNCHANGED vars
  BY <1>1, <1>5 DEF vars, book
<1> QED BY <1>2, <1>3, <1>4, <1>5 DEF Next

\* No row comes back to the book, the expiry cron and the sibling UPDATE touch
\* active rows only, and what else changes a row that ended is the save of a
\* handler that read it before.
THEOREM RowsEndOnce == Spec => EndedRowsKept
<1>1. IInv /\ [Next]_vars =>
        [\A o \in Orders :
           status[o] \in Terminal /\ status'[o] # status[o] =>
             /\ status'[o] \in {"fulfilled", "cancelled"}
             /\ \E j \in Calls : /\ Writes(j, o)
                                 /\ pc'[j] # pc[j] \/ cands'[j] # cands[j]]_vars
  BY StepKept DEF Kept
<1> QED BY <1>1, Invariance, PTL DEF Spec, EndedRowsKept

-----------------------------------------------------------------------------
(* Live asks.                                                               *)

\* A call past its check knows how many asks were live; every ask listed since
\* was counted as an overlap.
PastCheck(j) ==
  /\ pc[j] = "insert" /\ at[j] \in Asks => Cardinality(Live(Asks)) <= overlaps
  /\ pc[j] = "commit" /\ at[j] \in Asks =>
       Cardinality(Live(Asks) \ {mate[j]}) <= overlaps

\* A replaced order is of the same side; only bids skip the check.
SideOK(j) ==
  /\ pc[j] = "cross" => at[j] \notin Asks
  /\ op[j] = "replace" /\ pc[j] \in {"own", "oldread", "commit"} /\ at[j] \in Asks =>
       mate[j] \in Asks

RaceOK == LiveAsksAccounted /\ \A j \in Calls : PastCheck(j) /\ SideOK(j)

LEMMA LiveFinite ==
  ASSUME NEW T, T \subseteq Live(Asks)
  PROVE  IsFiniteSet(T) /\ Cardinality(T) \in Nat
<1>1. T \subseteq Asks
  BY DEF Live
<1> QED BY <1>1, OrdersAssumption, FS_Subset, FS_CardinalityType

\* A step that lists nothing: it may end asks and move one call, to a place
\* where it is not about to list or has just looked.
LEMMA FewerOK ==
  ASSUME IInv, RaceOK, NEW T, T = Live(Asks)', T \subseteq Live(Asks), overlaps' = overlaps,
         NEW j \in Calls, Moves(j), SideOK(j)',
         pc'[j] = "insert" /\ at'[j] \in Asks => Live(Asks) = {},
         pc'[j] = "commit" /\ at'[j] \in Asks => mate'[j] \in Live(Asks)
  PROVE  RaceOK'
<1>1. /\ IsFiniteSet(Live(Asks)) /\ Cardinality(Live(Asks)) \in Nat
      /\ Cardinality(T) <= Cardinality(Live(Asks)) /\ Cardinality(T) \in Nat
  <2>1. Live(Asks) \subseteq Live(Asks)
    OBVIOUS
  <2> QED BY <2>1, LiveFinite, FS_Subset
<1>2. \A m : /\ Cardinality(T \ {m}) <= Cardinality(Live(Asks) \ {m})
             /\ Cardinality(T \ {m}) \in Nat /\ Cardinality(Live(Asks) \ {m}) \in Nat
  <2> SUFFICES ASSUME NEW m
               PROVE /\ Cardinality(T \ {m}) <= Cardinality(Live(Asks) \ {m})
                     /\ Cardinality(T \ {m}) \in Nat /\ Cardinality(Live(Asks) \ {m}) \in Nat
    OBVIOUS
  <2>1. /\ T \ {m} \subseteq Live(Asks) \ {m}
        /\ T \ {m} \subseteq Live(Asks) /\ Live(Asks) \ {m} \subseteq Live(Asks)
    OBVIOUS
  <2> QED BY <2>1, LiveFinite, FS_Subset
<1>3. overlaps \in Nat
  BY DEF IInv, TypeOK
<1>4. LiveAsksAccounted'
  BY <1>1, <1>3 DEF RaceOK, LiveAsksAccounted
<1>5. ASSUME NEW k \in Calls PROVE PastCheck(k)' /\ SideOK(k)'
  <2>1. CASE k # j
    <3>1. pc'[k] = pc[k] /\ at'[k] = at[k] /\ mate'[k] = mate[k] /\ op'[k] = op[k]
      BY <2>1 DEF Moves
    <3>2. PastCheck(k) /\ SideOK(k)
      BY DEF RaceOK
    <3> QED BY <1>1, <1>2, <1>3, <3>1, <3>2 DEF PastCheck, SideOK
  <2>2. CASE k = j
    <3>1. pc'[j] = "insert" /\ at'[j] \in Asks => Cardinality(T) <= overlaps
      <4> SUFFICES ASSUME Live(Asks) = {} PROVE Cardinality(T) <= overlaps
        OBVIOUS
      <4>1. Cardinality(Live(Asks)) = 0
        BY FS_EmptySet
      <4> QED BY <1>1, <1>3, <4>1
    <3>2. PICK m : m = mate'[j]
      OBVIOUS
    <3>3. m \in Live(Asks) => Cardinality(T \ {m}) <= overlaps
      <4> SUFFICES ASSUME m \in Live(Asks) PROVE Cardinality(T \ {m}) <= overlaps
        OBVIOUS
      <4>1. Cardinality(Live(Asks) \ {m}) = Cardinality(Live(Asks)) - 1
        BY <1>1, FS_RemoveElement
      <4>2. Cardinality(Live(Asks)) <= 1 + overlaps
        BY DEF RaceOK, LiveAsksAccounted
      <4>3. Cardinality(T \ {m}) <= Cardinality(Live(Asks) \ {m}) /\ Cardinality(T \ {m}) \in Nat
        BY <1>2
      <4> QED BY <1>1, <1>3, <4>1, <4>2, <4>3
    <3> QED BY <2>2, <3>1, <3>2, <3>3 DEF PastCheck
  <2> QED BY <2>1, <2>2
<1> QED BY <1>4, <1>5 DEF RaceOK

\* An ask n enters the book beside the asks of L.
LEMMA MoreOK ==
  ASSUME IInv, IInv', RaceOK, NEW j \in Calls, NEW L, L \subseteq Live(Asks),
         Cardinality(L) <= overlaps,
         NEW T, T = Live(Asks)', NEW n, T \subseteq L \cup {n},
         overlaps' = overlaps + Cardinality(AboutToList(j)),
         Moves(j), pc'[j] = "idle"
  PROVE  RaceOK'
<1>1. /\ overlaps \in Nat /\ Cardinality(AboutToList(j)) \in Nat
      /\ overlaps' \in Nat /\ IsFiniteSet(AboutToList(j))
  <2>1. AboutToList(j) \subseteq Calls
    BY DEF AboutToList
  <2> QED BY <2>1, OverlapsOK, OrdersAssumption, FS_Subset DEF IInv, TypeOK
<1>2. /\ IsFiniteSet(T) /\ Cardinality(T) \in Nat /\ Cardinality(T) <= overlaps + 1
  <2>1. IsFiniteSet(L) /\ Cardinality(L) \in Nat
    BY LiveFinite
  <2>2. /\ IsFiniteSet(L \cup {n})
        /\ Cardinality(L \cup {n}) = IF n \in L THEN Cardinality(L) ELSE Cardinality(L) + 1
    BY <2>1, FS_AddElement
  <2>3. IsFiniteSet(T) /\ Cardinality(T) <= Cardinality(L \cup {n})
    BY <2>2, FS_Subset
  <2>4. Cardinality(T) \in Nat
    BY <2>3, FS_CardinalityType
  <2>5. Cardinality(L \cup {n}) <= overlaps + 1
    BY <1>1, <2>1, <2>2
  <2>6. Cardinality(L \cup {n}) \in Nat
    BY <2>1, <2>2
  <2> QED BY <1>1, <2>3, <2>4, <2>5, <2>6
<1>3. LiveAsksAccounted'
  BY <1>1, <1>2 DEF LiveAsksAccounted
<1>4. ASSUME NEW k \in Calls PROVE PastCheck(k)' /\ SideOK(k)'
  <2>1. CASE k = j
    BY <2>1 DEF PastCheck, SideOK
  <2>2. CASE k # j
    <3>1. pc'[k] = pc[k] /\ at'[k] = at[k] /\ mate'[k] = mate[k] /\ op'[k] = op[k]
      BY <2>2 DEF Moves
    <3>2. PastCheck(k) /\ SideOK(k)
      BY DEF RaceOK
    <3>3. pc[k] \in {"insert", "commit"} /\ at[k] \in Asks => Cardinality(T) <= overlaps'
      <4> SUFFICES ASSUME pc[k] \in {"insert", "commit"}, at[k] \in Asks
                   PROVE  Cardinality(T) <= overlaps'
        OBVIOUS
      <4>1. AboutToList(j) # {}
        BY <2>2 DEF AboutToList
      <4>2. Cardinality(AboutToList(j)) # 0
        BY <1>1, <4>1, FS_EmptySet
      <4> QED BY <1>1, <1>2, <4>2
    <3>4. PICK m : m = mate'[k]
      OBVIOUS
    <3>5. Cardinality(T \ {m}) <= Cardinality(T) /\ Cardinality(T \ {m}) \in Nat
      <4>1. T \ {m} \in SUBSET T
        OBVIOUS
      <4>2. IsFiniteSet(T \ {m}) /\ Cardinality(T \ {m}) <= Cardinality(T)
        BY <1>2, <4>1, FS_Subset
      <4> QED BY <4>2, FS_CardinalityType
    <3> QED BY <1>1, <1>2, <3>1, <3>2, <3>3, <3>4, <3>5 DEF PastCheck, SideOK
  <2> QED BY <2>1, <2>2
<1> QED BY <1>3, <1>4 DEF RaceOK

\* Every step of a call moves that call only.
LEMMA OneMoves ==
  ASSUME IInv, IInv', NEW j \in Calls, Start(j) \/ Continue(j) \/ Fails(j)
  PROVE  Moves(j)
<1>1. CallTypes /\ CallTypes'
  BY TypesSplit DEF IInv, TypeOK, CallTypes
<1> USE <1>1
<1>2. CASE Start(j)
  BY <1>2 DEF Start, Post, Replace, Cancel, Dead, Unowned, Reconcile, Drop, Fulfill,
              Call, Pair, Sweep, Begin, Go, Moves, CallTypes
<1>3. CASE Fails(j)
  BY <1>3 DEF Fails, Abandon, Finish, Go, Moves, CallTypes, locals
<1>4. CASE \/ OwnsToken(j) \/ CrossCheck(j) \/ ExistsCheck(j) \/ OldRead(j) \/ Read(j)
           \/ ReadAsk(j) \/ ReadBid(j) \/ Settle(j) \/ SettleBid(j) \/ Consumed(j)
  <2>1. Abandon(j) \/ \E p : Step(j, p)
    BY <1>4 DEF OwnsToken, CrossCheck, ExistsCheck, OldRead, Read, ReadAsk, ReadBid,
                Settle, SettleBid, Consumed, Check
  <2> QED BY <2>1 DEF Abandon, Step, Finish, Go, Moves, CallTypes, locals
<1>5. CASE \/ StaleSave(j) \/ StaleRecord(j) \/ Insert(j) \/ Commit(j) \/ Fund(j)
           \/ SaveCancelled(j) \/ Record(j) \/ FillSave(j) \/ Clear(j) \/ LedgerRow(j)
           \/ Repair(j)
  <2>1. Finish(j) \/ \E p : Step(j, p)
    BY <1>5 DEF StaleSave, StaleRecord, Insert, Commit, Fund, SaveCancelled, Record,
                FillSave, Clear, LedgerRow, Repair
  <2> QED BY <2>1 DEF Step, Finish, Go, Moves, CallTypes, locals
<1>6. CASE \/ FindStale(j) \/ StaleOwner(j) \/ Seller(j) \/ FindPairs(j) \/ Candidate(j)
           \/ SelfFill(j) \/ SweepSave(j)
  BY <1>6 DEF FindStale, StaleOwner, Seller, FindPairs, Candidate, SelfFill, SweepSave,
              Step, Finish, Go, Moves, CallTypes, locals
<1> QED BY <1>2, <1>3, <1>4, <1>5, <1>6 DEF Continue

LEMMA InsertRace ==
  ASSUME IInv, IInv', RaceOK, NEW j \in Calls, Insert(j) \/ Commit(j)
  PROVE  RaceOK'
<1>1. Moves(j) /\ pc'[j] = "idle" /\ CallTypes
  BY OneMoves, Assemble DEF Continue, Insert, Commit, Finish, Go, CallTypes
<1>2. /\ pc[j] = "insert" \/ (pc[j] = "commit" /\ mate[j] \in Orders)
      /\ at[j] \in Orders /\ SideOK(j)'
  <2>1. CallOK(op[j], pc[j], at[j], mate[j], who[j], cands[j])
    BY DEF IInv, CallsOK
  <2> QED BY <1>1, <2>1, Facts DEF CallOK, PlaceOK, ListPcs, SideOK, Insert, Commit
<1> DEFINE L == IF pc[j] = "insert" THEN Live(Asks) ELSE Live(Asks) \ {mate[j]}
           T == Live(Asks)'
<1>3. status \in [Orders -> Statuses]
  BY DEF IInv, TypeOK
<1>4. CASE at[j] \in Asks /\ NewRow(j)
           /\ \A o \in Orders : status'[o] = IF o = at[j] THEN "active"
                ELSE IF pc[j] = "commit" /\ o = mate[j] THEN "cancelled" ELSE status[o]
  <2>1. L \subseteq Live(Asks) /\ Cardinality(L) <= overlaps
    BY <1>2, <1>4 DEF RaceOK, PastCheck
  <2>2. T \subseteq L \cup {at[j]}
    BY <1>2, <1>4, Facts DEF Live
  <2>3. overlaps' = overlaps + Cardinality(AboutToList(j))
    BY <1>4 DEF NewRow
  <2> HIDE DEF L, T
  <2>4. T = Live(Asks)'
    BY DEF T
  <2> QED BY <1>1, <2>1, <2>2, <2>3, <2>4, MoreOK
<1>5. CASE T \subseteq Live(Asks) /\ overlaps' = overlaps
  BY <1>1, <1>2, <1>5, FewerOK
<1>6. CASE Insert(j)
  <2>1. CASE UNCHANGED <<book, hist>>
    BY <1>5, <2>1 DEF book, hist, Live
  <2>2. CASE Save(at[j], "active") /\ NewRow(j)
    <3>1. CASE at[j] \in Asks
      BY <1>2, <1>3, <1>4, <1>6, <2>2, <3>1 DEF Save, Insert
    <3>2. CASE at[j] \notin Asks
      <4>1. T \subseteq Live(Asks)
        BY <1>2, <1>3, <2>2, <3>2, Facts DEF Save, Live
      <4>2. overlaps' = overlaps
        BY <2>2, <3>2 DEF NewRow, IInv, TypeOK
      <4> QED BY <1>5, <4>1, <4>2
    <3> QED BY <3>1, <3>2
  <2> QED BY <1>6, <2>1, <2>2 DEF Insert
<1>7. CASE Commit(j)
  <2>1. CASE UNCHANGED <<book, hist>>
    BY <1>5, <2>1 DEF book, hist, Live
  <2>2. CASE /\ HashFree(at[j]) /\ NewRow(j)
             /\ status' = [status EXCEPT ![mate[j]] = "cancelled", ![at[j]] = "active"]
    <3>1. CASE at[j] \in Asks
      BY <1>2, <1>3, <1>4, <1>7, <2>2, <3>1 DEF Commit
    <3>2. CASE at[j] \notin Asks
      <4>1. T \subseteq Live(Asks)
        BY <1>2, <1>3, <1>7, <2>2, <3>2, Facts DEF Commit, Live
      <4>2. overlaps' = overlaps
        BY <2>2, <3>2 DEF NewRow, IInv, TypeOK
      <4> QED BY <1>5, <4>1, <4>2
    <3> QED BY <3>1, <3>2
  <2> QED BY <1>7, <2>1, <2>2 DEF Commit
<1> QED BY <1>6, <1>7

\* What the place of a call allows it to check next.
LEMMA PlaceRace ==
  ASSUME IInv, IInv', RaceOK, NEW j \in Calls,
         Start(j) \/ (Continue(j) /\ ~Insert(j) /\ ~Commit(j)) \/ Fails(j)
  PROVE  /\ SideOK(j)'
         /\ pc'[j] = "insert" /\ at'[j] \in Asks => Live(Asks) = {}
         /\ pc'[j] = "commit" /\ at'[j] \in Asks => mate'[j] \in Live(Asks)
<1>1. /\ pc \in [Calls -> Pcs] /\ at \in [Calls -> Orders \cup {None}]
      /\ mate \in [Calls -> Orders \cup {None}] /\ op \in [Calls -> Ops]
      /\ SideOK(j)
  BY DEF IInv, TypeOK, RaceOK
<1> DEFINE Far == pc'[j] \notin {"own", "cross", "oldread", "insert", "commit"}
<1>2. CASE Far
  BY <1>2 DEF SideOK
<1>3. CASE Start(j)
  <2>1. ASSUME NEW o \in Orders, Post(j, o) PROVE pc'[j] \in {"own", "cross"} /\ SideOK(j)'
    BY <1>1, <2>1, Facts DEF Post, Begin, Go, SideOK
  <2>2. ASSUME NEW old \in Orders, NEW new \in Orders, Replace(j, old, new)
        PROVE  pc'[j] \in {"own", "cross"} /\ SideOK(j)'
    BY <1>1, <2>2, Facts DEF Replace, Begin, Go, SideOK
  <2>3. CASE \/ \E o \in Orders : Cancel(j, o) \/ Fulfill(j, o) \/ Reconcile(j, o) \/ Drop(j, o)
             \/ \E b \in Bids : Dead(j, b)
             \/ \E a \in Asks : Unowned(j, a)
             \/ \E a \in Asks, b \in Bids : Pair(j, a, b)
             \/ Sweep(j)
    <3>1. Far
      BY <1>1, <2>3 DEF Cancel, Fulfill, Reconcile, Drop, Dead, Unowned, Call, Pair, Sweep,
                        Begin, Go
    <3> QED BY <1>2, <3>1
  <2> QED BY <1>3, <2>1, <2>2, <2>3 DEF Start
<1>4. CASE Abandon(j)
  <2>1. Far
    BY <1>1, <1>4 DEF Abandon, Finish, Go
  <2> QED BY <1>2, <2>1
<1>5. CASE OwnsToken(j) /\ Step(j, AfterCheck(j, "stale"))
  <2>1. /\ pc[j] = "own" /\ pc'[j] \in {"oldread", "stale"}
        /\ op'[j] = op[j] /\ at'[j] = at[j] /\ mate'[j] = mate[j]
    BY <1>1, <1>5 DEF OwnsToken, AfterCheck, Step, Go, locals
  <2>2. pc'[j] = "oldread" => op[j] = "replace"
    BY <1>1, <1>5 DEF AfterCheck, Step, Go
  <2> QED BY <1>1, <2>1, <2>2 DEF SideOK
<1>6. CASE CrossCheck(j) /\ Step(j, AfterCheck(j, "insert"))
  <2>1. /\ pc[j] = "cross" /\ pc'[j] \in {"oldread", "insert"}
        /\ op'[j] = op[j] /\ at'[j] = at[j] /\ mate'[j] = mate[j]
    BY <1>1, <1>6 DEF CrossCheck, AfterCheck, Step, Go, locals
  <2> QED BY <1>1, <2>1 DEF SideOK
<1>7. CASE ExistsCheck(j) /\ Step(j, "insert") /\ NoneListed
  <2>1. pc'[j] = "insert" /\ Live(Asks) = {}
    BY <1>1, <1>7 DEF NoneListed, Step, Go
  <2> QED BY <2>1 DEF SideOK
<1>8. CASE OldRead(j) /\ Step(j, "commit") /\ status[mate[j]] = "active"
  <2>1. /\ pc[j] = "oldread" /\ pc'[j] = "commit"
        /\ op'[j] = op[j] /\ at'[j] = at[j] /\ mate'[j] = mate[j]
    BY <1>1, <1>8 DEF OldRead, Step, Go, locals
  <2>2. op[j] = "replace"
    <3>1. CallOK(op[j], pc[j], at[j], mate[j], who[j], cands[j])
      BY DEF IInv, CallsOK
    <3> QED BY <2>1, <3>1 DEF CallOK, PlaceOK
  <2> QED BY <1>1, <1>8, <2>1, <2>2 DEF SideOK, Live
<1>9. CASE \/ FindStale(j) \/ StaleOwner(j) \/ StaleSave(j) \/ StaleRecord(j)
           \/ Fund(j) \/ Seller(j) \/ SaveCancelled(j) \/ Record(j)
           \/ FillSave(j) \/ Clear(j) \/ LedgerRow(j) \/ FindPairs(j) \/ Candidate(j)
           \/ SelfFill(j) \/ Repair(j) \/ SweepSave(j)
  <2>1. Far
    BY <1>1, <1>9 DEF FindStale, StaleOwner, StaleSave, StaleRecord, Fund, Seller,
       SaveCancelled, Record, FillSave, Clear, LedgerRow, FindPairs, Candidate, SelfFill,
       Repair, SweepSave, Step, Finish, Go
  <2> QED BY <1>2, <2>1
<1>10. CASE Read(j) \/ ReadAsk(j) \/ ReadBid(j) \/ Settle(j) \/ SettleBid(j) \/ Consumed(j)
  <2>1. CASE Read(j) /\ Step(j, AfterRead[op[j]])
    <3>1. op[j] \in DOMAIN AfterRead
      <4>1. CallOK(op[j], pc[j], at[j], mate[j], who[j], cands[j])
        BY DEF IInv, CallsOK
      <4> QED BY <2>1, <4>1 DEF Read, CallOK, KindOK, AfterRead
    <3>2. Far
      BY <1>1, <2>1, <3>1 DEF Step, Go, AfterRead
    <3> QED BY <1>2, <3>2
  <2>2. CASE \E p \in {"readbid", "settle", "fillsave", "settlebid", "pairsave", "find",
                       "repair"} : Step(j, p)
    <3>1. Far
      BY <1>1, <2>2 DEF Step, Go
    <3> QED BY <1>2, <3>1
  <2> QED
    BY <1>4, <1>10, <2>1, <2>2 DEF Read, ReadAsk, ReadBid, Settle, SettleBid, Consumed, Check
<1>11. CASE Fails(j)
  <2>1. Far
    BY <1>1, <1>11 DEF Fails, Abandon, Finish, Go
  <2> QED BY <1>2, <2>1
<1> QED
  BY <1>3, <1>4, <1>5, <1>6, <1>7, <1>8, <1>9, <1>10, <1>11
     DEF Continue, OwnsToken, CrossCheck, ExistsCheck, OldRead, Check

LEMMA RaceInit == Init => RaceOK
<1> SUFFICES ASSUME Init PROVE RaceOK
  OBVIOUS
<1>1. Live(Asks) = Resting \cap Asks
  BY OrdersAssumption DEF Init, Live, Orders
<1>2. LiveAsksAccounted
  BY <1>1, OrdersAssumption DEF Init, LiveAsksAccounted
<1>3. \A j \in Calls : pc[j] = "idle"
  BY DEF Init
<1> QED BY <1>2, <1>3 DEF RaceOK, PastCheck, SideOK

\* The asks that leave the book, a call at a time.
LEMMA NoneListedOK ==
  ASSUME IInv, NEW j \in Calls,
         Start(j) \/ (Continue(j) /\ ~Insert(j) /\ ~Commit(j)) \/ Fails(j)
  PROVE  Live(Asks)' \subseteq Live(Asks) /\ overlaps' = overlaps
<1>1. status \in [Orders -> Statuses] /\ Asks \subseteq Orders
  BY Facts DEF IInv, TypeOK
<1>2. CASE status' = status /\ overlaps' = overlaps
  BY <1>2 DEF Live
<1>3. CASE \/ StaleSave(j) \/ SaveCancelled(j) \/ FillSave(j) \/ Clear(j) \/ Repair(j)
           \/ SweepSave(j)
  <2>1. overlaps' = overlaps
    BY <1>3 DEF StaleSave, SaveCancelled, FillSave, Clear, Repair, SweepSave, hist
  <2>2. \A o \in Orders : status'[o] = "active" => status[o] = "active"
    BY <1>1, <1>3 DEF StaleSave, SaveCancelled, FillSave, Clear, Repair, SweepSave,
                      Save, SaveFilled
  <2> QED BY <1>1, <2>1, <2>2 DEF Live
<1> QED BY <1>2, <1>3, QuietRows DEF Continue

LEMMA RaceNext == IInv /\ RaceOK /\ [Next]_vars => RaceOK'
<1> SUFFICES ASSUME IInv, RaceOK, [Next]_vars PROVE RaceOK'
  OBVIOUS
<1>1. IInv'
  BY NextOK
<1>2. ASSUME NEW j \in Calls, Start(j) \/ Continue(j) \/ Fails(j) PROVE RaceOK'
  <2>1. CASE Insert(j) \/ Commit(j)
    BY <1>1, <2>1, InsertRace
  <2>2. CASE ~Insert(j) /\ ~Commit(j)
    <3> DEFINE T == Live(Asks)'
    <3>1. T \subseteq Live(Asks) /\ overlaps' = overlaps
      BY <1>2, <2>2, NoneListedOK
    <3>2. /\ Moves(j) /\ SideOK(j)'
          /\ pc'[j] = "insert" /\ at'[j] \in Asks => Live(Asks) = {}
          /\ pc'[j] = "commit" /\ at'[j] \in Asks => mate'[j] \in Live(Asks)
      BY <1>1, <1>2, <2>2, OneMoves, PlaceRace
    <3>3. T = Live(Asks)'
      OBVIOUS
    <3> HIDE DEF T
    <3> QED BY <3>1, <3>2, <3>3, FewerOK
  <2> QED BY <2>1, <2>2
<1>3. CASE UNCHANGED <<pc, op, at, mate, overlaps>>
           /\ \A o \in Orders : status'[o] = "active" => status[o] = "active"
  <2> DEFINE T == Live(Asks)'
  <2>1. T \in SUBSET Live(Asks)
    BY <1>3, Facts DEF Live
  <2>2. IsFiniteSet(Live(Asks)) /\ Cardinality(Live(Asks)) \in Nat
    BY LiveFinite
  <2>3. IsFiniteSet(T) /\ Cardinality(T) <= Cardinality(Live(Asks))
    BY <2>1, <2>2, FS_Subset
  <2>4. Cardinality(T) \in Nat /\ overlaps \in Nat
    BY <2>3, FS_CardinalityType DEF IInv, TypeOK
  <2>5. LiveAsksAccounted'
    BY <1>3, <2>2, <2>3, <2>4 DEF RaceOK, LiveAsksAccounted
  <2>6. ASSUME NEW j \in Calls PROVE PastCheck(j)' /\ SideOK(j)'
    <3>1. PastCheck(j) /\ SideOK(j)
      BY DEF RaceOK
    <3>2. /\ T \ {mate[j]} \in SUBSET (Live(Asks) \ {mate[j]})
          /\ Live(Asks) \ {mate[j]} \in SUBSET Live(Asks)
      BY <2>1
    <3>3. /\ IsFiniteSet(Live(Asks) \ {mate[j]})
          /\ Cardinality(Live(Asks) \ {mate[j]}) \in Nat
      BY <3>2, LiveFinite
    <3>4. /\ IsFiniteSet(T \ {mate[j]})
          /\ Cardinality(T \ {mate[j]}) <= Cardinality(Live(Asks) \ {mate[j]})
      BY <3>2, <3>3, FS_Subset
    <3>5. Cardinality(T \ {mate[j]}) \in Nat
      BY <3>4, FS_CardinalityType
    <3> QED BY <1>3, <2>2, <2>3, <2>4, <3>1, <3>3, <3>4, <3>5 DEF PastCheck, SideOK
  <2> QED BY <2>5, <2>6 DEF RaceOK
<1>4. CASE OnChain
  BY <1>3, <1>4 DEF OnChain, Transfer, FillAsk, FillBid, Match, Fill, Elapse, MoveTo,
                    book, locals, hist
<1>5. CASE Expire
  <2>1. \A o \in Orders : status'[o] = "active" => status[o] = "active"
    BY <1>5 DEF Expire
  <2> QED BY <1>3, <1>5, <2>1 DEF Expire, locals, hist
<1>6. CASE UNCHANGED vars
  BY <1>3, <1>6 DEF vars, book, locals, hist
<1> QED BY <1>2, <1>4, <1>5, <1>6 DEF Next

\* createOrder and replaceSellerListing keep one live ask of a token; every
\* further one comes from a call that was past its check when another listed.
THEOREM OneLiveAskUnlessRaced == Spec => []LiveAsksAccounted
<1>1. RaceOK => LiveAsksAccounted
  BY DEF RaceOK
<1> QED BY <1>1, InitOK, RaceInit, NextOK, RaceNext, PTL DEF Spec

-----------------------------------------------------------------------------
(* The custody gate.  What a call holds says why it may be let through, and *)
(* why an approval it is about to overwrite may end.                       *)

KycCallType ==
  [op : {"none", "gate", "token", "profile", "hook", "override", "grant"},
   pc : {"idle", "partner", "fetch", "token", "update", "save", "passed"},
   base : Users, row : Users, then : {"idle", "fetch", "return"},
   seen : Reviews \cup {"none", "absent"}, failed : BOOLEAN, alone : BOOLEAN]

Updates(r)  == r.pc \in {"update", "save"}
Returned(r) == Updates(r) /\ r.then = "return"

\* Why call r may end an approval.
Cause(r) ==
  \/ r.base.status # "approved"
  \/ r.op = "override"
  \/ r.op = "hook" /\ r.seen \in {"init", "red"}
  \/ r.op \in {"gate", "token"} /\ r.seen # "green" /\ ~Granted(r.base)

\* What the reconcile of a call goes by: the review it saw.
KycCallOK(r) ==
  /\ r.pc = "passed" => r.seen = "green" \/ Granted(r.row) \/ r.failed
  /\ Returned(r) => /\ r.seen \in Reviews \cup {"absent"}
                    /\ r.row.status = Mapped(r.seen, "none")
  /\ Updates(r) /\ r.row.status # "approved" => Cause(r)
  /\ \/ r.pc \in {"partner", "fetch"}
     \/ Updates(r) /\ r.then = "fetch"
     => r.op \in {"gate", "token"}

\* Nobody has written since call r read the row u, and the review, which maps
\* to m, is the one it saw.
AloneOK(r, u, m) ==
  r.alone =>
    /\ r.pc \in {"partner", "fetch", "update", "save"}
    /\ r.base = u
    /\ Returned(r) => r.row.status = m

KycCallsOK   == \A c \in KycCalls : KycCallOK(call[c])
KycAlone     == \A c \in KycCalls : AloneOK(call[c], user, ReconciledTo)

KycInv == KycTypeOK /\ KycCallsOK /\ KycAlone /\ CurrentAppIsTruth

LEMMA KycTypes ==
  KycTypeOK <=>
    /\ applicant \in Reviews \cup {"absent"} /\ hooks \in SUBSET Reviews
    /\ active \in BOOLEAN /\ synced \in BOOLEAN /\ user \in Users
    /\ call \in [KycCalls -> KycCallType]
    /\ kycCalls \in Nat /\ reviews \in Nat /\ kycFaults \in Nat
BY DEF KycTypeOK, KycCallType

\* mapSumsubReviewToKycStatus: only a green review approves, only a pending or
\* an unknown one makes pending, and a new applicant counts like none.
LEMMA MappedReview ==
  /\ \A v \in Reviews \cup {"absent"} : \A n \in KycStates :
       Mapped(v, n) \in KycStates
  /\ \A v \in Reviews \cup {"absent"} :
       Mapped(v, "none") = "approved" <=> v = "green"
  /\ \A v \in Reviews : Mapped(v, "pending") \notin {"approved", "pending"} =>
                          v \in {"init", "red"}
  /\ Mapped("absent", "none") = Mapped("init", "none")
BY DEF Mapped, Reviews, KycStates

LEMMA KycRows ==
  /\ NewUser \in Users /\ OldUser \in Users /\ WaitingUser \in Users
  /\ \A to \in KycStates, p \in {"null", "sumsub", "admin"},
        e \in {"null", "old", "current"} :
       [status |-> to, provider |-> p, ext |-> e] \in Users
BY DEF NewUser, OldUser, WaitingUser, Users, KycStates

LEMMA NoCallOK ==
  /\ NoCall \in KycCallType /\ KycCallOK(NoCall)
  /\ \A u, m : AloneOK(NoCall, u, m)
  /\ NoCall.alone = FALSE /\ NoCall.pc = "idle" /\ NoCall.then = "idle"
BY KycRows DEF NoCall, KycCallType, KycCallOK, AloneOK, Updates, Returned

\* Call c goes on as r, and the user's row and the review stay.
LEMMA QuietlyOK ==
  ASSUME KycInv, NEW c \in KycCalls, NEW r \in KycCallType, KycCallOK(r),
         AloneOK(r, user, ReconciledTo), call' = [call EXCEPT ![c] = r],
         user' = user, ReconciledTo' = ReconciledTo
  PROVE  call' \in [KycCalls -> KycCallType] /\ KycCallsOK' /\ KycAlone'
<1>1. call \in [KycCalls -> KycCallType]
  BY KycTypes DEF KycInv
<1>2. /\ call'[c] = r
      /\ \A d \in KycCalls \ {c} : call'[d] = call[d]
  BY <1>1
<1>3. call' \in [KycCalls -> KycCallType]
  BY <1>1
<1>4. KycCallsOK'
  <2> SUFFICES ASSUME NEW d \in KycCalls PROVE KycCallOK(call'[d])
    BY DEF KycCallsOK, KycCallOK, Updates, Returned, Cause, Granted, Mapped
  <2> QED BY <1>2 DEF KycInv, KycCallsOK
<1>5. KycAlone'
  <2> SUFFICES ASSUME NEW d \in KycCalls
               PROVE  AloneOK(call'[d], user, ReconciledTo)
    BY DEF KycAlone, AloneOK, Updates, Returned
  <2> QED BY <1>2 DEF KycInv, KycAlone
<1> QED BY <1>3, <1>4, <1>5

\* A call that neither writes the row nor changes the review, nor what the last
\* reconcile knows.
LEMMA QuietKyc ==
  ASSUME KycInv, NEW c \in KycCalls, NEW r \in KycCallType, KycCallOK(r),
         AloneOK(r, user, ReconciledTo), Quietly(c, r),
         UNCHANGED <<outside, user>>,
         kycCalls' \in Nat, reviews' \in Nat, kycFaults' \in Nat
  PROVE  KycInv'
<1>1. ReconciledTo' = ReconciledTo
  BY DEF ReconciledTo, outside, Mapped
<1>2. call' \in [KycCalls -> KycCallType] /\ KycCallsOK' /\ KycAlone'
  BY <1>1, QuietlyOK DEF Quietly
<1>3. KycTypeOK'
  BY <1>2, KycTypes DEF KycInv, Quietly, outside, KycTypeOK, KycCallType
<1>4. CurrentAppIsTruth'
  BY <1>1 DEF KycInv, CurrentAppIsTruth, Quietly, Granted
<1> QED BY <1>2, <1>3, <1>4 DEF KycInv

LEMMA KycInitOK == KycInit => KycInv
<1> SUFFICES ASSUME KycInit PROVE KycInv
  OBVIOUS
<1>1. KycTypeOK
  BY KycRows, NoCallOK, KycTypes DEF KycInit, Reviews
<1>2. KycCallsOK /\ KycAlone
  BY NoCallOK DEF KycInit, KycCallsOK, KycAlone
<1> QED BY <1>1, <1>2 DEF KycInit, KycInv, CurrentAppIsTruth

\* Another review, or another wallet of a partner: no call is alone any more.
LEMMA ReviewOK ==
  ASSUME KycInv, NEW v \in Reviews, Review(v)
  PROVE  KycInv'
<1>1. /\ call \in [KycCalls -> KycCallType] /\ KycTypeOK
      /\ UNCHANGED <<active, user, kycCalls, kycFaults>> /\ synced' = FALSE
      /\ applicant' = v /\ hooks' = hooks \cup {v} /\ reviews' = reviews + 1
      /\ call' = [c \in KycCalls |-> [call[c] EXCEPT !.alone = FALSE]]
  BY KycTypes DEF KycInv, Review
<1>2. \A c \in KycCalls :
        /\ call'[c] \in KycCallType
        /\ call'[c] = [call[c] EXCEPT !.alone = FALSE]
        /\ call'[c].alone = FALSE
  BY <1>1 DEF KycCallType
<1>3. KycTypeOK'
  <2>1. call' \in [KycCalls -> KycCallType]
    BY <1>1, <1>2
  <2>2. /\ applicant' \in Reviews \cup {"absent"} /\ hooks' \in SUBSET Reviews
        /\ active' \in BOOLEAN /\ synced' \in BOOLEAN /\ user' \in Users
        /\ kycCalls' \in Nat /\ reviews' \in Nat /\ kycFaults' \in Nat
    <3>1. /\ applicant \in Reviews \cup {"absent"} /\ hooks \in SUBSET Reviews
          /\ active \in BOOLEAN /\ user \in Users
          /\ kycCalls \in Nat /\ reviews \in Nat /\ kycFaults \in Nat
      BY <1>1, KycTypes
    <3>2. hooks' \in SUBSET Reviews
      BY <1>1, <3>1
    <3>3. synced' \in BOOLEAN
      BY <1>1
    <3>4. applicant' \in Reviews \cup {"absent"}
      BY <1>1
    <3>5. active' \in BOOLEAN /\ user' \in Users /\ kycCalls' \in Nat /\ kycFaults' \in Nat
      BY <1>1, <3>1
    <3>6. reviews' \in Nat
      BY <1>1, <3>1
    <3> QED BY <3>2, <3>3, <3>4, <3>5, <3>6
  <2> QED BY <2>1, <2>2 DEF KycTypeOK, KycCallType
<1>4. KycCallsOK'
  <2> SUFFICES ASSUME NEW c \in KycCalls PROVE KycCallOK(call'[c])
    BY DEF KycCallsOK, KycCallOK, Updates, Returned, Cause, Granted, Mapped
  <2>1. KycCallOK(call[c]) /\ call[c] \in KycCallType
    BY <1>1 DEF KycInv, KycCallsOK
  <2> QED
    BY <1>2, <2>1 DEF KycCallOK, Updates, Returned, Cause, KycCallType
<1>5. KycAlone' /\ CurrentAppIsTruth'
  BY <1>1, <1>2 DEF KycAlone, AloneOK, CurrentAppIsTruth
<1> QED BY <1>3, <1>4, <1>5 DEF KycInv

\* A handler starts.
LEMMA StartsOK ==
  ASSUME KycInv, NEW c \in KycCalls,
         NEW o \in {"gate", "token", "profile"},
         NEW p \in {"partner", "fetch", "save"},
         p = "save" => o = "profile", o = "profile" => p = "save",
         Starts(c, o, p)
  PROVE  KycInv'
<1> DEFINE r == [NoCall EXCEPT !.op = o, !.pc = p, !.base = user, !.row = user,
                               !.alone = (o # "profile")]
<1>1. user \in Users /\ kycCalls \in Nat
  BY KycTypes DEF KycInv
<1>2. r \in KycCallType
  BY <1>1, NoCallOK DEF KycCallType
<1>3. /\ r.op = o /\ r.pc = p /\ r.base = user /\ r.row = user
      /\ r.then = "idle" /\ r.alone = (o # "profile")
  BY DEF NoCall
<1>4. KycCallOK(r) /\ AloneOK(r, user, ReconciledTo)
  BY <1>3 DEF KycCallOK, AloneOK, Updates, Returned, Cause
<1>5. /\ call' = [call EXCEPT ![c] = r] /\ kycCalls' = kycCalls + 1
      /\ UNCHANGED <<applicant, hooks, active, user, synced, reviews, kycFaults>>
  BY DEF Starts, outside
<1> HIDE DEF r
<1>6. Quietly(c, r)
  BY <1>5 DEF Quietly
<1> QED
  BY <1>1, <1>2, <1>4, <1>5, <1>6, QuietKyc, KycTypes DEF KycInv, outside

\* updateKycStatus as it is called: with why the approval it may end, ends.
LEMMA CallsUpdateOK ==
  ASSUME NEW r \in KycCallType, NEW to \in KycStates,
         NEW p \in {"null", "sumsub", "admin"},
         NEW e \in {"null", "old", "current"},
         NEW after \in {"idle", "fetch", "return"},
         NEW u, NEW m,
         to # "approved" => Cause(r),
         after = "fetch" => r.op \in {"gate", "token"},
         after = "return" => /\ r.seen \in Reviews \cup {"absent"}
                             /\ to = Mapped(r.seen, "none") /\ (r.alone => to = m),
         r.alone => r.base = u
  PROVE  /\ CallsUpdate(r, to, p, e, after) \in KycCallType
         /\ KycCallOK(CallsUpdate(r, to, p, e, after))
         /\ AloneOK(CallsUpdate(r, to, p, e, after), u, m)
<1> DEFINE w == [status |-> to, provider |-> p, ext |-> e]
           q == CallsUpdate(r, to, p, e, after)
<1>1. w \in Users /\ w.status = to
  BY KycRows
<1>2. /\ q.pc = "update" /\ q.then = after /\ q.row = w /\ q.op = r.op
      /\ q.base = r.base /\ q.seen = r.seen /\ q.failed = r.failed
      /\ q.alone = r.alone
  BY DEF CallsUpdate, KycCallType
<1>3. q \in KycCallType
  BY <1>1 DEF CallsUpdate, KycCallType
<1> HIDE DEF q, w
<1>4. KycCallOK(q)
  BY <1>1, <1>2 DEF KycCallOK, Updates, Returned, Cause
<1>5. AloneOK(q, u, m)
  BY <1>1, <1>2 DEF AloneOK, Updates, Returned
<1> QED BY <1>3, <1>4, <1>5 DEF q

\* reconcileUser as it returns: a request goes on only with an approved row.
LEMMA ReturnsOK ==
  ASSUME NEW r \in KycCallType, NEW w \in Users, NEW u, NEW m,
         w.status = "approved" => r.seen = "green" \/ Granted(w) \/ r.failed
  PROVE  /\ Returns(r, w) \in KycCallType
         /\ KycCallOK(Returns(r, w)) /\ AloneOK(Returns(r, w), u, m)
<1> DEFINE q == Returns(r, w)
<1>1. CASE r.op = "token"
  <2>1. q = [r EXCEPT !.pc = "token", !.row = w, !.alone = FALSE]
    BY <1>1 DEF Returns
  <2>2. q \in KycCallType /\ q.pc = "token" /\ q.alone = FALSE
    BY <2>1 DEF KycCallType
  <2> HIDE DEF q
  <2>3. KycCallOK(q) /\ AloneOK(q, u, m)
    BY <2>2 DEF KycCallOK, AloneOK, Updates, Returned
  <2> QED BY <2>2, <2>3 DEF q
<1>2. CASE r.op # "token" /\ w.status # "approved"
  BY <1>2, NoCallOK DEF Returns
<1>3. CASE r.op # "token" /\ w.status = "approved"
  <2>1. q = [NoCall EXCEPT !.op = r.op, !.pc = "passed", !.row = w,
                           !.seen = r.seen, !.failed = r.failed]
    BY <1>3 DEF Returns
  <2>2. /\ q \in KycCallType /\ q.pc = "passed" /\ q.alone = FALSE
        /\ q.row = w /\ q.seen = r.seen /\ q.failed = r.failed
    BY <2>1, NoCallOK, KycRows DEF KycCallType, NoCall
  <2> HIDE DEF q
  <2>3. KycCallOK(q) /\ AloneOK(q, u, m)
    BY <1>3, <2>2 DEF KycCallOK, AloneOK, Updates, Returned
  <2> QED BY <2>2, <2>3 DEF q
<1> QED BY <1>1, <1>2, <1>3

LEMMA StartHookOK ==
  ASSUME KycInv, NEW c \in KycCalls, NEW v \in Reviews, StartHook(c, v)
  PROVE  KycInv'
<1> DEFINE to == Mapped(v, "pending")
           r  == [NoCall EXCEPT !.op = "hook", !.base = user, !.seen = v]
           q  == CallsUpdate(r, to, "sumsub", "current", "idle")
<1>1. user \in Users /\ kycCalls \in Nat /\ user.status \in KycStates
  BY KycTypes DEF KycInv, Users
<1>2. /\ kycCalls' = kycCalls + 1
      /\ UNCHANGED <<applicant, hooks, active, user, reviews, kycFaults>>
      /\ \/ Applies(user.status, to) /\ Quietly(c, q)
         \/ UNCHANGED <<call, synced>>
  BY DEF StartHook, outside
<1>3. CASE UNCHANGED <<call, synced>>
  <2>1. KycTypeOK'
    BY <1>1, <1>2, <1>3 DEF KycInv, KycTypeOK
  <2>2. ReconciledTo' = ReconciledTo
    BY <1>2 DEF ReconciledTo, Mapped
  <2>3. KycCallsOK' /\ KycAlone'
    BY <1>2, <1>3, <2>2
       DEF KycInv, KycCallsOK, KycCallOK, Updates, Returned, Cause, Granted,
           Mapped, KycAlone, AloneOK
  <2> QED BY <1>2, <1>3, <2>1, <2>2, <2>3
          DEF KycInv, CurrentAppIsTruth, Granted
<1>4. CASE Applies(user.status, to) /\ Quietly(c, q)
  <2>1. /\ r \in KycCallType /\ r.op = "hook" /\ r.base = user /\ r.seen = v
        /\ r.alone = FALSE
    BY <1>1, NoCallOK DEF KycCallType, NoCall
  <2>2. to \in KycStates
    BY MappedReview DEF KycStates
  <2>3. to # "approved" => Cause(r)
    BY <1>4, <2>1, MappedReview DEF Cause, Applies
  <2> HIDE DEF r, to
  <2>4. q \in KycCallType /\ KycCallOK(q) /\ AloneOK(q, user, ReconciledTo)
    BY <2>1, <2>2, <2>3, CallsUpdateOK
  <2> HIDE DEF q
  <2> QED BY <1>1, <1>2, <1>4, <2>4, QuietKyc, KycTypes DEF KycInv, outside
<1> QED BY <1>2, <1>3, <1>4

\* An admin's override and a partner's grant, from the row just read.
LEMMA StartUpdateOK ==
  ASSUME KycInv, NEW c \in KycCalls,
         NEW o \in {"override", "grant"}, NEW to \in KycStates,
         NEW p \in {"null", "sumsub", "admin"},
         o = "grant" => to = "approved",
         Quietly(c, CallsUpdate([NoCall EXCEPT !.op = o, !.base = user],
                                to, p, user.ext, "idle")),
         kycCalls' = kycCalls + 1,
         UNCHANGED <<outside, user, reviews, kycFaults>>
  PROVE  KycInv'
<1> DEFINE r == [NoCall EXCEPT !.op = o, !.base = user]
           q == CallsUpdate(r, to, p, user.ext, "idle")
<1>1. /\ user \in Users /\ kycCalls \in Nat
      /\ user.ext \in {"null", "old", "current"}
  BY KycTypes DEF KycInv, Users
<1>2. r \in KycCallType /\ r.op = o /\ r.alone = FALSE
  BY <1>1, NoCallOK DEF KycCallType, NoCall
<1>3. to # "approved" => Cause(r)
  BY <1>2 DEF Cause
<1>4. Quietly(c, q)
  OBVIOUS
<1> HIDE DEF r
<1>5. q \in KycCallType /\ KycCallOK(q) /\ AloneOK(q, user, ReconciledTo)
  BY <1>1, <1>2, <1>3, CallsUpdateOK
<1> HIDE DEF q
<1> QED BY <1>1, <1>4, <1>5, QuietKyc, KycTypes DEF KycInv, outside

LEMMA StartOverrideOK ==
  ASSUME KycInv, NEW c \in KycCalls, NEW to \in KycStates, StartOverride(c, to)
  PROVE  KycInv'
<1>1. user \in Users
  BY KycTypes DEF KycInv
<1>2. user.provider \in {"null", "sumsub", "admin"}
  BY <1>1 DEF Users
<1>3. CASE user.provider = "null"
  BY <1>3, StartUpdateOK DEF StartOverride
<1>4. CASE user.provider # "null"
  BY <1>2, <1>4, StartUpdateOK DEF StartOverride
<1> QED BY <1>3, <1>4

LEMMA StartGrantOK ==
  ASSUME KycInv, NEW c \in KycCalls, StartGrant(c)
  PROVE  KycInv'
BY StartUpdateOK DEF StartGrant, KycStates

LEMMA CheckPartnerOK ==
  ASSUME KycInv, NEW c \in KycCalls, CheckPartner(c)
  PROVE  KycInv'
<1> DEFINE r == call[c]
<1>1. /\ r \in KycCallType /\ KycCallOK(r) /\ AloneOK(r, user, ReconciledTo)
      /\ r.pc = "partner"
  BY KycTypes DEF KycInv, KycCallsOK, KycAlone, CheckPartner
<1>2. /\ UNCHANGED <<outside, user>>
      /\ kycCalls' \in Nat /\ reviews' \in Nat /\ kycFaults' \in Nat
      /\ \/ Quietly(c, CallsUpdate(r, "approved", "admin", r.base.ext, "fetch"))
         \/ Quietly(c, [r EXCEPT !.pc = "fetch"])
  BY KycTypes DEF KycInv, CheckPartner, counts
<1> HIDE DEF r
<1>3. CASE Quietly(c, CallsUpdate(r, "approved", "admin", r.base.ext, "fetch"))
  <2> DEFINE q == CallsUpdate(r, "approved", "admin", r.base.ext, "fetch")
  <2>1. r.base.ext \in {"null", "old", "current"} /\ "approved" \in KycStates
    BY <1>1 DEF KycCallType, Users, KycStates
  <2>2. r.alone => r.base = user
    BY <1>1 DEF AloneOK
  <2>3. q \in KycCallType /\ KycCallOK(q) /\ AloneOK(q, user, ReconciledTo)
    BY <1>1, <2>1, <2>2, CallsUpdateOK DEF KycCallOK
  <2> HIDE DEF q
  <2>4. Quietly(c, q)
    BY <1>3 DEF q
  <2> QED BY <1>2, <2>3, <2>4, QuietKyc
<1>4. CASE Quietly(c, [r EXCEPT !.pc = "fetch"])
  <2> DEFINE q == [r EXCEPT !.pc = "fetch"]
  <2>1. /\ q \in KycCallType /\ q.pc = "fetch" /\ q.op = r.op
        /\ q.base = r.base /\ q.alone = r.alone
    BY <1>1 DEF KycCallType
  <2> HIDE DEF q
  <2>2. KycCallOK(q) /\ AloneOK(q, user, ReconciledTo)
    BY <1>1, <2>1 DEF KycCallOK, AloneOK, Updates, Returned
  <2>3. Quietly(c, q)
    BY <1>4 DEF q
  <2> QED BY <1>2, <2>1, <2>2, <2>3, QuietKyc
<1> QED BY <1>2, <1>3, <1>4

\* reconcileUser: what it does follows from the review it fetched.
LEMMA FetchOK ==
  ASSUME KycInv, NEW c \in KycCalls, Fetch(c)
  PROVE  KycInv'
<1> DEFINE r == [call[c] EXCEPT !.seen = applicant]
           m == ReconciledTo
<1>1. /\ call[c] \in KycCallType /\ KycCallOK(call[c])
      /\ AloneOK(call[c], user, m) /\ applicant \in Reviews \cup {"absent"}
      /\ synced \in BOOLEAN /\ call[c].pc = "fetch"
  BY KycTypes DEF KycInv, KycCallsOK, KycAlone, Fetch
<1>2. /\ r \in KycCallType /\ r.pc = "fetch" /\ r.seen = applicant
      /\ r.op \in {"gate", "token"} /\ r.base = call[c].base
      /\ r.alone = call[c].alone /\ r.base \in Users
      /\ r.alone => r.base = user
  BY <1>1 DEF KycCallType, KycCallOK, AloneOK
<1>3. m = Mapped(r.seen, "none") /\ m \in KycStates
      /\ (m = "approved" <=> r.seen = "green")
  BY <1>1, <1>2, MappedReview DEF ReconciledTo, KycStates
<1>4. /\ UNCHANGED <<applicant, hooks, active, user, kycCalls, reviews, kycFaults>>
      /\ \/ /\ Reconciles(r.base) = {}
            /\ call' = [call EXCEPT ![c] = Returns(r, r.base)]
            /\ synced' = (synced \/ r.alone)
         \/ /\ Reconciles(r.base) # {}
            /\ \E to \in Reconciles(r.base) :
                 Quietly(c, CallsUpdate(r, to, "sumsub",
                   IF applicant = "absent" THEN "null" ELSE "current", "return"))
  BY DEF Fetch, outside, counts
<1> HIDE DEF r
<1>5. CASE /\ Reconciles(r.base) = {}
           /\ call' = [call EXCEPT ![c] = Returns(r, r.base)]
           /\ synced' = (synced \/ r.alone)
  <2> DEFINE q == Returns(r, r.base)
  <2>1. Granted(r.base) \/ r.base.status = m
    BY <1>5 DEF Reconciles
  <2>2. /\ q \in KycCallType /\ KycCallOK(q) /\ AloneOK(q, user, m)
    BY <1>2, <1>3, <2>1, ReturnsOK
  <2> HIDE DEF q
  <2>3. ReconciledTo' = ReconciledTo
    BY <1>4 DEF ReconciledTo, Mapped
  <2>4. call' \in [KycCalls -> KycCallType] /\ KycCallsOK' /\ KycAlone'
    <3>1. call' = [call EXCEPT ![c] = q]
      BY <1>5 DEF q
    <3> QED BY <1>4, <2>2, <2>3, <3>1, QuietlyOK
  <2>5. KycTypeOK'
    <3>1. synced' \in BOOLEAN
      BY <1>1, <1>2, <1>5 DEF KycCallType
    <3> QED BY <1>4, <2>4, <3>1, KycTypes DEF KycInv, KycTypeOK, KycCallType
  <2>6. CurrentAppIsTruth'
    <3>1. synced' => user.status = m \/ Granted(user)
      BY <1>2, <1>5, <2>1 DEF KycInv, CurrentAppIsTruth
    <3> QED BY <1>4, <2>3, <3>1 DEF CurrentAppIsTruth, Granted
  <2> QED BY <2>4, <2>5, <2>6 DEF KycInv
<1>6. CASE /\ Reconciles(r.base) # {}
           /\ \E to \in Reconciles(r.base) :
                 Quietly(c, CallsUpdate(r, to, "sumsub",
                   IF applicant = "absent" THEN "null" ELSE "current", "return"))
  <2>1. /\ ~(Granted(r.base) /\ m # "approved")
        /\ Reconciles(r.base) = {m}
    BY <1>6 DEF Reconciles
  <2>2. m # "approved" => Cause(r)
    BY <1>2, <1>3, <2>1 DEF Cause
  <2>3. PICK e \in {"null", "old", "current"} :
          Quietly(c, CallsUpdate(r, m, "sumsub", e, "return"))
    BY <1>6, <2>1
  <2> DEFINE q == CallsUpdate(r, m, "sumsub", e, "return")
  <2>4. q \in KycCallType /\ KycCallOK(q) /\ AloneOK(q, user, m)
    BY <1>1, <1>2, <1>3, <2>2, CallsUpdateOK
  <2>5. Quietly(c, q)
    BY <2>3
  <2>6. /\ kycCalls' \in Nat /\ reviews' \in Nat /\ kycFaults' \in Nat
        /\ UNCHANGED <<outside, user>>
    BY <1>4, KycTypes DEF KycInv, outside
  <2> HIDE DEF q
  <2> QED BY <2>4, <2>5, <2>6, QuietKyc
<1> QED BY <1>4, <1>5, <1>6

\* A new applicant changes no status.
LEMMA GetApplicantOK ==
  ASSUME KycInv, NEW c \in KycCalls, GetApplicant(c)
  PROVE  KycInv'
<1> DEFINE r == call[c]
           b == [r EXCEPT !.base = r.row]
           q == CallsUpdate(b, r.row.status, "sumsub", "current", "idle")
<1>1. /\ r \in KycCallType /\ r.pc = "token"
      /\ AloneOK(r, user, ReconciledTo)
      /\ applicant \in Reviews \cup {"absent"}
  BY KycTypes DEF KycInv, KycAlone, GetApplicant
<1>2. /\ r.alone = FALSE /\ r.row \in Users /\ r.row.status \in KycStates
  BY <1>1 DEF AloneOK, KycCallType, Users
<1>3. /\ UNCHANGED <<hooks, active, user, kycCalls, reviews, kycFaults, synced>>
      /\ applicant' \in {applicant, IF applicant = "absent" THEN "init"
                                                            ELSE applicant}
      /\ \/ call' = [call EXCEPT ![c] = q]
         \/ call' = [call EXCEPT ![c] = NoCall]
  BY DEF GetApplicant, counts, Quietly
<1>4. q \in KycCallType /\ KycCallOK(q) /\ AloneOK(q, user, ReconciledTo)
  <2>1. /\ b \in KycCallType /\ b.base = r.row /\ b.alone = FALSE
    BY <1>1, <1>2 DEF KycCallType
  <2>2. r.row.status # "approved" => Cause(b)
    BY <2>1 DEF Cause
  <2>3. ASSUME NEW to \in KycStates, to # "approved" => Cause(b)
        PROVE  /\ CallsUpdate(b, to, "sumsub", "current", "idle") \in KycCallType
               /\ KycCallOK(CallsUpdate(b, to, "sumsub", "current", "idle"))
               /\ AloneOK(CallsUpdate(b, to, "sumsub", "current", "idle"),
                          user, ReconciledTo)
    <3> HIDE DEF b
    <3> QED BY <2>1, <2>3, CallsUpdateOK
  <2> HIDE DEF b
  <2> QED BY <1>2, <2>2, <2>3
<1>5. ReconciledTo' = ReconciledTo
      /\ applicant' \in Reviews \cup {"absent"}
  <2>1. \/ applicant' = applicant
        \/ applicant = "absent" /\ applicant' = "init"
    BY <1>3
  <2>2. CASE applicant' = applicant
    BY <1>1, <2>2 DEF ReconciledTo, Mapped
  <2>3. CASE applicant = "absent" /\ applicant' = "init"
    BY <2>3, MappedReview DEF ReconciledTo, Reviews
  <2> QED BY <2>1, <2>2, <2>3
<1> HIDE DEF q
<1>6. call' \in [KycCalls -> KycCallType] /\ KycCallsOK' /\ KycAlone'
  <2>1. CASE call' = [call EXCEPT ![c] = q]
    BY <1>3, <1>4, <1>5, <2>1, QuietlyOK
  <2>2. CASE call' = [call EXCEPT ![c] = NoCall]
    <3>1. NoCall \in KycCallType /\ KycCallOK(NoCall)
          /\ AloneOK(NoCall, user, ReconciledTo)
      BY NoCallOK
    <3> QED BY <1>3, <1>5, <2>2, <3>1, QuietlyOK
  <2> QED BY <1>3, <2>1, <2>2
<1>7. KycTypeOK'
  BY <1>3, <1>5, <1>6, KycTypes DEF KycInv, KycTypeOK, KycCallType
<1>8. CurrentAppIsTruth'
  BY <1>3, <1>5 DEF KycInv, CurrentAppIsTruth, Granted
<1> QED BY <1>6, <1>7, <1>8 DEF KycInv

LEMMA ReadRowOK ==
  ASSUME KycInv, NEW c \in KycCalls, ReadRow(c)
  PROVE  KycInv'
<1> DEFINE r == call[c]
           q == [r EXCEPT !.pc = "save",
                          !.row.ext = IF @ = "null" THEN user.ext ELSE @]
<1>1. /\ r \in KycCallType /\ KycCallOK(r) /\ AloneOK(r, user, ReconciledTo)
      /\ r.pc = "update" /\ user \in Users
  BY KycTypes DEF KycInv, KycCallsOK, KycAlone, ReadRow
<1>2. /\ UNCHANGED <<outside, user>> /\ Quietly(c, q)
      /\ kycCalls' \in Nat /\ reviews' \in Nat /\ kycFaults' \in Nat
  BY KycTypes DEF KycInv, ReadRow, counts
<1>3. /\ q \in KycCallType /\ q.pc = "save" /\ q.op = r.op /\ q.base = r.base
      /\ q.then = r.then /\ q.seen = r.seen /\ q.failed = r.failed
      /\ q.alone = r.alone /\ q.row.status = r.row.status
  BY <1>1 DEF KycCallType, Users
<1> HIDE DEF q
<1>4. KycCallOK(q) /\ AloneOK(q, user, ReconciledTo)
  BY <1>1, <1>3 DEF KycCallOK, AloneOK, Updates, Returned, Cause
<1> QED BY <1>2, <1>3, <1>4, QuietKyc

\* The save of the whole row: from here on no other call is alone.
LEMMA KycSaveRowOK ==
  ASSUME KycInv, NEW c \in KycCalls, SaveRow(c)
  PROVE  KycInv'
<1> DEFINE r == call[c]
           m == ReconciledTo
           f == [r EXCEPT !.pc = "fetch", !.base = r.row]
           q == CASE r.then = "idle"   -> NoCall
                  [] r.then = "fetch"  -> f
                  [] r.then = "return" -> Returns(r, r.row)
<1>1. /\ r \in KycCallType /\ KycCallOK(r) /\ AloneOK(r, user, m)
      /\ r.pc = "save" /\ r.row \in Users
      /\ call \in [KycCalls -> KycCallType]
  BY KycTypes DEF KycInv, KycCallsOK, KycAlone, SaveRow, KycCallType
<1>2. /\ UNCHANGED <<applicant, hooks, active, kycCalls, reviews, kycFaults>>
      /\ user' = r.row /\ synced' = (r.then = "return" /\ r.alone)
      /\ \A d \in KycCalls \ {c} : call'[d] = [call[d] EXCEPT !.alone = FALSE]
      /\ call'[c] = q
      /\ call' = [d \in KycCalls |-> call'[d]]
  <2> HIDE DEF q
  <2>1. call' = [d \in KycCalls |->
          IF d # c THEN [call[d] EXCEPT !.alone = FALSE] ELSE q]
    BY DEF SaveRow, q
  <2>2. /\ UNCHANGED <<applicant, hooks, active, kycCalls, reviews, kycFaults>>
        /\ user' = r.row /\ synced' = (r.then = "return" /\ r.alone)
    BY DEF SaveRow, outside, counts
  <2> QED BY <2>1, <2>2
<1>3. q \in KycCallType /\ KycCallOK(q) /\ AloneOK(q, r.row, m)
  <2>1. CASE r.then = "idle"
    BY <2>1, NoCallOK
  <2>2. CASE r.then = "fetch"
    <3>1. q = f
      BY <2>2
    <3>2. /\ f \in KycCallType /\ f.pc = "fetch" /\ f.base = r.row
          /\ f.op = r.op
      BY <1>1 DEF KycCallType
    <3> HIDE DEF f
    <3>3. r.op \in {"gate", "token"}
      BY <1>1, <2>2 DEF KycCallOK, Updates
    <3> QED BY <3>1, <3>2, <3>3 DEF KycCallOK, AloneOK, Updates, Returned
  <2>3. CASE r.then = "return"
    <3>1. r.row.status = Mapped(r.seen, "none")
      BY <1>1, <2>3 DEF KycCallOK, Updates, Returned
    <3>2. r.row.status = "approved" => r.seen = "green"
      BY <1>1, <2>3, <3>1, MappedReview DEF KycCallOK, Updates, Returned
    <3> QED BY <1>1, <2>3, <3>2, ReturnsOK
  <2> QED BY <1>1, <2>1, <2>2, <2>3 DEF KycCallType
<1>4. ReconciledTo' = m
  BY <1>2 DEF ReconciledTo, Mapped
<1> HIDE DEF q
<1>5. \A d \in KycCalls \ {c} :
        /\ call[d] \in KycCallType /\ KycCallOK(call[d])
        /\ call'[d] \in KycCallType /\ call'[d].alone = FALSE
        /\ KycCallOK(call'[d])
  <2> SUFFICES ASSUME NEW d \in KycCalls \ {c}
               PROVE  /\ call[d] \in KycCallType /\ KycCallOK(call[d])
                      /\ call'[d] \in KycCallType /\ call'[d].alone = FALSE
                      /\ KycCallOK(call'[d])
    OBVIOUS
  <2>1. call[d] \in KycCallType /\ KycCallOK(call[d])
    BY <1>1 DEF KycInv, KycCallsOK
  <2>2. call'[d] = [call[d] EXCEPT !.alone = FALSE]
    BY <1>2
  <2>3. call'[d] \in KycCallType /\ call'[d].alone = FALSE
    BY <2>1, <2>2 DEF KycCallType
  <2>4. KycCallOK(call'[d])
    BY <2>1, <2>2 DEF KycCallOK, Updates, Returned, Cause, KycCallType
  <2> QED BY <2>1, <2>3, <2>4
<1>6. call' \in [KycCalls -> KycCallType]
  BY <1>2, <1>3, <1>5
<1>7. KycCallsOK'
  <2> SUFFICES ASSUME NEW d \in KycCalls PROVE KycCallOK(call'[d])
    BY DEF KycCallsOK, KycCallOK, Updates, Returned, Cause, Granted, Mapped
  <2> QED BY <1>2, <1>3, <1>5
<1>8. KycAlone'
  <2> SUFFICES ASSUME NEW d \in KycCalls PROVE AloneOK(call'[d], user', m)
    BY <1>4 DEF KycAlone, AloneOK, Updates, Returned
  <2> QED BY <1>2, <1>3, <1>5 DEF AloneOK
<1>9. KycTypeOK'
  <2>1. synced' \in BOOLEAN /\ user' \in Users
    BY <1>1, <1>2 DEF KycCallType
  <2> QED BY <1>2, <1>6, <2>1, KycTypes DEF KycInv, KycTypeOK, KycCallType
<1>10. CurrentAppIsTruth'
  <2>1. synced' => r.row.status = m
    BY <1>1, <1>2 DEF AloneOK, Updates, Returned
  <2> QED BY <1>2, <1>4, <2>1 DEF CurrentAppIsTruth
<1> QED BY <1>7, <1>8, <1>9, <1>10 DEF KycInv

LEMMA EndsOK ==
  ASSUME KycInv, NEW c \in KycCalls, Quietly(c, NoCall),
         UNCHANGED <<outside, user>>,
         kycCalls' \in Nat, reviews' \in Nat, kycFaults' \in Nat
  PROVE  KycInv'
BY NoCallOK, QuietKyc

\* An error of Sumsub lets the row stand as it was read.
LEMMA KycFailsOK ==
  ASSUME KycInv, NEW c \in KycCalls, KycFails(c)
  PROVE  KycInv'
<1> DEFINE r == [call[c] EXCEPT !.failed = TRUE]
<1>1. /\ UNCHANGED <<outside, user>>
      /\ kycCalls' \in Nat /\ reviews' \in Nat /\ kycFaults' \in Nat
      /\ Quietly(c, NoCall) \/ Quietly(c, Returns(r, call[c].base))
  BY KycTypes DEF KycInv, KycFails
<1>2. CASE Quietly(c, NoCall)
  BY <1>1, <1>2, EndsOK
<1>3. CASE Quietly(c, Returns(r, call[c].base))
  <2>1. call[c] \in KycCallType
    BY KycTypes DEF KycInv
  <2>2. r \in KycCallType /\ r.failed = TRUE /\ call[c].base \in Users
    BY <2>1 DEF KycCallType
  <2> DEFINE q == Returns(r, call[c].base)
  <2> HIDE DEF r
  <2>3. q \in KycCallType /\ KycCallOK(q) /\ AloneOK(q, user, ReconciledTo)
    BY <2>2, ReturnsOK
  <2>4. Quietly(c, q)
    BY <1>3
  <2> HIDE DEF q
  <2> QED BY <1>1, <2>3, <2>4, QuietKyc
<1> QED BY <1>1, <1>2, <1>3

\* Steps that leave the calls, the row and the review.
LEMMA UntouchedKyc ==
  ASSUME KycInv, UNCHANGED <<applicant, user, call, synced>>,
         hooks' \in SUBSET Reviews, active' \in BOOLEAN,
         kycCalls' \in Nat, reviews' \in Nat, kycFaults' \in Nat
  PROVE  KycInv'
<1>1. KycTypeOK'
  BY DEF KycInv, KycTypeOK
<1>2. ReconciledTo' = ReconciledTo
  BY DEF ReconciledTo, Mapped
<1>3. KycCallsOK' /\ KycAlone'
  BY <1>2 DEF KycInv, KycCallsOK, KycCallOK, Updates, Returned, Cause, Granted,
              Mapped, KycAlone, AloneOK
<1> QED BY <1>1, <1>2, <1>3 DEF KycInv, CurrentAppIsTruth, Granted

LEMMA KycRestartOK ==
  ASSUME KycInv, KycRestart
  PROVE  KycInv'
<1>1. /\ UNCHANGED <<outside, user, synced, kycCalls, reviews>>
      /\ kycFaults' = kycFaults + 1
      /\ call' = [c \in KycCalls |-> NoCall]
      /\ ReconciledTo' = ReconciledTo
  BY DEF KycRestart, outside, ReconciledTo, Mapped
<1>2. call' \in [KycCalls -> KycCallType] /\ \A c \in KycCalls : call'[c] = NoCall
  BY <1>1, NoCallOK
<1>3. KycTypeOK'
  BY <1>1, <1>2, KycTypes DEF KycInv, outside, KycTypeOK, KycCallType
<1>4. KycCallsOK'
  <2> SUFFICES ASSUME NEW d \in KycCalls PROVE KycCallOK(call'[d])
    BY DEF KycCallsOK, KycCallOK, Updates, Returned, Cause, Granted, Mapped
  <2> QED BY <1>2, NoCallOK
<1>5. KycAlone'
  BY <1>2, NoCallOK DEF KycAlone, AloneOK
<1>6. CurrentAppIsTruth'
  BY <1>1 DEF KycInv, CurrentAppIsTruth, Granted
<1> QED BY <1>3, <1>4, <1>5, <1>6 DEF KycInv

LEMMA KycStepOK == KycInv /\ [KycNext]_kycVars => KycInv'
<1> SUFFICES ASSUME KycInv, [KycNext]_kycVars PROVE KycInv'
  OBVIOUS
<1>1. CASE UNCHANGED kycVars
  BY <1>1, UntouchedKyc, KycTypes DEF KycInv, kycVars, outside, counts
<1>2. ASSUME NEW v \in Reviews, Review(v) PROVE KycInv'
  BY <1>2, ReviewOK
<1>3. ASSUME NEW on \in BOOLEAN, SetPartner(on) PROVE KycInv'
  BY <1>3, UntouchedKyc, KycTypes DEF KycInv, SetPartner
<1>4. ASSUME NEW c \in KycCalls,
             StartGate(c) \/ StartToken(c) \/ StartProfile(c)
      PROVE  KycInv'
  BY <1>4, StartsOK DEF StartGate, StartToken, StartProfile
<1>5. ASSUME NEW c \in KycCalls, StartGrant(c) PROVE KycInv'
  BY <1>5, StartGrantOK
<1>6. ASSUME NEW c \in KycCalls, NEW v \in Reviews, StartHook(c, v)
      PROVE  KycInv'
  BY <1>6, StartHookOK
<1>7. ASSUME NEW c \in KycCalls, NEW to \in KycStates, StartOverride(c, to)
      PROVE  KycInv'
  BY <1>7, StartOverrideOK
<1>8. ASSUME NEW c \in KycCalls,
             CheckPartner(c) \/ Fetch(c) \/ GetApplicant(c) \/ ReadRow(c)
               \/ SaveRow(c) \/ KycFails(c)
      PROVE  KycInv'
  BY <1>8, CheckPartnerOK, FetchOK, GetApplicantOK, ReadRowOK, KycSaveRowOK,
     KycFailsOK
<1>9. ASSUME NEW c \in KycCalls, PassGate(c) PROVE KycInv'
  BY <1>9, EndsOK, KycTypes DEF KycInv, PassGate, counts
<1>10. CASE KycRestart
  BY <1>10, KycRestartOK
<1> QED BY <1>1, <1>2, <1>3, <1>4, <1>5, <1>6, <1>7, <1>8, <1>9, <1>10
        DEF KycNext

LEMMA KycInvariance == KycSpec => []KycInv
BY KycInitOK, KycStepOK, PTL DEF KycSpec

\* The KYC columns and what calls in flight hold are well typed, whatever order
\* webhooks, reconciles, overrides and grants come in (KycService, UserService).
THEOREM KycTypeCorrect == KycSpec => []KycTypeOK
<1>1. KycInv => KycTypeOK
  BY DEF KycInv
<1> QED BY <1>1, KycInvariance, PTL

\* A redeem passes the custody gate only if the request itself saw a green
\* review, holds an admin's grant, or could not ask Sumsub
\* (assertApprovedForCustody, reconcileUser).
THEOREM PassedGatesAreHonest == KycSpec => []PassedGatesHonest
<1>1. KycInv => PassedGatesHonest
  BY DEF KycInv, KycCallsOK, KycCallOK, PassedGatesHonest
<1> QED BY <1>1, KycInvariance, PTL

\* After a reconcile nobody interfered with, the row has the status of the
\* applicant in the current Sumsub app, or an admin's grant (reconcileUser).
THEOREM CurrentAppStaysTruth == KycSpec => []CurrentAppIsTruth
<1>1. KycInv => CurrentAppIsTruth
  BY DEF KycInv
<1> QED BY <1>1, KycInvariance, PTL

\* An approval ends only for one of four causes, and never through a webhook
\* that reports "pending" late (shouldApplyKycTransition, updateKycStatus).
THEOREM ApprovalsEndOnlyForCause == KycSpec => ApprovalsEndForCause
<1> DEFINE EndsForCause == user.status = "approved" /\ user'.status # "approved" =>
       \E c \in KycCalls :
         LET r == call[c] IN
         /\ r.pc = "save" /\ r.row = user'
         /\ \/ r.base.status # "approved"
            \/ r.op = "override"
            \/ r.op = "hook" /\ r.seen \in {"init", "red"}
            \/ r.op \in {"gate", "token"} /\ r.seen # "green" /\ ~Granted(r.base)
<1>1. KycInv /\ [KycNext]_kycVars => [EndsForCause]_kycVars
  <2> SUFFICES ASSUME KycInv, KycNext,
                      user.status = "approved", user'.status # "approved"
               PROVE  \E c \in KycCalls :
                        call[c].pc = "save" /\ call[c].row = user' /\ Cause(call[c])
    BY DEF Cause
  <2>1. user' # user
    OBVIOUS
  <2>2. PICK c \in KycCalls : SaveRow(c)
    BY <2>1 DEF KycNext, Review, SetPartner, StartGate, StartToken, StartProfile,
                Starts, StartGrant, StartHook, StartOverride, CheckPartner, Fetch,
                GetApplicant, ReadRow, PassGate, KycFails, KycRestart
  <2>3. call[c].pc = "save" /\ user' = call[c].row
    BY <2>2 DEF SaveRow
  <2>4. Cause(call[c])
    BY <2>3 DEF KycInv, KycCallsOK, KycCallOK, Updates
  <2> QED BY <2>3, <2>4
<1> QED BY <1>1, KycInvariance, PTL DEF KycSpec, ApprovalsEndForCause

-----------------------------------------------------------------------------
(* The book and the verification of its traders in one run                  *)

LEMMA TradeRunsApart == TradeSpec => Spec /\ KycSpec
<1>1. TradeInit => Init /\ KycInit
  BY DEF TradeInit
<1>2. [TradeNext]_<<service, vars, kycVars>> => [Next]_vars /\ [KycNext]_kycVars
  BY DEF TradeNext
<1> QED BY <1>1, <1>2, PTL DEF TradeSpec, Spec, KycSpec

\* Whichever of the two services runs, orders, the chain, the user's row and the
\* calls in flight keep the values their columns and types allow.
THEOREM TradeTypeCorrect == TradeSpec => []AllTypesOK
<1>1. TypeOK /\ KycTypeOK => AllTypesOK
  BY DEF AllTypesOK
<1> QED BY <1>1, TradeRunsApart, TypeCorrect, KycTypeCorrect, PTL
=============================================================================
