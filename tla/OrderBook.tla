----------------------------- MODULE OrderBook -----------------------------
(***************************************************************************)
(* The order book of one token: the orders table, the handlers of          *)
(* OrdersService that move a row from active to fulfilled, cancelled or    *)
(* expired, and the readers of the book that repair it on the way (wallet  *)
(* listings, collection listings).  Trades happen on the chain, between    *)
(* wallets; the backend is told afterwards or finds out.                   *)
(*                                                                         *)
(* A handler is a call: one action per await.  Every save writes the row   *)
(* as the call read it, with its new status.                               *)
(***************************************************************************)
EXTENDS Integers, FiniteSets

CONSTANTS Asks, Bids,    \* signed orders, by their Seaport hash
          Wallets,
          Offerer,       \* the wallet that signed an order
          Price,         \* USDC amount of an order
          FullTake,      \* asks that pay the platform first (legacy self-vault)
          Short,         \* orders whose endTime a behaviour may reach
          Resting,       \* orders in the book at the start
          HoldPolicy,    \* the token's settlement_policy is self_vault_hold
          Calls,         \* handlers in flight at a time
          None,
          MaxCalls,      \* bound: calls in a behaviour
          MaxFaults      \* bound: calls that throw or die

Orders == Asks \cup Bids

ASSUME OrdersAssumption ==
  /\ IsFiniteSet(Asks) /\ IsFiniteSet(Calls)
  /\ Asks \cap Bids = {}
  /\ Offerer \in [Orders -> Wallets]
  /\ Price \in [Orders -> Nat]
  /\ FullTake \subseteq Asks
  /\ Short \subseteq Orders
  /\ Resting \subseteq Orders /\ Cardinality(Resting \cap Asks) <= 1
  /\ HoldPolicy \in BOOLEAN
  /\ None \notin Orders \cup Wallets
  /\ MaxCalls \in Nat /\ MaxFaults \in Nat

VARIABLES
  status,    \* orders.status; "none": no row
  buyer,     \* parameters._filledByBuyer of a row
  ledger,    \* buyer_wallet of the self_vault_settlements row of an ask
  index,     \* rwa_tokens.owner_wallet
  owner,     \* ownerOf on the chain
  filled,    \* Seaport's getOrderStatus: fully filled
  elapsed,   \* the endTime of the short orders has passed
  op, pc, at, mate, who, cands,   \* of a call: see Begin
  started, faults,
  held,      \* history: wallets that have held the token
  moved,     \* history: while its row existed, an ask's token was out of the
             \* seller's wallet; a bid's token was in the bidder's
  overlaps   \* history: calls about to list when another call listed

book   == <<status, buyer>>
chain  == <<owner, filled, elapsed>>
hist   == <<held, moved, overlaps>>
locals == <<op, at, mate, who, cands>>
budget == <<started, faults>>
vars   == <<book, ledger, index, chain, pc, locals, budget, hist>>

Terminal == {"fulfilled", "cancelled", "expired"}
Statuses == Terminal \cup {"none", "active"}
Ops == {"post", "replace", "cancel", "dead", "unowned", "fulfill", "pair",
        "reconcile", "drop", "sweep"}
PairPcs == {"readask", "readbid", "settle", "settlebid", "pairsave", "clear"}
Pcs == PairPcs \cup {"ledger", "record", "idle", "own", "stale", "staleowner", "stalesave",
        "stalerecord", "exists", "cross", "insert", "oldread", "commit", "read",
        "fund", "seller", "save", "fillsave", "consumed", "find", "candidates",
        "selffill", "repair", "sweep"}

Live(S)    == {o \in S : status[o] = "active"}
Late(o)    == elapsed /\ o \in Short
Listed     == {o \in Orders : status[o] # "none"}

\* The token is not with the seller of an ask; it is with the bidder of a bid.
Away(o, w) == IF o \in Asks THEN w # Offerer[o] ELSE w = Offerer[o]

Init ==
  /\ status = [o \in Orders |-> IF o \in Resting THEN "active" ELSE "none"]
  /\ buyer = [o \in Orders |-> None]
  /\ ledger = [a \in Asks |-> None]
  /\ owner \in {Offerer[a] : a \in Asks}   \* with a wallet that may list it
  /\ index = owner /\ held = {owner}
  /\ filled = [o \in Orders |-> FALSE]
  /\ elapsed = FALSE
  /\ op = [j \in Calls |-> "post"]
  /\ pc = [j \in Calls |-> "idle"]
  /\ at = [j \in Calls |-> None]
  /\ mate = [j \in Calls |-> None]
  /\ who = [j \in Calls |-> None]
  /\ cands = [j \in Calls |-> {}]
  /\ started = 0 /\ faults = 0
  /\ moved = [o \in Orders |-> o \in Resting /\ Away(o, owner)]
  /\ overlaps = 0

-----------------------------------------------------------------------------
(* The chain: Seaport and the token.  A row that was ever in the book can   *)
(* be filled from a page loaded before it was cancelled.                    *)

MoveTo(w) ==
  /\ owner' = w
  /\ held' = held \cup {w}
  /\ moved' = [o \in Orders |-> moved[o] \/ (o \in Listed /\ Away(o, w))]

Transfer == \E w \in Wallets \ {owner} :
  /\ MoveTo(w)
  /\ UNCHANGED <<book, ledger, index, filled, elapsed, pc, locals, budget, overlaps>>

Fillable(o) == o \in Listed /\ ~filled[o] /\ ~Late(o)

Fill(S, w) ==
  /\ \A o \in S : Fillable(o)
  /\ filled' = [o \in Orders |-> filled[o] \/ o \in S]
  /\ MoveTo(w)
  /\ UNCHANGED <<book, ledger, index, elapsed, pc, locals, budget, overlaps>>

FillAsk(a) == owner = Offerer[a] /\ \E w \in Wallets : Fill({a}, w)
FillBid(b) == Fill({b}, Offerer[b])
Match(a, b) ==
  /\ owner = Offerer[a]
  /\ Price[b] >= Price[a]
  /\ Fill({a, b}, Offerer[b])

Elapse ==
  /\ ~elapsed
  /\ elapsed' = TRUE
  /\ UNCHANGED <<book, ledger, index, owner, filled, pc, locals, budget, hist>>

-----------------------------------------------------------------------------
(* Calls.                                                                   *)

Go(j, p) == pc' = [pc EXCEPT ![j] = p]

\* A new call: what it does, on which order, with which other order, for whom.
Begin(j, o, k, m, w, p) ==
  /\ pc[j] = "idle"
  /\ started < MaxCalls
  /\ started' = started + 1
  /\ op' = [op EXCEPT ![j] = k]
  /\ at' = [at EXCEPT ![j] = o]
  /\ mate' = [mate EXCEPT ![j] = m]
  /\ who' = [who EXCEPT ![j] = w]
  /\ Go(j, p)
  /\ UNCHANGED <<book, ledger, index, chain, faults, hist>>

Finish(j) ==
  /\ Go(j, "idle")
  /\ op' = [op EXCEPT ![j] = "post"]
  /\ at' = [at EXCEPT ![j] = None]
  /\ mate' = [mate EXCEPT ![j] = None]
  /\ who' = [who EXCEPT ![j] = None]
  /\ cands' = [cands EXCEPT ![j] = {}]

\* An error: of the pair attempt of a reconcile, which goes to the next
\* candidate, or of the whole call.
Abandon(j) ==
  IF op[j] = "reconcile" /\ pc[j] \in PairPcs
    THEN Go(j, "candidates") /\ UNCHANGED locals
    ELSE Finish(j)

Step(j, p) == Go(j, p) /\ UNCHANGED locals

Check(j, ok, p) == IF ok THEN Step(j, p) ELSE Abandon(j)

ReadOnly == UNCHANGED <<book, ledger, index, chain, budget, hist>>

\* The whole row, as it was read: active, with no buyer named.
Save(o, s) == status' = [status EXCEPT ![o] = s] /\ buyer' = [buyer EXCEPT ![o] = None]

-----------------------------------------------------------------------------
(* Listing: createOrder, replaceSellerListing, replaceBuyerBid.             *)

Post(j, o) == /\ Begin(j, o, "post", None, None, IF o \in Asks THEN "own" ELSE "cross")
              /\ UNCHANGED cands

Replace(j, old, new) ==
  /\ old \in Listed /\ old # new
  /\ (old \in Asks) = (new \in Asks)
  /\ Offerer[old] = Offerer[new]
  /\ Begin(j, new, "replace", old, None, IF new \in Asks THEN "own" ELSE "cross")
  /\ UNCHANGED cands

AfterCheck(j, p) == IF op[j] = "replace" THEN "oldread" ELSE p

OwnsToken(j) ==
  /\ pc[j] = "own"
  /\ Check(j, owner = Offerer[at[j]], AfterCheck(j, "stale"))
  /\ ReadOnly

Crosses(o) == \E a \in Live(Asks) : ~Late(a) /\ Price[a] <= Price[o]

CrossCheck(j) ==
  /\ pc[j] = "cross"
  /\ Check(j, ~Crosses(at[j]), AfterCheck(j, "insert"))
  /\ ReadOnly

\* cancelActiveAskIfOffererUnowned: read an ask, ask the chain, save, record.
FindStale(j) ==
  /\ pc[j] = "stale"
  /\ \/ Live(Asks) = {} /\ Step(j, "exists")
     \/ \E a \in Live(Asks) :
          /\ mate' = [mate EXCEPT ![j] = a]
          /\ Go(j, "staleowner")
          /\ UNCHANGED <<op, at, who, cands>>
  /\ ReadOnly

StaleOwner(j) ==
  /\ pc[j] = "staleowner"
  /\ \/ owner = Offerer[mate[j]] /\ Step(j, "exists")
     \/ /\ owner # Offerer[mate[j]]
        /\ who' = [who EXCEPT ![j] = owner]
        /\ Go(j, "stalesave")
        /\ UNCHANGED <<op, at, mate, cands>>
  /\ ReadOnly

StaleSave(j) ==
  /\ pc[j] = "stalesave"
  /\ Save(mate[j], "cancelled")
  /\ Step(j, "stalerecord")
  /\ UNCHANGED <<ledger, index, chain, budget, hist>>

StaleRecord(j) ==
  /\ pc[j] = "stalerecord"
  /\ index' = who[j]
  /\ Step(j, "exists")
  /\ UNCHANGED <<book, ledger, chain, budget, hist>>

NothingChecked == TRUE
NoneListed == Live(Asks) = {}

ExistsCheck(j) ==
  /\ pc[j] = "exists"
  /\ Check(j, NoneListed, "insert")
  /\ ReadOnly

\* Other calls past their checks and about to list an ask.
AboutToList(j) == {k \in Calls \ {j} : pc[k] \in {"insert", "commit"} /\ at[k] \in Asks}

NewRow(j) ==
  /\ moved' = [moved EXCEPT ![at[j]] = Away(at[j], owner)]
  /\ overlaps' = overlaps + (IF at[j] \in Asks THEN Cardinality(AboutToList(j)) ELSE 0)
  /\ UNCHANGED held

\* persistOrder: order_hash is unique, a second insert is a conflict.
HashFree(o) == status[o] = "none"

Insert(j) ==
  /\ pc[j] = "insert"
  /\ \/ HashFree(at[j]) /\ Save(at[j], "active") /\ NewRow(j)
     \/ ~HashFree(at[j]) /\ UNCHANGED <<book, hist>>
  /\ Finish(j)
  /\ UNCHANGED <<ledger, index, chain, budget>>

OldRead(j) ==
  /\ pc[j] = "oldread"
  /\ Check(j, status[mate[j]] = "active", "commit")
  /\ ReadOnly

\* One transaction cancels the old row and inserts the new one, or neither.
Commit(j) ==
  /\ pc[j] = "commit"
  /\ \/ /\ HashFree(at[j])
        /\ status' = [status EXCEPT ![mate[j]] = "cancelled", ![at[j]] = "active"]
        /\ buyer' = [buyer EXCEPT ![mate[j]] = None]
        /\ NewRow(j)
     \/ ~HashFree(at[j]) /\ UNCHANGED <<book, hist>>
  /\ Finish(j)
  /\ UNCHANGED <<ledger, index, chain, budget>>

-----------------------------------------------------------------------------
(* Calls on a row of the book: each reads it and goes on if it is active.    *)

\* What follows the read of an active row.
AfterRead == [cancel |-> "save", dead |-> "fund", unowned |-> "seller",
              fulfill |-> "settle", reconcile |-> "consumed", drop |-> "consumed"]

Call(j, o, k, w) == o \in Listed /\ Begin(j, o, k, None, w, "read") /\ UNCHANGED cands

Cancel(j, o)    == Call(j, o, "cancel", None)
Dead(j, b)      == Call(j, b, "dead", None)
Unowned(j, a)   == Call(j, a, "unowned", None)
Reconcile(j, o) == Call(j, o, "reconcile", None)
\* The frontend reports a trade with the wallet that received the token.
Fulfill(j, o)   == \E w \in held : Call(j, o, "fulfill", w)
\* A collection page leaves out asks whose seller is not the indexed owner.
Drop(j, o)      == (o \in Asks => index = Offerer[o]) /\ Call(j, o, "drop", None)

Pair(j, a, b) ==
  /\ {a, b} \subseteq Listed
  /\ Begin(j, a, "pair", b, Offerer[b], "readask")
  /\ UNCHANGED cands

Read(j) ==
  /\ pc[j] = "read"
  /\ Check(j, status[at[j]] = "active", AfterRead[op[j]])
  /\ ReadOnly

\* invalidateDeadBid: balance and allowance may be short, the end time passed.
Fund(j) ==
  /\ pc[j] = "fund"
  /\ \/ Step(j, "save")
     \/ ~Late(at[j]) /\ Finish(j)
  /\ ReadOnly

Seller(j) ==
  /\ pc[j] = "seller"
  /\ \/ owner = Offerer[at[j]] /\ Finish(j)
     \/ /\ owner # Offerer[at[j]]
        /\ who' = [who EXCEPT ![j] = owner]
        /\ Go(j, "save")
        /\ UNCHANGED <<op, at, mate, cands>>
  /\ ReadOnly

SaveCancelled(j) ==
  /\ pc[j] = "save"
  /\ Save(at[j], "cancelled")
  /\ IF op[j] = "unowned" THEN Step(j, "record") ELSE Finish(j)
  /\ UNCHANGED <<ledger, index, chain, budget, hist>>

RecordMate(j) ==
  /\ pc[j] = "record"
  /\ index' = mate[j]
  /\ Finish(j)
  /\ UNCHANGED <<book, ledger, chain, budget, hist>>

Record(j) ==
  /\ pc[j] = "record"
  /\ index' = who[j]
  /\ Finish(j)
  /\ UNCHANGED <<book, ledger, chain, budget, hist>>

-----------------------------------------------------------------------------
(* fulfillOrder and fulfillMatchedPair.                                     *)

Ask(j) == IF at[j] \in Asks THEN at[j] ELSE mate[j]
Bid(j) == IF at[j] \in Bids THEN at[j] ELSE mate[j]

AskWithBuyer(a, w) == filled[a] \/ owner = w
\* assertOrderSettledForFulfill: filled, or the buyer has the seller's token.
AskSettled(a, w) == filled[a] \/ (owner = w /\ owner # Offerer[a])
BidSettled(b) == filled[b] \/ owner = Offerer[b]

ReadAsk(j) ==
  /\ pc[j] = "readask"
  /\ Check(j, status[Ask(j)] = "active", "readbid")
  /\ ReadOnly

ReadBid(j) ==
  /\ pc[j] = "readbid"
  /\ Check(j, status[Bid(j)] = "active", "settle")
  /\ ReadOnly

Settle(j) ==
  /\ pc[j] = "settle"
  /\ IF op[j] = "fulfill"
       THEN Check(j, IF at[j] \in Asks THEN AskSettled(at[j], who[j])
                     ELSE filled[at[j]] /\ ~HoldPolicy, "fillsave")
       ELSE Check(j, AskSettled(Ask(j), who[j]), "settlebid")
  /\ ReadOnly

SettleBid(j) ==
  /\ pc[j] = "settlebid"
  /\ Check(j, BidSettled(Bid(j)) /\ Price[Bid(j)] >= Price[Ask(j)], "pairsave")
  /\ ReadOnly

\* Both rows fulfilled, or the one; the ask names its buyer.
SaveFilled(S, w) ==
  /\ status' = [o \in Orders |-> IF o \in S THEN "fulfilled" ELSE status[o]]
  /\ buyer' = [o \in Orders |-> IF o \in S \cap Asks THEN w ELSE buyer[o]]

FillSave(j) ==
  /\ \/ pc[j] = "fillsave" /\ SaveFilled({at[j]}, who[j])
     \/ pc[j] = "pairsave" /\ SaveFilled({Ask(j), Bid(j)}, who[j])
  /\ Step(j, "clear")
  /\ UNCHANGED <<ledger, index, chain, budget, hist>>

\* UPDATE ... WHERE status = active: the other asks of the token.
Clear(j) ==
  /\ pc[j] = "clear"
  /\ status' = [o \in Orders |->
                  IF o \in Live(Asks) \ {Ask(j)} THEN "cancelled" ELSE status[o]]
  /\ Step(j, IF op[j] = "fulfill" /\ at[j] \in Bids THEN "record" ELSE "ledger")
  /\ UNCHANGED <<buyer, ledger, index, chain, budget, hist>>

\* Only an ask that paid the platform in full owes its seller a payout.
OwedAny(a) == a \in Asks
Owed(a) == a \in FullTake

\* maybeCreateSelfVaultSettlement: one row per ask; an error is logged only.
LedgerRow(j) ==
  /\ pc[j] = "ledger"
  /\ Step(j, "record")
  /\ \/ /\ ledger' = [ledger EXCEPT ![Ask(j)] =
                        IF Owed(Ask(j)) /\ @ = None THEN who[j] ELSE @]
        /\ UNCHANGED faults
     \/ faults < MaxFaults /\ faults' = faults + 1 /\ UNCHANGED ledger
  /\ UNCHANGED <<book, index, chain, started, hist>>

-----------------------------------------------------------------------------
(* Reads that repair: a wallet's listings and bids, a collection's page.     *)

AskConsumed(a) == filled[a] \/ owner # Offerer[a]

ConsumedOnChain(o) ==
  \/ filled[o]
  \/ o \in Asks /\ AskConsumed(o)
  \/ o \in Bids /\ BidSettled(o) /\ \E a \in Asks \cap Listed : AskConsumed(a)

Consumed(j) ==
  /\ pc[j] = "consumed"
  /\ IF op[j] = "drop" THEN Check(j, filled[at[j]], "repair")
                       ELSE Check(j, ConsumedOnChain(at[j]), "find")
  /\ ReadOnly

FindPairs(j) ==
  /\ pc[j] = "find"
  /\ cands' = [cands EXCEPT ![j] = Live(IF at[j] \in Asks THEN Bids ELSE Asks)]
  /\ Go(j, "candidates")
  /\ UNCHANGED <<op, at, mate, who>>
  /\ ReadOnly

Fits(o, c) == IF o \in Asks THEN BidSettled(c) ELSE AskConsumed(c) /\ BidSettled(o)

Candidate(j) ==
  /\ pc[j] = "candidates"
  /\ \/ \E c \in cands[j] :
          /\ cands' = [cands EXCEPT ![j] = @ \ {c}]
          /\ mate' = [mate EXCEPT ![j] = c]
          /\ who' = [who EXCEPT ![j] = Offerer[IF c \in Bids THEN c ELSE at[j]]]
          /\ Go(j, IF Fits(at[j], c) THEN "readask" ELSE "candidates")
          /\ UNCHANGED <<op, at>>
     \/ cands[j] = {} /\ Step(j, "selffill")
  /\ ReadOnly

\* A filled ask whose token stayed where it was, or could not be read: the seller
\* bought it.
SelfFill(j) ==
  /\ pc[j] = "selffill"
  /\ \E read \in BOOLEAN :
       /\ who' = [who EXCEPT ![j] =
            IF at[j] \in Asks /\ filled[at[j]] /\ (read => owner = Offerer[at[j]])
              THEN Offerer[at[j]] ELSE None]
       /\ read \/ faults < MaxFaults
       /\ faults' = faults + (IF read THEN 0 ELSE 1)
  /\ Go(j, "repair")
  /\ UNCHANGED <<op, at, mate, cands, book, ledger, index, chain, started, hist>>

Repair(j) ==
  /\ pc[j] = "repair"
  /\ SaveFilled({at[j]}, who[j])
  /\ Finish(j)
  /\ UNCHANGED <<ledger, index, chain, budget, hist>>

-----------------------------------------------------------------------------
(* A redeem or an admin action takes the token out of the book: every active *)
(* row is read, then saved, one await each.                                  *)

Sweep(j) ==
  /\ Live(Orders) # {}
  /\ cands' = [cands EXCEPT ![j] = Live(Orders)]
  /\ Begin(j, None, "sweep", None, None, "sweep")

SweepSave(j) ==
  /\ pc[j] = "sweep"
  /\ \E o \in cands[j] :
       /\ Save(o, "cancelled")
       /\ IF cands[j] = {o}
            THEN Finish(j)
            ELSE /\ cands' = [cands EXCEPT ![j] = @ \ {o}]
                 /\ UNCHANGED <<pc, op, at, mate, who>>
  /\ UNCHANGED <<ledger, index, chain, budget, hist>>

\* expireOrders, every minute: one UPDATE of the active rows past their end.
DueRows == {o \in Listed : Late(o)}
Due == {o \in Live(Orders) : Late(o)}

Expire ==
  /\ Due # {}
  /\ status' = [o \in Orders |-> IF o \in Due THEN "expired" ELSE status[o]]
  /\ UNCHANGED <<buyer, ledger, index, chain, pc, locals, budget, hist>>

\* An RPC or database error, or the process stops.
Fails(j) ==
  /\ pc[j] # "idle"
  /\ faults < MaxFaults
  /\ faults' = faults + 1
  /\ Abandon(j) \/ Finish(j)
  /\ UNCHANGED <<book, ledger, index, chain, started, hist>>

-----------------------------------------------------------------------------
Start(j) ==
  \/ \E o \in Orders : Post(j, o) \/ Cancel(j, o) \/ Fulfill(j, o)
                         \/ Reconcile(j, o) \/ Drop(j, o)
  \/ \E old, new \in Orders : Replace(j, old, new)
  \/ \E b \in Bids : Dead(j, b)
  \/ \E a \in Asks : Unowned(j, a)
  \/ \E a \in Asks, b \in Bids : Pair(j, a, b)
  \/ Sweep(j)

Continue(j) ==
  \/ OwnsToken(j) \/ CrossCheck(j) \/ FindStale(j) \/ StaleOwner(j)
  \/ StaleSave(j) \/ StaleRecord(j) \/ ExistsCheck(j) \/ Insert(j)
  \/ OldRead(j) \/ Commit(j) \/ Read(j) \/ Fund(j) \/ Seller(j)
  \/ SaveCancelled(j) \/ Record(j) \/ ReadAsk(j) \/ ReadBid(j) \/ Settle(j)
  \/ SettleBid(j) \/ FillSave(j) \/ Clear(j) \/ LedgerRow(j) \/ Consumed(j)
  \/ FindPairs(j) \/ Candidate(j) \/ SelfFill(j) \/ Repair(j) \/ SweepSave(j)

OnChain ==
  \/ Transfer
  \/ \E a \in Asks : FillAsk(a)
  \/ \E b \in Bids : FillBid(b)
  \/ \E a \in Asks, b \in Bids : Match(a, b)
  \/ Elapse

Next ==
  \/ \E j \in Calls : Start(j) \/ Continue(j) \/ Fails(j)
  \/ OnChain
  \/ Expire

Spec == Init /\ [][Next]_vars

-----------------------------------------------------------------------------
(* Properties.                                                              *)

TypeOK ==
  /\ status \in [Orders -> Statuses]
  /\ buyer \in [Orders -> Wallets \cup {None}]
  /\ ledger \in [Asks -> Wallets \cup {None}]
  /\ index \in Wallets
  /\ owner \in Wallets
  /\ filled \in [Orders -> BOOLEAN]
  /\ elapsed \in BOOLEAN
  /\ op \in [Calls -> Ops]
  /\ pc \in [Calls -> Pcs]
  /\ at \in [Calls -> Orders \cup {None}]
  /\ mate \in [Calls -> Orders \cup {None}]
  /\ who \in [Calls -> Wallets \cup {None}]
  /\ cands \in [Calls -> SUBSET Orders]
  /\ started \in 0..MaxCalls
  /\ faults \in 0..MaxFaults
  /\ held \subseteq Wallets
  /\ moved \in [Orders -> BOOLEAN]
  /\ overlaps \in Nat

\* The book shows no sale without a cause on the chain: a fulfilled order was
\* filled by Seaport, or, while it was in the book, the ask's token was out of
\* the seller's wallet, the bid's token in the bidder's.
FulfilledWasConsumed ==
  \A o \in Orders : status[o] = "fulfilled" => filled[o] \/ moved[o]

\* The payout ledger names sales only: a row belongs to a full-take ask that was
\* consumed on the chain, and its buyer has held the token; so has the buyer a
\* row of the book names, and a row that is not fulfilled names none.
LedgerNamesSales ==
  /\ \A a \in Asks : ledger[a] # None =>
       a \in FullTake /\ (filled[a] \/ moved[a]) /\ ledger[a] \in held
  /\ \A o \in Orders : buyer[o] # None =>
       o \in Asks /\ status[o] = "fulfilled" /\ buyer[o] \in held

\* createOrder refuses a second live ask, but checks before it inserts: beyond
\* the first, every live ask of the token needs a call that was past its check
\* while another call listed.
LiveAsksAccounted == Cardinality(Live(Asks)) <= 1 + overlaps

\* The row a call is about to save, as it read it earlier.
Writes(j, o) ==
  \/ pc[j] \in {"save", "fillsave", "repair"} /\ o = at[j]
  \/ pc[j] \in {"stalesave", "commit"} /\ o = mate[j]
  \/ pc[j] = "pairsave" /\ o \in {at[j], mate[j]}
  \/ pc[j] = "sweep" /\ o \in cands[j]

\* A row that left the book never comes back, no bulk UPDATE touches it, and only
\* the save of a call that read it while it was active changes how it ended.
EndedRowsKept ==
  [][\A o \in Orders :
       status[o] \in Terminal /\ status'[o] # status[o] =>
         /\ status'[o] \in {"fulfilled", "cancelled"}
         /\ \E j \in Calls : /\ Writes(j, o)
                             /\ pc'[j] # pc[j] \/ cands'[j] # cands[j]]_vars

\* A sale of a full-take ask that its buyer reports has its row in the payout
\* ledger, or a call is about to write it, when the report finds the ask already
\* shown as fulfilled (and is refused).
ReportedSalesHaveLedger ==
  \A j \in Calls :
    /\ op[j] = "fulfill" /\ pc[j] = "read"
    /\ at[j] \in FullTake
    /\ filled[at[j]] /\ status[at[j]] = "fulfilled"
    => \/ ledger[at[j]] # None
       \/ \E k \in Calls : pc[k] \in {"clear", "ledger"} /\ Ask(k) = at[j]
=============================================================================
