---------------------------- MODULE RedeemBatch ----------------------------
(***************************************************************************)
(* One paid redeem batch, from the payment to its end: custody intake and  *)
(* receipt (rwa/rwa-redeem.service.ts), the burn                           *)
(* (marketplace/collections/rwa-token-admin.service.ts), tracking, memo,   *)
(* USDC refund and NFT return (marketplace/admin/redeems-admin.service.ts) *)
(* and the FedEx cron (rwa/redeem-delivery-track.service.ts).              *)
(*                                                                         *)
(* Every handler reads rows, awaits something (FedEx, an RPC, a mined      *)
(* transaction), and saves the rows it read with its changes; repo.save    *)
(* writes all their columns.  A job is one handler in flight; it moves     *)
(* from one await to the next, and any other job may run in between.       *)
(***************************************************************************)
EXTENDS Naturals, FiniteSets

CONSTANTS
  Cards,        \* the cards of the batch: one row, token and cycle each
  NoCard,       \* no current card
  Slots,        \* requests that may be in flight together
  Poll,         \* the FedEx cron: one run at a time (advisory lock)
  OwnerIndex,   \* whether the Transfer-log listener is switched on
  MaxRequests,  \* bound on the requests ever made
  MaxFaults     \* bound on restarts and failing calls

ASSUME CardsAssumption == IsFiniteSet(Cards) /\ Cards # {} /\ NoCard \notin Cards
ASSUME PollAssumption  == Poll \notin Slots
ASSUME FlagAssumption  == OwnerIndex \in BOOLEAN
ASSUME BoundAssumption == MaxRequests \in Nat /\ MaxFaults \in Nat

Jobs == Slots \cup {Poll}

Statuses == {"ownership_verified", "in_custody", "burned", "completed",
             "refunded"}
Blocked  == {"burned", "completed"}     \* BLOCKED_REFUND_STATUSES
Eligible == {"in_custody", "burned"}    \* TRACK_ELIGIBLE_STATUSES
Terminal == {"completed", "refunded"}
Refunds  == {"none", "usdc_refunded", "nft_returned", "fully_refunded"}
PaidBack == {"usdc_refunded", "fully_refunded"}

Rows == [status : Statuses, refund : Refunds, custody : BOOLEAN,
         tracked : BOOLEAN, delivered : BOOLEAN, returned : BOOLEAN]

\* insertPaidRedemptionRow
PaidRow == [status |-> "ownership_verified", refund |-> "none",
            custody |-> FALSE, tracked |-> FALSE, delivered |-> FALSE,
            returned |-> FALSE]

VARIABLES
  row,     \* vault_redemptions: the rows of the batch
  token,   \* rwa_tokens: "active" or "burned" (burned_at set)
  cycle,   \* vault_cycles: the status of each card's cycle
  owner,   \* the chain: who owns each NFT
  sent,    \* the chain: USDC refunds of this batch
  op,      \* jobs: the handler each one runs,
  pc,      \* the await it stands at,
  snap,    \* the rows it will save,
  part,    \* whose cards these are,
  rest,    \* the cards its loop has still to visit,
  todo,    \* the cycles it has still to reset,
  at,      \* and its current card
  used,    \* history: requests so far,
  lost,    \* records of a refund that were lost,
  faults   \* and failures so far

db   == <<row, token, cycle>>
chain == <<owner, sent>>
jobs == <<op, pc, snap, part, rest, todo, at>>
hist == <<used, lost, faults>>
vars == <<db, chain, jobs, hist>>

Ops == {"none", "edit", "usdc", "full", "returns", "nft", "custody",
        "receipt", "burn"}
Pcs == {"idle", "edit", "send_usdc", "save_usdc", "cycles", "reset", "list",
        "returns", "send_nft", "save_nft", "custody", "mark", "save_mark",
        "burns", "check", "burn", "record", "redeem", "find", "save_burn",
        "reload"}

TypeOK ==
  /\ row   \in [Cards -> Rows]
  /\ token \in [Cards -> {"active", "burned"}]
  /\ cycle \in [Cards -> {"redemption_requested", "minted", "redeemed"}]
  /\ owner \in [Cards -> {"user", "custody", "none"}]
  /\ sent  \in Nat
  /\ op    \in [Jobs -> Ops]
  /\ pc    \in [Jobs -> Pcs]
  /\ snap  \in [Jobs -> [Cards -> Rows]]
  /\ part  \in [Jobs -> SUBSET Cards]
  /\ rest  \in [Jobs -> SUBSET Cards]
  /\ todo  \in [Jobs -> SUBSET Cards]
  /\ at    \in [Jobs -> Cards \cup {NoCard}]
  /\ used \in Nat /\ lost \in Nat /\ faults \in Nat

NoRows == [c \in Cards |-> PaidRow]

Init ==
  /\ row   = NoRows
  /\ token = [c \in Cards |-> "active"]
  /\ cycle = [c \in Cards |-> "redemption_requested"]
  /\ owner = [c \in Cards |-> "user"]
  /\ sent  = 0
  /\ op    = [j \in Jobs |-> "none"]
  /\ pc    = [j \in Jobs |-> "idle"]
  /\ snap  = [j \in Jobs |-> NoRows]
  /\ part  = [j \in Jobs |-> {}]
  /\ rest  = [j \in Jobs |-> {}]
  /\ todo  = [j \in Jobs |-> {}]
  /\ at    = [j \in Jobs |-> NoCard]
  /\ used = 0 /\ lost = 0 /\ faults = 0

-----------------------------------------------------------------------------
(* Rows                                                                    *)

AllPaidBack(rows) == \A c \in Cards : rows[c].refund \in PaidBack

\* assertRefundable
Refundable(rows) == \A r \in rows : ~r.tracked /\ r.status \notin Blocked

WasEverInCustody(r) == r.custody \/ r.status = "in_custody"
NftReturned(r) == r.returned \/ r.refund \in {"nft_returned", "fully_refunded"}

\* applyUsdcRefundFields
UsdcRefunded(r) ==
  IF NftReturned(r) \/ ~WasEverInCustody(r)
  THEN [r EXCEPT !.refund = "fully_refunded", !.status = "refunded"]
  ELSE [r EXCEPT !.refund = "usdc_refunded"]

\* The assignments of returnNft after the transfer.
Returned(r) ==
  IF r.refund \in PaidBack
  THEN [r EXCEPT !.returned = TRUE, !.refund = "fully_refunded",
                 !.status = "refunded"]
  ELSE [r EXCEPT !.returned = TRUE, !.refund = "nft_returned"]

\* A mutated form of the next.
Released(r) == [r EXCEPT !.status = "released"]

\* markUserReceiptConfirmed; completeRedemptionBurn keeps 'completed'
Completed(r) == [r EXCEPT !.status = "completed"]
Burned(r) == IF r.status = "completed" THEN r ELSE [r EXCEPT !.status = "burned"]

\* confirmReceipt's gate; batchReadyForAutoReceipt asks for a delivery too.
Receivable(rows) ==
  \A c \in Cards : /\ rows[c].refund = "none"
                   /\ rows[c].status \in Eligible \cup {"completed"}
                   /\ rows[c].tracked
AllDelivered(rows) == \A c \in Cards : rows[c].delivered
Incomplete(rows) == {c \in Cards : rows[c].status # "completed"}

\* burnTokenOnChain looks for an open redemption of the token's cycle and
\* lets the burn go on when there is none.
BurnAllowed(r) ==
  r.status \in Terminal \/ (r.refund = "none" /\ r.status \in Eligible)

-----------------------------------------------------------------------------
(* Jobs                                                                    *)

Only(S, rows) == [c \in Cards |-> IF c \in S THEN rows[c] ELSE PaidRow]

\* Job j goes to await p, with what it holds there.
Hold(j, o, p, S, rows, R, T, c) ==
  /\ op'   = [op   EXCEPT ![j] = o]
  /\ pc'   = [pc   EXCEPT ![j] = p]
  /\ part' = [part EXCEPT ![j] = S]
  /\ snap' = [snap EXCEPT ![j] = Only(S, rows)]
  /\ rest' = [rest EXCEPT ![j] = R]
  /\ todo' = [todo EXCEPT ![j] = T]
  /\ at'   = [at   EXCEPT ![j] = c]

GoTo(j, p)     == Hold(j, op[j], p, part[j], snap[j], rest[j], todo[j], at[j])
WillSave(j, p, S, rows) == Hold(j, op[j], p, S, rows, rest[j], {}, at[j])
Loop(j, p, R)  == Hold(j, op[j], p, {}, NoRows, R, {}, NoCard)
Stop(j)        == Hold(j, "none", "idle", {}, NoRows, {}, {}, NoCard)

\* A mutated form of the next: the receipt's loop catches a failed burn.
CatchAndGoOn(j) ==
  IF op[j] = "receipt" THEN Loop(j, "burns", rest[j]) ELSE Stop(j)

\* The handler throws.  refundFullBatch catches what returnNft throws and
\* goes on with its next card; every other error ends the job.
Throw(j) ==
  IF op[j] # "returns" \/ pc[j] = "list" \/ (pc[j] = "returns" /\ rest[j] = {})
  THEN Stop(j)
  ELSE IF pc[j] = "returns"
  THEN \E c \in rest[j] : Loop(j, "returns", rest[j] \ {c})
  ELSE Loop(j, "returns", rest[j])

FreeSlot == CHOOSE j \in Slots : pc[j] = "idle"

\* A new request takes a free slot, and free slots are alike; the cron is not a
\* request.
Starts(j) ==
  /\ pc[j] = "idle"
  /\ IF j = Poll THEN UNCHANGED used
     ELSE j = FreeSlot /\ used < MaxRequests /\ used' = used + 1

\* repo.save: the rows of part, whole, over whatever they are by now.
Write(j) ==
  /\ row' = [c \in Cards |-> IF c \in part[j] THEN snap[j][c] ELSE row[c]]
  /\ lost' = IF AllPaidBack(row) /\ ~AllPaidBack(row') THEN lost + 1 ELSE lost

-----------------------------------------------------------------------------
(* Read, change, save                                                      *)

Edit(j, S, rows) ==
  /\ Starts(j)
  /\ S # {}
  /\ Hold(j, "edit", "edit", S, rows, {}, {}, NoCard)
  /\ UNCHANGED <<db, chain, lost, faults>>

\* updateMemo, updateMemoBatch
UpdateMemo(j, S) ==
  /\ j # Poll
  /\ S = Cards \/ \E c \in Cards : S = {c}
  /\ Edit(j, S, row)

\* updateTracking takes any card; updateTrackingBatch the cards of one
\* shipment that are still active.
UpdateTracking(j, S) ==
  /\ j # Poll
  /\ \/ \E c \in Cards : S = {c}
     \/ \A c \in S : row[c].status \notin Terminal
  /\ Edit(j, S, [c \in Cards |-> [row[c] EXCEPT !.tracked = TRUE]])

\* confirmVaultRelease
ConfirmVaultRelease(j, c) ==
  /\ j # Poll
  /\ row[c].status = "burned"
  /\ Edit(j, {c}, [row EXCEPT ![c].status = "completed"])

\* stampCarrierDelivered, after FedEx has answered
StampDelivered(S) ==
  /\ \A c \in S : /\ row[c].status \in Eligible
                  /\ row[c].tracked /\ ~row[c].delivered
                  /\ row[c].refund = "none"
  /\ Edit(Poll, S, [c \in Cards |-> [row[c] EXCEPT !.delivered = TRUE]])

SaveEdit(j) ==
  /\ pc[j] = "edit"
  /\ Write(j)
  /\ Stop(j)
  /\ UNCHANGED <<token, cycle, chain, used, faults>>

-----------------------------------------------------------------------------
(* Refunds                                                                 *)

\* withBatchLock: a promise chain per batch, in this process.
InRefund(j) == op[j] \in {"usdc", "full"}
\* Mutated forms of the two below, each a plausible bug in the code.
NoLock == TRUE
AlreadyNeedsNft(rows) == \A c \in Cards : rows[c].refund = "fully_refunded"

LockFree == \A j \in Jobs : ~InRefund(j)

AlreadyRefunded(rows) == AllPaidBack(rows)

\* refundUsdcBatch, and refundFullBatch which starts with it
RefundRead(j, o) ==
  /\ j # Poll
  /\ o \in {"usdc", "full"}
  /\ Starts(j)
  /\ LockFree
  /\ Refundable({row[c] : c \in Cards})
  /\ IF AlreadyRefunded(row)
     THEN o = "full" /\ Hold(j, "returns", "list", {}, NoRows, {}, {}, NoCard)
     ELSE Hold(j, o, "send_usdc", Cards, row, {}, {}, NoCard)
  /\ UNCHANGED <<db, chain, lost, faults>>

RefundSend(j) ==
  /\ pc[j] = "send_usdc"
  /\ sent' = sent + 1
  /\ WillSave(j, "save_usdc", part[j],
              [c \in Cards |-> UsdcRefunded(snap[j][c])])
  /\ UNCHANGED <<db, owner, hist>>

SaveRefund(j) ==
  /\ pc[j] \in {"save_usdc", "save_nft"}
  /\ Write(j)
  /\ GoTo(j, "cycles")
  /\ UNCHANGED <<token, cycle, chain, used, faults>>

\* resetCyclesIfRefunded: find the cycles, then save them one by one.
FindCycles(j) ==
  /\ pc[j] = "cycles"
  /\ Hold(j, op[j], "reset", {}, NoRows, rest[j],
          {c \in part[j] : /\ snap[j][c].status = "refunded"
                           /\ cycle[c] = "redemption_requested"}, NoCard)
  /\ UNCHANGED <<db, chain, hist>>

ResetCycle(j, c) ==
  /\ pc[j] = "reset"
  /\ c \in todo[j]
  /\ cycle' = [cycle EXCEPT ![c] = "minted"]
  /\ todo' = [todo EXCEPT ![j] = @ \ {c}]
  /\ UNCHANGED <<row, token, chain, op, pc, snap, part, rest, at, hist>>

\* The handler returns; refundFullBatch goes on to its NFTs.
ResetDone(j) ==
  /\ pc[j] = "reset"
  /\ todo[j] = {}
  /\ CASE op[j] = "full"    -> Hold(j, "returns", "list", {}, NoRows, {}, {},
                                    NoCard)
       [] op[j] = "returns" -> Loop(j, "returns", rest[j])
       [] OTHER             -> Stop(j)
  /\ UNCHANGED <<db, chain, hist>>

\* refundFullBatch reads the rows again and visits those still in custody.
ListReturns(j) ==
  /\ pc[j] = "list"
  /\ Loop(j, "returns", {c \in Cards : ~row[c].returned /\ WasEverInCustody(row[c])})
  /\ UNCHANGED <<db, chain, hist>>

ReturnsDone(j) ==
  /\ pc[j] = "returns"
  /\ rest[j] = {}
  /\ Stop(j)
  /\ UNCHANGED <<db, chain, hist>>

Returnable(r) == Refundable({r}) /\ ~r.returned /\ WasEverInCustody(r)

\* returnNft from the admin page
ReturnNft(j, c) ==
  /\ j # Poll
  /\ Starts(j)
  /\ Returnable(row[c])
  /\ Hold(j, "nft", "send_nft", {c}, row, {}, {}, c)
  /\ UNCHANGED <<db, chain, lost, faults>>

\* returnNft from refundFullBatch
ReturnNext(j, c) ==
  /\ pc[j] = "returns"
  /\ c \in rest[j]
  /\ IF Returnable(row[c])
     THEN Hold(j, "returns", "send_nft", {c}, row, rest[j] \ {c}, {}, c)
     ELSE Loop(j, "returns", rest[j] \ {c})
  /\ UNCHANGED <<db, chain, hist>>

\* safeTransferFromCustody asks the chain for the owner first.
ReturnSend(j) ==
  /\ pc[j] = "send_nft"
  /\ IF owner[at[j]] = "custody"
     THEN /\ owner' = [owner EXCEPT ![at[j]] = "user"]
          /\ WillSave(j, "save_nft", part[j],
                      [c \in Cards |-> Returned(snap[j][c])])
     ELSE Throw(j) /\ UNCHANGED owner
  /\ UNCHANGED <<db, sent, hist>>

-----------------------------------------------------------------------------
(* Custody intake                                                          *)

\* confirmCustodyTransfers
ConfirmCustody(j) ==
  LET pending == {c \in Cards : row[c].status = "ownership_verified"}
  IN
  /\ j # Poll
  /\ Starts(j)
  /\ \A c \in Cards : row[c].refund = "none" /\ row[c].status # "refunded"
  /\ pending # {}
  /\ Hold(j, "custody", "custody", {}, NoRows, pending, {}, NoCard)
  /\ UNCHANGED <<db, chain, lost, faults>>

\* The owner on chain; a card that is not in custody ends the request.
LookAtOwner(j, c) ==
  /\ pc[j] = "custody"
  /\ c \in rest[j]
  /\ IF owner[c] = "custody"
     THEN Hold(j, "custody", "mark", {}, NoRows, rest[j] \ {c}, {}, c)
     ELSE Stop(j)
  /\ UNCHANGED <<db, chain, hist>>

\* markCustodyReceived reads the row itself
MarkRead(j) ==
  LET r == row[at[j]]
  IN
  /\ pc[j] = "mark"
  /\ CASE r.status = "in_custody" /\ r.custody -> Loop(j, "custody", rest[j])
       [] r.status = "ownership_verified" ->
            WillSave(j, "save_mark", {at[j]},
                     [row EXCEPT ![at[j]].status = "in_custody",
                                 ![at[j]].custody = TRUE])
       [] OTHER -> Stop(j)
  /\ UNCHANGED <<db, chain, hist>>

SaveMark(j) ==
  /\ pc[j] = "save_mark"
  /\ Write(j)
  /\ Loop(j, "custody", rest[j])
  /\ UNCHANGED <<token, cycle, chain, used, faults>>

CustodyDone(j) ==
  /\ pc[j] = "custody"
  /\ rest[j] = {}
  /\ Stop(j)
  /\ UNCHANGED <<db, chain, hist>>

-----------------------------------------------------------------------------
(* Receipt and burn                                                        *)

\* confirmReceipt
ConfirmReceipt(j) ==
  /\ j # Poll
  /\ Starts(j)
  /\ Receivable(row)
  /\ Hold(j, "receipt", "burns", {}, NoRows, Cards, {}, NoCard)
  /\ UNCHANGED <<db, chain, lost, faults>>

\* autoConfirmDueBatches, some time after the grace period of the batch
AutoConfirm ==
  /\ Starts(Poll)
  /\ Receivable(row) /\ AllDelivered(row) /\ Incomplete(row) # {}
  /\ Hold(Poll, "receipt", "burns", {}, NoRows, Incomplete(row), {}, NoCard)
  /\ UNCHANGED <<db, chain, lost, faults>>

\* burnTokenOnChain from the admin panel
AdminBurn(j, c) ==
  /\ j # Poll
  /\ Starts(j)
  /\ token[c] = "active"
  /\ Hold(j, "burn", "check", {}, NoRows, {}, {}, c)
  /\ UNCHANGED <<db, chain, lost, faults>>

\* A mutated form of the next: the receipt uses burnTokenOnChain itself.
BurnNextUnlessBurned(j, c) ==
  /\ pc[j] = "burns"
  /\ c \in rest[j]
  /\ IF token[c] = "burned" THEN Throw(j)
     ELSE Hold(j, op[j], "check", {}, NoRows, rest[j] \ {c}, {}, c)
  /\ UNCHANGED <<db, chain, hist>>

\* ensureBurnedForRedeem skips a token that is recorded as burned.
BurnNext(j, c) ==
  /\ pc[j] = "burns"
  /\ c \in rest[j]
  /\ IF token[c] = "burned"
     THEN Loop(j, "burns", rest[j] \ {c})
     ELSE Hold(j, op[j], "check", {}, NoRows, rest[j] \ {c}, {}, c)
  /\ UNCHANGED <<db, chain, hist>>

CheckRedemption(j) ==
  /\ pc[j] = "check"
  /\ IF BurnAllowed(row[at[j]]) THEN GoTo(j, "burn") ELSE Throw(j)
  /\ UNCHANGED <<db, chain, hist>>

\* adminBurn: only an NFT in platform custody can be burned.
Burn(j) ==
  /\ pc[j] = "burn"
  /\ IF owner[at[j]] = "custody"
     THEN owner' = [owner EXCEPT ![at[j]] = "none"] /\ GoTo(j, "record")
     ELSE Throw(j) /\ UNCHANGED owner
  /\ UNCHANGED <<db, sent, hist>>

\* recordBurn, and the token of completeRedemptionBurn
RecordBurn(j) ==
  /\ pc[j] = "record"
  /\ token' = [token EXCEPT ![at[j]] = "burned"]
  /\ GoTo(j, "redeem")
  /\ UNCHANGED <<row, cycle, chain, hist>>

\* completeRedemptionBurn: the cycle
RedeemCycle(j) ==
  /\ pc[j] = "redeem"
  /\ cycle' = [cycle EXCEPT ![at[j]] = "redeemed"]
  /\ GoTo(j, "find")
  /\ UNCHANGED <<row, token, chain, hist>>

AfterBurn(j) == IF op[j] = "burn" THEN Stop(j) ELSE Loop(j, "burns", rest[j])

\* completeRedemptionBurn: the redemption.  A refunded row is not reopened:
\* a row outside this batch is inserted for the burn.
FindRedemption(j) ==
  /\ pc[j] = "find"
  /\ IF row[at[j]].status = "refunded"
     THEN AfterBurn(j)
     ELSE WillSave(j, "save_burn", {at[j]},
                   [row EXCEPT ![at[j]] = Burned(@)])
  /\ UNCHANGED <<db, chain, hist>>

SaveBurned(j) ==
  /\ pc[j] = "save_burn"
  /\ Write(j)
  /\ AfterBurn(j)
  /\ UNCHANGED <<token, cycle, chain, used, faults>>

BurnsDone(j) ==
  /\ pc[j] = "burns"
  /\ rest[j] = {}
  /\ GoTo(j, "reload")
  /\ UNCHANGED <<db, chain, hist>>

\* finalizeReceiptWithBurn reads the batch again and completes what is not.
Reload(j) ==
  /\ pc[j] = "reload"
  /\ WillSave(j, "edit",
              IF Incomplete(row) = {} THEN Cards ELSE Incomplete(row),
              [c \in Cards |-> Completed(row[c])])
  /\ UNCHANGED <<db, chain, hist>>

-----------------------------------------------------------------------------
(* Outside the handlers                                                    *)

\* The user signs safeTransferFrom(user, custody).
UserTransfers(c) ==
  /\ owner[c] = "user"
  /\ owner' = [owner EXCEPT ![c] = "custody"]
  /\ UNCHANGED <<db, sent, jobs, hist>>

\* The Transfer-log listener sees the burn.
ObserveBurn(c) ==
  /\ OwnerIndex
  /\ owner[c] = "none" /\ token[c] = "active"
  /\ token' = [token EXCEPT ![c] = "burned"]
  /\ UNCHANGED <<row, cycle, chain, jobs, hist>>

Unrecorded == {j \in Jobs : pc[j] = "save_usdc"}

\* An RPC or database call throws where the job stands.
Fail(j) ==
  /\ pc[j] # "idle"
  /\ faults < MaxFaults
  /\ faults' = faults + 1
  /\ lost' = IF j \in Unrecorded THEN lost + 1 ELSE lost
  /\ Throw(j)
  /\ UNCHANGED <<db, chain, used>>

\* The process restarts: all jobs are gone.
Crash ==
  /\ \E j \in Jobs : pc[j] # "idle"
  /\ faults < MaxFaults
  /\ faults' = faults + 1
  /\ lost' = IF Unrecorded # {} THEN lost + 1 ELSE lost
  /\ op'   = [j \in Jobs |-> "none"]
  /\ pc'   = [j \in Jobs |-> "idle"]
  /\ snap' = [j \in Jobs |-> NoRows]
  /\ part' = [j \in Jobs |-> {}]
  /\ rest' = [j \in Jobs |-> {}]
  /\ todo' = [j \in Jobs |-> {}]
  /\ at'   = [j \in Jobs |-> NoCard]
  /\ UNCHANGED <<db, chain, used>>

-----------------------------------------------------------------------------
Request(j) ==
  \/ \E S \in SUBSET Cards : UpdateMemo(j, S) \/ UpdateTracking(j, S)
  \/ \E c \in Cards : \/ ConfirmVaultRelease(j, c)
                      \/ ReturnNft(j, c)
                      \/ AdminBurn(j, c)
  \/ \E o \in {"usdc", "full"} : RefundRead(j, o)
  \/ ConfirmCustody(j)
  \/ ConfirmReceipt(j)

Cron == AutoConfirm \/ \E S \in SUBSET Cards : StampDelivered(S)

\* What a job does once it has started.
Proceed(j) ==
  \/ SaveEdit(j)
  \/ RefundSend(j) \/ SaveRefund(j) \/ FindCycles(j) \/ ResetDone(j)
  \/ ListReturns(j) \/ ReturnsDone(j) \/ ReturnSend(j)
  \/ MarkRead(j) \/ SaveMark(j) \/ CustodyDone(j)
  \/ CheckRedemption(j) \/ Burn(j) \/ RecordBurn(j) \/ RedeemCycle(j)
  \/ FindRedemption(j) \/ SaveBurned(j) \/ BurnsDone(j) \/ Reload(j)
  \/ \E c \in Cards : \/ ResetCycle(j, c) \/ ReturnNext(j, c)
                      \/ LookAtOwner(j, c) \/ BurnNext(j, c)

Next ==
  \/ \E j \in Slots : Request(j)
  \/ Cron
  \/ \E j \in Jobs : Proceed(j) \/ Fail(j)
  \/ Crash
  \/ \E c \in Cards : UserTransfers(c) \/ ObserveBurn(c)

Spec == Init /\ [][Next]_vars

\* Started handlers run on, the cron fires every five minutes, and the
\* listener, where it is on, polls for ever.  Nobody has to make a request.
Fairness ==
  /\ \A j \in Jobs : WF_vars(Proceed(j))
  /\ WF_vars(AutoConfirm)
  /\ \A c \in Cards : WF_vars(ObserveBurn(c))

FairSpec == Spec /\ Fairness

-----------------------------------------------------------------------------
(* Properties                                                              *)

\* "burned" and "completed" are never ahead of the chain: a row that says so,
\* in the table or in the hands of a job about to save it, is of a token
\* that is recorded as burned and is gone on chain.  Stale saves and the
\* skip of recorded burns (ensureBurnedForRedeem) must keep this.
FinishedCardsAreBurned ==
  /\ \A c \in Cards :
       /\ row[c].status \in Blocked => token[c] = "burned"
       /\ token[c] = "burned" \/ cycle[c] = "redeemed" => owner[c] = "none"
  /\ \A j \in Jobs : \A c \in part[j] :
       snap[j][c].status \in Blocked => token[c] = "burned"

\* refundUsdcBatch under its lock: the batch's USDC goes out once, and once
\* more at most for every time the record of it was lost (the process died
\* before the save, or a stale save erased it).
RefundsAccounted == sent <= 1 + lost

\* A batch that is due (every card in custody, tracked, delivered, no refund,
\* NFTs not with the user) does not stay due: the cron confirms its receipt,
\* whatever else runs and even after a restart.
Due == /\ Receivable(row) /\ AllDelivered(row) /\ Incomplete(row) # {}
       /\ \A c \in Cards : owner[c] # "user"
DueBatchConfirmed == []<>~Due

\* docs/architecture/vault-lifecycle.md:197: refunds are "allowed until a
\* tracking_number is set (blocked after burn/completed)": a batch is paid
\* back or received, not both.
RefundedOrReceived ==
  ~(sent > 0 /\ \E c \in Cards : row[c].status = "completed")

\* docs/architecture/vault-lifecycle.md:195: the receipt path is there "so
\* users who never return still close the redeem and free the cert for
\* re-mint": once nothing runs, a completed card's cycle is redeemed.
CompletedFreesCert ==
  (\A j \in Jobs : pc[j] = "idle") =>
    \A c \in Cards : row[c].status = "completed" => cycle[c] = "redeemed"
=============================================================================
