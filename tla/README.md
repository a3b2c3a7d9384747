# A TLA+ model of Tokenable

Tokenable is a marketplace for tokenised graded cards. A NestJS backend keeps
PostgreSQL rows about orders, vault cycles, submissions, redemptions and payouts,
signs on-chain transactions with a few company keys, and reconciles the two. The
frontend signs Seaport orders and sends USDC and NFTs from user wallets. The
core logic, and everything modelled here, is under `src/backend/src`.

What makes the backend hard is one pattern, repeated in almost every service:

1. read a row (`findOne`), check its status,
2. `await` something slow: another row, the chain, a carrier, a signature,
3. `repo.save(row)`, which sets **every** column to what it was when read.

Between 1 and 3 another request, a cron run, another instance or a crash may come
in. Locks exist (promise chains, an in-process map, a PostgreSQL advisory lock,
`SELECT ... FOR UPDATE` in some transactions), each covers some handlers only.

## Inventory

| Component | State | Operations | Hard behaviour | What makes it correct |
|---|---|---|---|---|
| Self-vault settlement ledger (`marketplace/settlement`) | `self_vault_settlements`, promise chains per row | create, confirm, reject, record, execute payout, cron, backfill | overlapping cron runs, stale saves, crash between transfer and save, several instances | a sale is paid once; every extra transfer has a lost record behind it; open rows settle |
| Platform fee wallet (`blockchain/platform-fee-wallet`) | promise chain per signer, USDC on chain | `transferUsdc` | failed broadcast, failed wait | one transfer in flight per signer |
| Redeem request (`rwa/rwa-redeem`, `vault/vault.service`) | quotes pinned in memory, `vault_redeem_payment_claims`, `vault_redemptions` | estimate, verify payment, claim and insert in one transaction, cancel asks | drifting rates, one payment twice, overlapping batches, a listing meanwhile | a payment funds one whole batch; a card has one open redemption |
| Redemption (`rwa/rwa-redeem`, `vault/vault.service`, `marketplace/admin/redeems-admin`, `rwa/redeem-delivery-track`, `collections/rwa-token-admin`) | `redemptions`, payment claims, `vault_cycles`, token burn mark, owner on chain | request batch, confirm custody, admin refund, return NFT, tracking, receipt, burn, FedEx auto-receipt | refund against tracking, receipt against refund, crash after transfer or burn, partial batches | money back or card, never both; one refund per batch; one claim per payment |
| Vault mint (`rwa/rwa-mint`, `vault/vault.service`, `vault/vault-mint-recovery`, `blockchain/rwa-chain-writer`) | `vault_cycles`, mint attempt, `rwa_tokens`, tokens on chain | reserve, begin attempt, mint, stamp, record, cancel, recover | crash between any two steps, retried RPC, recovery racing a live mint | at most one live token per certificate |
| Order book (`marketplace/orders`) | `orders` | create, replace, cancel, fulfil, match, invalidate, reconcile, expire | check-then-act limits, stale cancels over fulfils, partial failures | one live ask per token; a fill is final |
| Vault submissions and PSA mails (`vault/vault-submission`, `vault/psa-*`) | packages, items | draft, ship, track, arrive, review, approve, complete | admin and mail events in any order | items and packages agree |
| Admin mint (`rwa/admin/vault-submission-admin-mint`), partner mint jobs, sealed-box mint | item status, job rows, client request ids | mint item, run job, claim, resume | the mail poll and admins on one item, restart of a running job, two requests with one id | one token per item and request; completed means delivered |
| Owner index and transfer listener (`blockchain/rwa-token-owner-index`, `rwa-transfer-index-listener`) | `owner_wallet` and `burned_at` of `rwa_tokens`, one cursor per contract | backfill passes, idle polls, apply logs, `recordOwner` of other handlers, full ownerOf scan | chunks, a pass cut off between rows and cursor, late writers, a listener whose timer is lost | the index shows an owner not older than the cursor, and catches up |
| Collections, identity cache, snapshots, portfolio, notifications | caches, snapshot jobs | refresh, invalidate, schedule | stale cache, two schedulers | monotone snapshots, one job per key |
| KYC (`kyc`) | user KYC status, provider, applicant | webhook, reconcile, override, grant, gate | events out of order or repeated, stale saves, failing Sumsub | a gate passes on what it saw; an approval ends for a cause |
| Users, auth, site access, FX, email, market data, health, frontend, contracts, docs site | various | I/O and queries | mostly pure I/O | out of scope |

## Modules and runs

| Module | Of | Run |
|---|---|---|
| `SelfVaultSettlement`, `_proofs` | payouts, fee-wallet signer, cron | `svs`, `svs_paidonce` |
| `RedeemBatch`, `_proofs` | a paid redemption batch to its end | `rb`, `rb_received`, `rb_cert` |
| `VaultMint`, `MCVaultMint`, `_proofs` | mint requests, chain writer, recovery cron | `vm_two`, `vm_live`, `vm_cancelled` |
| `OrderBook`, `MCOrderBook`, `MCTrade`, `_proofs` | orders of one token | `ob_book`, `ob_ledger` |
| `TransferLog`, `OwnerIndex`, `OwnerView`, `OwnerIndex_proofs` | the contract's Transfer log, the listener and every writer of the index, and what the index promises | `oi_index` |
| `RedeemQuote`, `RedeemRequest_proofs` | fee quotes and the payment of one | `vm_two` |
| `RedeemClaim`, `RedeemRequest_proofs` | a redeem request from the payment to the paid batch | `vm_two` |
| `VaultIntake`, `Desks_proofs` | packages from their composition to PSA, and direct mints | `desks` |
| `MintQueue`, `MCDesks`, `Desks_proofs` | PSA's mail to the depositor's wallet | `desks` |
| `SealedBox`, `_proofs` | one sealed-box request id | `vm_two` |
| `KycStatus`, `OrderBook_proofs` | the KYC columns of a user | `ob_book` |

`MCVaultMint` (mint, quotes, claims, sealed boxes), `MCTrade` (order book, KYC) and
`MCDesks` (intake, mint queue) choose one of the services they extend at the start
and run it alone: the services share no state, so a run of several is the union of
theirs, checked with one set of constants. Their type invariants are checked
together, as `AllTypesOK` or `TypeOK`, and proved together: a step of a run is a step
of one service and a stutter of the others (`ServicesRunApart`, `TradeRunsApart`,
`DesksRunApart`), so that every theorem about a service holds of its run.

How they fit together: a request of `RedeemClaim`, its fee a quote of
`RedeemQuote`, makes the paid batch that `RedeemBatch` takes to its end, which
frees the certificate for a next cycle of `VaultMint`. A package of `VaultIntake`
that has arrived is the one `MintQueue` starts with; both call the mint and see of
it a cycle that is open, minted or gone. `KycStatus` decides whether a request of
`RedeemClaim`, a package or a mint may begin, and nothing of what they do then. A fulfilled ask of
`OrderBook` makes the row `SelfVaultSettlement` pays. `OwnerIndex` is the replay
behind `ObserveBurn` of `RedeemBatch` and `index` of `OrderBook`. Each module has
of its neighbours the effects it sees, every one of them enabled whenever the
neighbour could cause it.

## How the modules are built

One action is the code between two `await`s of a handler. What the handler keeps
across an await (the row it read, the card it is at, the list it iterates) is
local state, indexed by the handler's slot: `pc` is the place, the other locals
carry the code's names where it has one. `Start`, `Request` or the like is
everything up to the first await, `Fail` a call that throws where the handler
stands, with what its `catch` does, `Crash` a restart of the process.

The same four conventions hold everywhere:

- `repo.save(row)` writes the whole row as it was read. TypeORM reloads the row
  and writes what differs, which is the same in one step; the two halves are not
  interleaved.
- An UPDATE or INSERT with its own condition (a unique index, `WHERE status =`) is
  evaluated on the table, not on the copy.
- A transaction is one action; the reads of one consistency check on the chain
  (owner and order status) are one action, except where named below.
- Calls that are alike (slots, claimants, attempts) are taken in a fixed order
  where that loses nothing: a request becomes the first free one.
- Names, addresses, amounts, messages, logs and notifications are left out.
  Amounts only matter as equal or not.

History variables are named as such in the module (`erased`, `lost`, `gaps`,
`torn`, `spoiled`, `held`, `moved`, `overlaps`, `raced`, `stranded`, `cut`,
`clobbered`, `gap`, `wanted`, `issued`, `overlapped`, `unsaved`, `resent`, `ever`,
`synced`, the fields `failed`, `seen` and `alone` of a KYC call): no action reads them to decide
anything, so they restrict nothing.

## SelfVaultSettlement

| In the model | In the code |
|---|---|
| `row[a]` | the `self_vault_settlements` row of the ask, `status` and the kind of its `payout_tx_hash` |
| `queue[i][a]` | the promise chain of `withPayoutLock` in instance `i` |
| `signer[i]` | the promise chain of `withSignerLock` in `PlatformFeeWalletService` |
| `pc`, `ask`, `snap`, `rest` | `executePayout` calls of a cron run or an admin request: place, row, the row read, the rest of the cron's page |
| `req[r]` | create, confirm, reject and record requests, which read and save outside the lock |
| `sent[i][a]` | transfers broadcast for a sale |
| `erased[a]` | history: how often the record of a transfer was lost |

`CronStart` reads the page of open rows past the hold, oldest first, `CronNext`
goes on to the next even if one failed, `LockedRead`, `SaveConfirmed`,
`EnterSigner`, `SkipSelfTransfer`, `Broadcast`, `Mined`, `SavePaid` are the awaits of
`executePayout`; `TransferFails` and `WaitFails` are its error paths.

Runs:

- `svs`: three sales, of which one can never be paid and one was sold by the fee
  wallet itself, a page of two, a cron run and an admin payout that overlap in the
  one `executePayout` both use, three requests, one crash or RPC failure. More
  payers repeat the same locks, more sales share nothing but the signer and the
  page. `PayoutExclusion`, `TransfersAccounted`,
  `LedgerNeverReopens`, and `OpenRowsSettle` under `FairSpec`: weak fairness of the
  steps of started calls and of the cron (`@Cron` fires every minute and each await
  returns or throws), and of the hold's end. Nobody has to send a request.
  481 thousand states.
- `svs_paidonce` (violated): a confirm that read before the payout writes
  `confirmed` over `paid`, and the cron pays again.

Proved in `SelfVaultSettlement_proofs`, for any number of sales, instances, cron
runs, admin slots and requests: `TypeCorrect`, `LocksExclude`, `PayoutsAccounted` and
`RowsNeverReopen` (an action property: a request about to save holds a verdict of the
buyer or is the insert of a new sale, which the unique index refuses when the row
exists; a payout about to save holds `confirmed`). The invariant of the locks says that the queues are sequences without
repetition of exactly the calls waiting or inside, that a call inside is the head
(`LocksHeld`), and that a transfer sent by an instance is accounted for by the row
being `paid`, by the head of the queue being past its broadcast, or by `erased`. The
counter needs the lock part: without it two calls past their read could both send.

Two instances both pay a sale, since the payout lock is a map in memory
(`self-vault-settlement.service.ts:38`); the theorem counts transfers per instance
for this reason.

## RedeemBatch

| In the model | In the code |
|---|---|
| `row[c]` | the `vault_redemptions` row of a card: status, refund status, custody, tracking, delivery |
| `cycle[c]` | its `vault_cycles` status |
| `token[c]` | `rwa_tokens.burned_at` |
| `owner[c]` | the NFT on chain: with the user, in custody, burned |
| `sent` | USDC refunds of the batch broadcast |
| `op`, `pc`, `snap`, `part`, `rest`, `todo`, `at` | handlers in flight: which, where, rows read, rows it acts on, loops, current card |
| `lost` | history: how often the record of a refund was lost |

Admin handlers (`RefundRead` .. `SaveRefund`, `FindCycles`, `ResetCycle`,
`ReturnNft` and the full refund, which runs both under the batch lock), memo and
tracking edits (`UpdateMemo`, `UpdateTracking`, `SaveEdit`), custody
(`ConfirmCustody`, `MarkRead`, `SaveMark`), receipt and burn (`ConfirmReceipt`,
`AutoConfirm`, `BurnNext`, `Burn`, `RecordBurn`, `RedeemCycle`, `SaveBurned`,
`Reload`, `AdminBurn`), the FedEx stamp and the Transfer-log listener's
`ObserveBurn`. The carrier's answer and the end of the grace period are
nondeterministic; `vault_release_pending` is never set by the code and left out.
The batch lock is a map of one process, so the module has one process.

Runs:

- `rb`: two cards, the cron and two requests at a time, three in all, two
  restarts or failing calls. Two cards are needed for a batch to end in part; three
  requests are a memo read before a refund and saved after it, and the refund that
  follows, or custody, tracking and a refund against the cron's receipt.
  `FinishedCardsAreBurned`, `RefundsAccounted`, and `DueBatchConfirmed` under weak
  fairness of started handlers, of the cron's poll (every five minutes) and of the
  listener where it is switched on: after a restart between burn and record it is
  the listener's row that lets the next poll go on. The run has `OwnerIndex = TRUE`
  for that reason. 930 thousand states.
- `rb_received` (violated): tracking saved while the refund's transfer is awaited
  lets the batch be paid back and completed.
- `rb_cert` (violated): a restart between the burn and `completeRedemptionBurn`
  leaves the completed card's cycle open.

Proved in `RedeemBatch_proofs`, for any cards, requests and failures: `TypeCorrect`,
`FinishedCardsBurned` and `RefundsAreAccounted`. The two properties are not
inductive: a job saves rows it read long ago, so the invariant says for each await
what the job there still knows (`JobOK`: the NFT is gone before a burn is recorded,
every card its receipt has passed is recorded as burned, a copy that says "burned" is
of a burned token, a refund about to be sent has nothing unaccounted before it).
These facts survive the steps of other jobs, because nothing burned comes back and
only the holder of the batch lock sends (`LockOK`). `CashOK` is the count: either
every transfer has a lost record, or the last one is recorded on every row or held
by a job about to save it; the test of `AlreadyRefunded` and the lock then leave no
room for another.

## VaultMint

One card on one chain, its vault cycles in order.

| In the model | In the code |
|---|---|
| `cycle[c]` | the `vault_cycles` row: status and the `mint_attempt` (hash, token id) |
| `age[c]` | time since `updated_at`: fresh, past the interactive limits, past the cron's |
| `registry[t]` | the cycle linked by the `rwa_tokens` row of a token |
| `tx[t]`, `mintOf[t]` | mint transactions: pending, mined; the cycle each is for |
| `op`, `pc`, `at`, `snap`, `seen`, `token` | mint requests, interactive checks and the recovery cron |
| `torn`, `gaps`, `spoiled` | history: the last write was cut off; failures in a gap no record covers; a handler cancelled the cycle or the registry refused the row |

`Reserve`, `BeginMintAttempt`, `Broadcast` (under the signer's lock: no other
broadcast of the process is between nonce and hash), `NoteMintAttemptTx`, `Wait`,
`RecordMintResult`, `SaveRow`, `Upsert` and `CancelCycle` are the awaits of
`mintForUser`; `HealOne` is `healOne` of the recovery, for the cron as well as for
the check a request makes; `RateLimited` is the 429 retry of the chain writer.
`tx.wait` has no timeout, so no fairness makes the chain mine. Token ids start at
1. Names, photos and the link to a submission are left out; the token id and the
transaction have one number.

Runs:

- `vm_two`: two requests and the cron, two cycles (the second needs the first to
  be over), one failure. `RegistryTruthful`, `GhostsAccounted`. Slots are symmetric.
  `RedeemQuote`, `RedeemClaim` and `SealedBox` are checked in the same run. 3.2 million
  states, of which 2.2 million of the mint.
- `vm_live`: two cycles, one request at a time, two failures, and the cron: a request
  cancelled by its own error and the next one, while the cron holds a copy of the
  first. `AttemptsEnd` and `StampedTokensRegistered` under weak
  fairness of started handlers, of the cron and of the clock, none of the chain.
- `vm_cancelled` (violated): a call after the broadcast fails, and the
  compensation cancels the cycle of an NFT that is or will be minted.

Proved in `VaultMint_proofs`: `TypeCorrect`, `RegistryIsTruthful` and
`GhostsAreAccounted`. The invariant adds to the types that transactions not sent
name no cycle and are named by nobody (`UnsentOK`), that a token stamped on a row was
mined for it (`CyclesOK`), that the copies held by handlers satisfy the same
(`JobsOK`): the registry row is written from a copy, not from the row. For the ghosts
it also needs a budget: the transactions of a cycle are at most one more than the
failures in the two gaps, and one that uses the budget up is still kept, by its row
or by a handler (`Budget`). That rests on what a handler at each call knows of its
row (`PlacesOK`), on one handler minting for a cycle (`OneMinter`) and on one cycle
being open (`OneOpenRow`), which the claim of the row gives.

Not a run, but worth knowing: `recordMintResult` saves `minted` before the registry
row is upserted (`vault.service.ts:566`), and a restart in between leaves a minted
cycle without one, which recovery, looking at `minting` only, does not see. This is
the second gap of `GhostsAccounted`.

## OrderBook

One token with its asks and the token bids on it.

| In the model | In the code |
|---|---|
| `status[o]`, `buyer[o]` | the `orders` row, `parameters._filledByBuyer` |
| `ledger[a]` | the buyer in the `self_vault_settlements` row of a sale |
| `index` | `rwa_tokens.owner_wallet` |
| `owner`, `filled[o]` | the NFT's owner, Seaport's order status |
| `elapsed` | the end time of the orders in `Short` is over |
| `op`, `pc`, `at`, `mate`, `who`, `cands` | handlers in flight and what they read |
| `held`, `moved[o]`, `overlaps` | history: wallets that have held the token; the card was away from the seller (with the bidder) while the order was in the book; listing races |

Handlers: `createOrder` and `replaceSellerListing` (`OwnsToken` .. `Insert`,
`OldRead`, `Commit`), `cancelOrder`, `invalidateDeadBid`, `invalidateUnownedAsk`,
`fulfillOrder`, `fulfillMatchedPair`, the on-chain reconciler, the collection page
that drops consumed asks, the cross-bid match, the sibling UPDATE and the sweep of
a fill, the expiry cron. `Fail` cuts any of them. On the chain: a transfer of the
token, Seaport fills and matches (also of cancelled rows: a cancel is in the book
only).

Limits: a report of a fill names a wallet that has held the token, as the frontend
does (`frontend/lib/core/api/orders.ts:410`); the settlement policy of a token does
not change; a reconcile or drop call handles one row; the owner at the start may
list; criteria bids, the per-wallet bid limit (off by default), cost basis,
notifications and the admin backfill are left out.

Two texts of the repository do not agree on what a sale is, and the model follows
the code: it takes a card that has left its seller (reached its bidder) for sold,
as `business-rules.md:101` allows, where the comment above
`isSeaportOrderFullyFilledOnChain` and `docs/api/marketplace.md:261` ask for a
Seaport fill. `FulfilledWasConsumed` is stated with both.

Runs:

- `ob_book`: two asks of a seller, a resting bid of a collector, three calls, two at
  a time, one failure. Two asks and two calls make every race of two listings and
  of a listing with a fill; the third call is the report or repair after it.
  `FulfilledWasConsumed`, `LedgerNamesSales`, `LiveAsksAccounted`, `EndedRowsKept`.
  `KycStatus` is checked in the same run. 2.8 million states, of which 1.5 million
  of the book.
- `ob_ledger` (violated): a reader marks a filled ask fulfilled before its buyer's
  report, which alone writes the payout row, and is refused.

Proved in `OrderBook_proofs`, for any asks, bids, wallets and calls:
`TypeCorrect`, `FulfilledHasCause`, `LedgerIsTruthful`. The invariant adds what the
histories mean now (`HistOK`: where the card is, who has held it) and, for each
place of a handler, what it knows (`CallsOK`: a handler about to save a fill has
seen its cause, and a cause is never undone, which is why a stale copy cannot
hurt). Also there: `RowsEndOnce`, an action property by cases on the steps, and `OneLiveAskUnlessRaced`: live asks are at most one plus `overlaps`,
because every call past its check knows that the live asks listed since are in
`overlaps`, and the cardinality of the live set grows by one with each insert.

## OwnerIndex

One RWA contract on one chain, one process.

| In the model | In the code |
|---|---|
| `log` | the chain's blocks, each with at most one Transfer |
| `row[t]` | `rwa_tokens`: is there a row, `owner_wallet`, `burned_at` |
| `cursor` | `rwa_owner_index_cursors`: last block scanned, `backfill_complete` |
| `pc`, `mode` | the listener: the timer armed or the call it stands at, backfill or poll |
| `snap`, `head`, `next`, `end`, `todo`, `done`, `moved`, `failed` | locals of a pass |
| `note[w]` | a handler that learned an owner at some block and will write it |
| `raced` | history: tokens written with an owner the replay had gone past |

`Bootstrap`, `RunBackfillPass`, `PollAllChains`, `Recheck` are the timers,
`Begin` .. `MarkBackfillComplete` the awaits of `backfillFromTransferLogs`; `Record`,
`Register`, `PersistOwnerMap` and `PersistMark` the other writers (settle, redeem
custody, stale asks, mint, the registry's heal, the portfolio's full scan).
`PassFails` is a call inside a pass that throws and is caught;
`ReadyQueryFails` one of the `isIndexReady` queries no `try` covers, after which no
timer is armed any more until a restart (`pc = "stopped"`).

The code has no handling of a reorganisation and neither has the model. The RPC
node does not lag behind itself; the ownerOf scan is of one block; total supply
and the count of live rows are read in one action; a Transfer to the owner itself
is left out; a failing write of the completion mark is covered by `Crash` only.

`OwnerView` is the abstract specification: an owner shown for a token is the owner
at a block not older than the one scanned, the scanned block never goes back, and
a token leaves this window only by a late write (`loose`). `RefinesOwnerView`
instantiates it with `seen <- cursor.at` and `loose <- raced`.

Run `oi_index`: two tokens, two wallets, three blocks (a mint, a transfer, a
transfer or burn) read two at a time so that a pass has more than one chunk, one
other writer, one failure. `IndexIsRecent`, `RefinesOwnerView`, `FollowsChain` (the
index catches up with a chain at rest, unless a late write overtook the token or
the listener is stopped), under weak fairness of the listener. 955 thousand
states.

Proved in `OwnerIndex_proofs`: `TypeCorrect`, `RecentRows`, `ImplementsOwnerView`.
The invariant says where the pass stands in the log (`next`, `end`, `todo` and the
cursor fit), that a row is recent with respect to the blocks already applied, and
that a note was true at its block. The refinement is a lemma that the operators of
the instance are those of the module, then one lemma per action.

## RedeemQuote

| In the model | In the code |
|---|---|
| `pins`, `before` | `recentQuoteTotals`: its entries, and the order of its keys |
| `estimate[e]` | an `estimateRedeemCost` call between its fee computation and `pinQuote` |
| `visit[p]` | `requestRedemptionBatch`: the quote paid, the fresh total, the fee taken |
| `now` | the clock, in ticks |
| `issued`, `lost` | history: estimates returned, and those whose pin was dropped |

A basket is a `quotePinKey`: cards and destination. An estimate made without
address or country code has another key and is another basket. Two baskets with
a map of two entries and three estimates let a pin expire, be replaced, be kept
against a dearer one and be evicted. `PaidQuotesHonoured`: the payment of a live
quote the code still has is accepted, and the fee taken is one that was quoted and
paid.

The comments at `rwa-redeem.service.ts:62` and `:305` promise that a paid quote is
"never rejected by re-quote drift". The code keeps less, and the property says what:
a dearer quote issued while a cheaper one is pinned is not stored, the map is
bounded, and a restart forgets it. A payment of the dearer one is accepted, since it
exceeds both; a payment of one evicted or forgotten may be refused.

Proved in `RedeemRequest_proofs`, for any totals, baskets, payers and bounds:
`PaidQuotesAreHonoured` and `QuoteTypeCorrect`. The invariant: an estimate handed out
is expired, in `lost`, or covered by a pin of its basket that asks no more and lasts
as long (`IssuedCovered`); and the keys of the Map are in one linear order
(`KeysOrdered`), so that a full Map has a first key and never grows past its bound.

## RedeemClaim

| In the model | In the code |
|---|---|
| `vault[c]` | `vault_cycles.status` of the card; `"none"` for a token registered without one |
| `claim[p]` | `vault_redeem_payment_claims`, unique by payment |
| `redeems` | `vault_redemptions`, at most one open per cycle (partial unique index) |
| `keyHeld`, `rowHeld` | index entries and row locks of transactions not committed |
| `step`, `basket`, `payment`, `batch`, `left`, `hand` | requests in flight |
| `listed`, `listing` | active asks, and `createOrder` calls past their check |
| `gap` | history: cards a listing or sale slipped past the request |

`InsertClaim` waits for the unique index, `InsertRow` locks one card after the
other in the order of the request, `CommitBatch` makes it visible, `Deadlocked` is
PostgreSQL's abort of one of two that wait for each other. Other batches end as
refunded or completed (the rest is `RedeemBatch`). Two cards, one without a cycle,
two payments, two requests at once, one lister and one failure.
`PaymentFundsOneBatch`, `OpenRowHoldsCycle`, `RedeemedCardsUnlisted`.

Proved in `RedeemRequest_proofs`, for any cards, payments, requests, listings and
failures: these three (`PaymentFunds`, `OpenRowHolds`, `RedeemedUnlisted`) and
`TypeCorrect`. The invariant says what an open transaction may rely on when it
commits: its payment is its own and unclaimed, and every card it has locked is still
free (`TransactionOK`). It adds that a refunded card whose cycle is still to be reset
has no open row and its cycle is in redemption (`CyclesHeld`), or the late reset could
free the cycle of a later redemption; and that an ask of a card in redeem is in the
hands of a request that will cancel it, or in `gap` (`GapsKnown`).

Left out: the payer check; a vault cycle shared by two tokens, for which
`assertTokensRedeemable` accepts and `insertPaidRedemptionRow` refuses, so that the
payment finds no batch; the save of whole order rows by
`cancelActiveOrdersForTokens` (see `OrderBook` for that race); `requestRedemption`
without payment, which has no caller.

## MintQueue

| In the model | In the code |
|---|---|
| `package`, `item[i]` | `vault_submissions` and its items at PSA |
| `cycle[i]`, `nft[i]` | the card's last vault cycle and where its token is |
| `named`, `labelled` | the mail's certs, the label that keeps a poll from reading it again |
| `review[v]` | `vault_psa_vaulted_reviews` with its `mint_results` |
| `at[m]` | the poll (one, by an advisory lock) and admin calls, each with its copies |
| `stranded`, `cut`, `clobbered` | history: deliveries cut off, error handling cut off, saves that crossed |

`PollMail`, `MatchItems`, `NextItem`, `ReadReview`, `SaveOutcome`, `Label` are
`pollOnce` and `autoMintReview`; `StartItem` .. `Deliver`, `Catch`, `ResetItem` are
`mintAndDeliverItem`; `Recover` is the recovery cron finishing or cancelling a cycle
left open. Two items, one mail, the poll and one admin, two runs, one failure;
three runs were checked once (13.9 million states). `CompletedItemsDelivered`,
`MintingItemsHaveMinter`, `MintedReviewsDelivered`.

`markItemCompleted` runs before the delivery, so a failed delivery leaves the item
`completed`, outside the queue, with the NFT in custody: `stranded`. This does not
agree with `docs/architecture/vault-lifecycle.md:136`, "Item -> completed (Live in
portfolio)". Two minters of one package can save over each other's item
(`clobbered`).

Proved in `Desks_proofs`, for any items, mails, admins, cycles and failures:
`CompletedItemsAreDelivered`, `MintingItemsHaveTheirMinter`,
`MintedReviewsAreDelivered` and the types (`QueueTypeCorrect`). `QueueBase` says what
each call and its item, cycle and token have in common (`Working`) and that one call at
most mints a new cycle of a card (`OneMint`), which the reservation gives. `QueueMore`
strengthens the properties: a "minting" item is owed by a call that has linked it or
is in its catch (`MintingOwed`), not merely in some call's hands; and between matching a
mail and saving its outcome every cert is still to do, in hand, or among the results
(`RunsOK`), and the copies of a review it will be merged with are true of the tokens
already, since delivered tokens stay delivered.

Left out: what comes before the arrival (`VaultIntake`); a mail polled before the
package has arrived, which stays pending for an admin; unmatched mails; status
edits other than the verdict on a waiting item; the mint's own ghosts (`VaultMint`).

## SealedBox

| In the model | In the code |
|---|---|
| `boxRow` | `sealed_box_mints` of the request id: status, hash, token |
| `boxTx`, `registered` | transactions sent for it, tokens with a registry row |
| `attempt[a]` | `mintForPartner` calls, each with its copy of the row |
| `overlapped`, `unsaved`, `resent` | history: two attempts past the claim, a hash not saved, a send repeated after a 429 |

Two attempts at a time, three in all, two failures or restarts; four were checked
once.
`OneMintPerRequest`: one transaction per request id, with exactly the three
exceptions of the history; `MintedRowTruthful`. `withRpcRateLimitRetry` is
documented as a retry of read-only calls (`rpc-retry.util.ts`) and wraps the send
too. A restart after the hash is saved, or a revert, leaves the row in `minting`,
answered with 409 from then on.

Proved in `SealedBox_proofs`: `RequestMintsOnce` and `MintedRowIsTrue`. The
invariant: what attempts and the row hold names transactions that exist (`Copies`,
`Stored`), a fresh attempt means that nothing was sent (`Alone`), and all that was
sent is known to the row or to an attempt, unless `unsaved` (`Known`).

## KycStatus

| In the model | In the code |
|---|---|
| `applicant` | Sumsub's applicant of the user under the configured app, and its review |
| `hooks` | webhooks of its reviews, delivered in any order, once or more |
| `active` | is the user's partner active |
| `user` | `users.kyc_status`, `kyc_provider`, `kyc_applicant_id` (of this app, of an old one, null) |
| `call[c]` | a request in flight: the row it read, the row it will save or return |
| `synced` | history: a reconcile ended and nothing has changed since |

`StartGate`, `CheckPartner`, `Fetch`, `ReadRow`, `SaveRow` and `PassGate` are
`assertApprovedForCustody` with `reconcileUser` and `updateKycStatus`; webhooks
(`StartHook`), the SDK token (`StartToken`, `GetApplicant`), an override by an admin,
the grant to a partner and a save of the whole user row (`StartProfile`: log-in,
profile) are the other writers. Two calls at a time, three
in all, two changes of the review or the partner, one failure or restart; new,
waiting and formerly approved users. `PassedGatesHonest`, `CurrentAppIsTruth`,
`ApprovalsEndForCause`.

Proved in `OrderBook_proofs`, for any calls, reviews and failures:
`PassedGatesAreHonest`, `CurrentAppStaysTruth`, `ApprovalsEndOnlyForCause` (an action
property) and `KycTypeCorrect`. The invariant says of a call what its reconcile goes
by (`KycCallOK`): the row it will return has the status of the review it saw, and a
row that ends an approval comes with a cause; and of a call nobody has interfered
with that the row in the table is the one it read (`KycAlone`).

What the code does and a reader might not expect: a failing Sumsub call lets the
gate decide on the row it read (hence the `failed` of `PassedGatesHonest`); a
review status it does not know is "none" for a reconcile and by the event's type
"pending" for a webhook; `updateUserKyc` keeps the provider of a row that has one
(`user-admin.service.ts:590`), so the next reconcile may clear an admin's override of
a Sumsub row, although `kyc.service.ts:33` says of it "must not be cleared by Sumsub
reconcile"; a green applicant under another external id turns an admin's grant
into an approval of Sumsub; a partner whose approval Sumsub withdrew is refused
once and granted at the next request. `ApprovalsEndForCause` is stated for what the
code keeps.

Left out: reasons, audit events, the signature of webhooks; Sumsub is configured.

## VaultIntake

| In the model | In the code |
|---|---|
| `parcel[p]` | a `vault_submissions` row of the seller: status; packing slip or tracking |
| `slab[p]` | its `vault_submission_items`, and how often they were replaced |
| `path[c]` | the last `vault_cycles` row of a cert: number, is it open |
| `letter` | PSA's mail "Items Received", its label and its `vault_psa_arrival_reviews` row |
| `caller[k]` | a call in flight: place, package row and items as read, what is left to save |
| `ever` | history: packages shipped, overwritten, moved early, cut off; certs raced |

`UpsertDraft` and `CreatePackage` are the one handler that locks; the others read a
package with its items and go on to `SavePackage`, then `SaveItem` one by one.
`DownloadSlip`, `CancelPreShip`, `RegisterTracking` (which asks for an open cycle of
each cert, `CheckCycles`) are the seller's, `MarkArrived` and `SetItemStatus` with
`SyncPackage` the admin's. `PollReceived`, `MaybeAutoConfirm`, `ApplyConfirm`,
`NextPackage`, `SaveConfirmed`, `LabelMail` are the poll (one, by an advisory lock)
and the confirmation it shares with `AdminConfirmMail`. `StartDirectMint` ..
`ClearPreShip` are `mintForUser` with `deliveryMode` direct as far as packages see it.
TypeORM refuses to save a package whose items were replaced since it was read, as
it would detach the new ones: `gen`.

Two certs, two packages, two calls at a time and four in all, one cycle of a cert,
one failure or restart; the behaviours start with no package or with one shipped.
Two certs let a package arrive in part; a composition, its tracking, and two
calls that race use up the four.

- `ShippedPackagesKept`: "Once tracking is registered the physical path has
  started". A cancel, a packing slip or a tracking that saves the row it read
  before another of them loses the tracking number: `overlapped`.
- `QueueSeesArrived`: the cards of an arrived package are in reach of the queue. A
  verdict on one card, or a direct mint, moves a package to PSA with the others
  still `in_transit`; the mail no longer matches it and marking it arrived is refused
  (`early`). A failure in the loop over items leaves the rest behind, and the review
  names the package as skipped though it moved (`torn`).
- `OneVaultPath`: the rule of `docs/api/vault-submissions.md`, "Self vault lock after
  ship": a direct mint asks for packages before it reserves, tracking for cycles
  before it saves; only calls between check and write together get past (`raced`).
- `ReviewsTellMoves`: a dismissed review moved nothing, a confirmed one names what
  it moved, unless an admin and the poll decide it together (`quarrel`), the
  confirmation is cut off, or a package is written over. A package a confirmation
  moved may be moved back by a save that had read it before (a packing slip) and
  composed anew; the confirmation then fails on its items and skips it, and the
  mail can be dismissed though it moved the package. It takes six calls to see.

Proved in `Desks_proofs`, for any certs, packages, calls, cycles and failures: these
four (`ShippedPackagesStayKept`, `TheQueueSeesArrivals`, `NobodyVaultsTwice`,
`ReviewsTellTheirMoves`) and the types (`IntakeTypeCorrect`, and `DesksTypeCorrect` for
the run of both). `IntakeBase` says of every call what it holds (`HoldsOK`) and what of
that is still so in a package nothing has saved over (`Recent`): the cards it will
write are all that wait. On it rest, one invariant for each property, `KeptOK` (a row
with tracking was shipped), `ArrivalsInHand` (a card left waiting at PSA is in the list
of the call that writes the arrival), `VaultPaths` (a call about to ship has no open
cycle among its cards, a call about to open one no shipped package, and two such
calls share only `raced` cards) and `MailOK` (while a mail is confirmed there is one
confirmation, no dismissal, and it has in hand what it moved).

Left out: other sellers, legacy drafts, the free edit of a package's status by an
admin, the verdicts `failed` and `approved` before arrival, the parsing of mails and
mails without certs. A mail names cards of packages that were shipped.

Run `desks`: `MintQueue` and `VaultIntake`, one at a time, 2.8 million states.

## Proved, and only checked

Proofs are for every value of the constants, under the modules' named
assumptions (finite sets of asks and calls, disjoint sets of slots, natural
bounds). Every invariant and every action property of a passing run is a theorem; so
is the refinement of `OwnerView` (its safety; that the index catches up is `FollowsChain`).

TLC alone stands behind:

- the liveness properties (`OpenRowsSettle`, `DueBatchConfirmed`, `AttemptsEnd`,
  `StampedTokensRegistered`, `FollowsChain`): liveness under fairness and `ENABLED` are
  beyond the proof system used here, and so is induction over data;
- the five disagreements with the documentation, each a counterexample;
Where an invariant would not become inductive, the attempt said something of the
model: `before` (the order of the Map's keys) came from there, and so did the
exceptions of `ReviewsTellMoves`.

`vm_live` reaches 323 thousand distinct states.

Deadlock is not checked: in every module the system may rest when all requests
are answered and the bounds are used up.

## Not modelled

Partner mint jobs (a loop over the mint of `VaultMint`, with job rows of its own) are
left for later work. Catalog, images, prices, FX, portfolio, snapshots,
notifications, email, accounts, frontend, contracts and deployment are not modelled:
they are I/O, queries or caches, or outside the repository (Seaport, the ERC-721
base). Purges of the admin pages are for development databases and left out
everywhere. `PROJECT.json` lists every component, and the hazards no property
covers yet with the reason.
