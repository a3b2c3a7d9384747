----------------------------- MODULE MintQueue -----------------------------
(***************************************************************************)
(* From the mail "now secured in your PSA Vault" to the depositor's        *)
(* wallet: PsaVaultedMailService.pollOnce, the mint queue of a package at  *)
(* PSA, VaultSubmissionAdminMintService.mintAndDeliverItem.                *)
(*                                                                         *)
(* The poll (one at a time: advisory lock) and admins mint the cards of    *)
(* one package.  The mint itself is VaultMint; here it reserves a cycle,   *)
(* mints or fails, is recorded, or is finished by the recovery cron.       *)
(* A save writes the whole row, as it was read.                            *)
(***************************************************************************)
EXTENDS Naturals, FiniteSets

CONSTANTS
  Items,       \* vault_submission_items of the package, one per cert
  Mails,       \* Gmail messages of PSA, "Items Vaulted"
  Poll,        \* the poll
  Admins,      \* admin calls in flight
  NoItem,      \* no item, no mail
  MaxCycles,   \* bound on the vault cycles of a card
  MaxRuns,     \* bound on what is started: runs, verdicts of admins
  MaxMishaps   \* bound on failing calls and restarts

Minters == {Poll} \cup Admins

ASSUME QueueAssumption ==
  /\ Poll \notin Admins
  /\ NoItem \notin Items \cup Mails
  /\ MaxCycles \in Nat /\ MaxRuns \in Nat /\ MaxMishaps \in Nat

VARIABLES
  package,    \* vault_submissions.status
  item,       \* vault_submission_items: status, vault_cycle_id (0: null)
  cycle,      \* vault_cycles of a card: the last one's number, its status
  nft,        \* where the card's token is
  named,      \* certs of a mail, {}: not sent yet
  labelled,   \* mails with the label "processed"
  review,     \* vault_psa_vaulted_reviews: status, mint_results
  at,         \* what a minter holds in memory
  stranded,   \* history: items completed whose delivery was cut off,
  cut,        \*   items whose error handling was,
  clobbered,  \*   items done when a late save undid it, or the other way,
  runs,       \*   runs so far,
  mishaps     \*   and failures so far

rows    == <<package, item, cycle, nft>>
mails   == <<named, labelled, review>>
history == <<stranded, cut, clobbered>>
queueVars == <<rows, mails, at, history, runs, mishaps>>

Idle == [pc |-> "idle", item |-> NoItem, todo |-> {}, mail |-> NoItem,
         prior |-> "reviewing", n |-> 0, linked |-> FALSE, adopt |-> FALSE,
         ok |-> {}, bad |-> {}, had |-> [ok |-> {}, bad |-> {}]]

NoReview == [status |-> "none", ok |-> {}, bad |-> {}]

QueueInit ==
  /\ package = "psa_reviewing"
  /\ item = [i \in Items |-> [status |-> "reviewing", cycle |-> 0]]
  /\ cycle = [i \in Items |-> [n |-> 0, st |-> "none"]]
  /\ nft = [i \in Items |-> "none"]
  /\ named = [v \in Mails |-> {}] /\ labelled = {}
  /\ review = [v \in Mails |-> NoReview]
  /\ at = [m \in Minters |-> Idle]
  /\ stranded = {} /\ cut = {} /\ clobbered = {}
  /\ runs = 0 /\ mishaps = 0
-----------------------------------------------------------------------------
(* The package                                                             *)

Done(status) == status \in {"completed", "rejected"}

AllDone(its) == \A i \in Items : Done(its[i].status)

\* findMintQueueItemsByCerts, and the checks of mintAndDeliverItem.
Mintable(i) ==
  /\ package = "psa_reviewing"
  /\ item[i].status \in {"reviewing", "approved"}
  /\ item[i].cycle = 0

Put(m, f) == at' = [at EXCEPT ![m] = f]
Goes(m, pc) == Put(m, [at[m] EXCEPT !.pc = pc])

\* An item of a review's run is finished, or the admin's one item.
ItemEnds(m, good) ==
  Put(m, IF at[m].mail = NoItem THEN Idle
         ELSE [at[m] EXCEPT !.pc = "next", !.item = NoItem, !.prior = "reviewing",
                 !.n = 0, !.linked = FALSE, !.adopt = FALSE,
                 !.ok = IF good THEN @ \cup {at[m].item} ELSE @,
                 !.bad = IF good THEN @ ELSE @ \cup {at[m].item}])

\* The run of a review is over: the poll goes on to label its mail.
RunEnds(m) ==
  Put(m, IF m = Poll THEN [Idle EXCEPT !.pc = "label", !.mail = at[m].mail]
                     ELSE Idle)
-----------------------------------------------------------------------------
(* PsaVaultedMailService                                                   *)

\* PSA names each card in one mail.
SendMail(v, S) ==
  /\ named[v] = {}
  /\ \A w \in Mails : named[w] \cap S = {}
  /\ named' = [named EXCEPT ![v] = S]
  /\ UNCHANGED <<rows, labelled, review, at, history, mishaps, runs>>

MoreRuns == runs < MaxRuns /\ runs' = runs + 1

\* enqueuePsaVaultedReview returns the review of a mail seen before.
PollMail(v) ==
  /\ at[Poll].pc = "idle" /\ MoreRuns
  /\ named[v] # {} /\ v \notin labelled
  /\ review' = [review EXCEPT ![v].status = IF @ = "none" THEN "pending" ELSE @]
  /\ Put(Poll, [Idle EXCEPT !.mail = v,
           !.pc = IF review'[v].status = "pending" THEN "match" ELSE "label"])
  /\ UNCHANGED <<rows, named, labelled, history, mishaps>>

AdminMintReview(a, v) ==
  /\ at[a].pc = "idle" /\ MoreRuns /\ review[v].status # "none"
  /\ Put(a, [Idle EXCEPT !.mail = v, !.pc = "match"])
  /\ UNCHANGED <<rows, mails, history, mishaps>>

\* Bug: certs without an item in the queue are left out of the results.
OnlyQueued(v, queue) == {}

Unmatched(v, queue) == named[v] \ queue

\* autoMintReview, up to the first item.
MatchItems(m) ==
  LET v == at[m].mail
      queue == {i \in named[v] : Mintable(i)}
      r == review[v] IN
  /\ at[m].pc = "match"
  /\ IF r.status = "dismissed" \/ (r.status = "minted" /\ r.bad = {})
     THEN RunEnds(m)
     ELSE IF queue = {}
     THEN IF m = Poll THEN RunEnds(m)
          ELSE Put(m, [at[m] EXCEPT !.pc = "outcome", !.bad = named[v]])
     ELSE Put(m, [at[m] EXCEPT !.pc = "next", !.todo = queue,
                               !.bad = Unmatched(v, queue)])
  /\ UNCHANGED <<rows, mails, history, mishaps, runs>>

NextItem(m) ==
  /\ at[m].pc = "next"
  /\ IF at[m].todo = {} THEN Goes(m, "outcome")
     ELSE \E i \in at[m].todo :
            Put(m, [at[m] EXCEPT !.pc = "start", !.item = i, !.todo = @ \ {i}])
  /\ UNCHANGED <<rows, mails, history, mishaps, runs>>

\* recordPsaVaultedMintOutcome: the review is read ...
ReadReview(m) ==
  /\ at[m].pc = "outcome"
  /\ Put(m, [at[m] EXCEPT !.pc = "save",
               !.had = [ok |-> review[at[m].mail].ok,
                        bad |-> review[at[m].mail].bad]])
  /\ UNCHANGED <<rows, mails, history, mishaps, runs>>

\* ... merged with the results of the run (mergeVaultedMintResults), and saved.
SaveOutcome(m) ==
  LET v == at[m].mail
      had == at[m].had
      ok == had.ok \cup at[m].ok
      bad == (had.bad \ at[m].ok) \cup (at[m].bad \ had.ok) IN
  /\ at[m].pc = "save"
  /\ review' = [review EXCEPT ![v] =
                  [status |-> IF ok # {} THEN "minted" ELSE "failed",
                   ok |-> ok, bad |-> bad]]
  /\ RunEnds(m)
  /\ UNCHANGED <<rows, named, labelled, history, mishaps, runs>>

\* gmail.markProcessed
Label ==
  /\ at[Poll].pc = "label"
  /\ labelled' = labelled \cup {at[Poll].mail}
  /\ Put(Poll, Idle)
  /\ UNCHANGED <<rows, named, review, history, mishaps, runs>>

Dismiss(v) ==
  /\ review[v].status \in {"pending", "failed"}
  /\ review' = [review EXCEPT ![v].status = "dismissed"]
  /\ UNCHANGED <<rows, named, labelled, at, history, mishaps, runs>>
-----------------------------------------------------------------------------
(* mintAndDeliverItem                                                      *)

AdminMintItem(a, i) ==
  /\ at[a].pc = "idle" /\ MoreRuns
  /\ Put(a, [Idle EXCEPT !.pc = "start", !.item = i])
  /\ UNCHANGED <<rows, mails, history, mishaps>>

StartItem(m) ==
  LET i == at[m].item IN
  /\ at[m].pc = "start"
  /\ IF Mintable(i)
     THEN Put(m, [at[m] EXCEPT !.pc = "find", !.prior = item[i].status])
     ELSE ItemEnds(m, FALSE)
  /\ UNCHANGED <<rows, mails, history, mishaps, runs>>

\* findOpenMintedTokenForCert
FindToken(m) ==
  LET c == cycle[at[m].item] IN
  /\ at[m].pc = "find"
  /\ IF c.st = "minted"
     THEN Put(m, [at[m] EXCEPT !.pc = "attach", !.adopt = TRUE, !.n = c.n])
     ELSE Goes(m, "reserve")
  /\ UNCHANGED <<rows, mails, history, mishaps, runs>>

\* reserveCycleForDeposit: one open cycle of a card.
ReserveCycle(m) ==
  LET i == at[m].item IN
  /\ at[m].pc = "reserve"
  /\ IF cycle[i].st # "none"
     THEN Goes(m, "catch") /\ UNCHANGED cycle
     ELSE /\ cycle[i].n < MaxCycles
          /\ cycle' = [cycle EXCEPT ![i] = [n |-> @.n + 1, st |-> "open"]]
          /\ Put(m, [at[m] EXCEPT !.pc = "attach", !.n = cycle'[i].n])
  /\ UNCHANGED <<package, item, nft, mails, history, mishaps, runs>>

\* attachCycleForCert finds the item ...
FindItem(m) ==
  /\ at[m].pc = "attach"
  /\ IF package = "psa_reviewing" /\ ~Done(item[at[m].item].status)
     THEN Goes(m, "link")
     ELSE Goes(m, IF at[m].adopt THEN "catch" ELSE "mint")
  /\ UNCHANGED <<rows, mails, history, mishaps, runs>>

\* ... and saves it with the cycle.
LinkItem(m) ==
  LET i == at[m].item IN
  /\ at[m].pc = "link"
  /\ item' = [item EXCEPT ![i] = [status |-> "minting", cycle |-> at[m].n]]
  /\ clobbered' = IF Done(item[i].status) THEN clobbered \cup {i}
                                                 ELSE clobbered
  /\ Put(m, [at[m] EXCEPT !.linked = TRUE,
               !.pc = IF at[m].adopt THEN "deliver" ELSE "mint"])
  /\ UNCHANGED <<package, cycle, nft, mails, stranded, cut, mishaps, runs>>

\* mintTo succeeds, into the custody wallet ...
MintNft(m) ==
  /\ at[m].pc = "mint"
  /\ nft' = [nft EXCEPT ![at[m].item] = "custody"]
  /\ Goes(m, "record")
  /\ UNCHANGED <<package, item, cycle, mails, history, mishaps, runs>>

\* ... or throws, and the cycle is cancelled.
MintFails(m) ==
  /\ at[m].pc = "mint" /\ mishaps < MaxMishaps
  /\ mishaps' = mishaps + 1
  /\ cycle' = [cycle EXCEPT ![at[m].item].st = "none"]
  /\ Goes(m, "catch")
  /\ UNCHANGED <<package, item, nft, mails, history, runs>>

RecordMint(m) ==
  /\ at[m].pc = "record"
  /\ cycle' = [cycle EXCEPT ![at[m].item].st = "minted"]
  /\ Goes(m, IF at[m].linked THEN "complete" ELSE "deliver")
  /\ UNCHANGED <<package, item, nft, mails, history, mishaps, runs>>

\* markItemCompletedForCycle finds the item by its cycle, ...
FindLinked(m) ==
  /\ at[m].pc = "complete"
  /\ Goes(m, IF item[at[m].item].cycle = at[m].n THEN "completed"
             ELSE IF at[m].adopt THEN "catch" ELSE "deliver")
  /\ UNCHANGED <<rows, mails, history, mishaps, runs>>

\* ... saves it, ...
SaveCompleted(m) ==
  /\ at[m].pc = "completed"
  /\ item' = [item EXCEPT ![at[m].item] =
                [status |-> "completed", cycle |-> at[m].n]]
  /\ Goes(m, "close")
  /\ UNCHANGED <<package, cycle, nft, mails, history, mishaps, runs>>

\* ... reads the package's items, and closes the package after the last.
AfterCompleted(m) ==
  IF at[m].adopt THEN ItemEnds(m, TRUE) ELSE Goes(m, "deliver")

ReadItems(m) ==
  /\ at[m].pc = "close"
  /\ IF AllDone(item) THEN Goes(m, "closing") ELSE AfterCompleted(m)
  /\ UNCHANGED <<rows, mails, history, mishaps, runs>>

ClosePackage(m) ==
  /\ at[m].pc = "closing"
  /\ package' = "completed"
  /\ clobbered' = clobbered \cup {i \in Items : ~Done(item[i].status)}
  /\ AfterCompleted(m)
  /\ UNCHANGED <<item, cycle, nft, mails, stranded, cut, mishaps, runs>>

\* Bug: a token in custody is taken for delivered.
MintedIsEnough(i) == nft[i] # "sold"

\* adoptExistingMintedAndDeliverForUser: the depositor has it already.
WithUser(i) == nft[i] = "user"

\* safeTransferFromCustody, which refuses a token that is not in custody.
Deliver(m) ==
  LET i == at[m].item
      sent == at[m].adopt /\ WithUser(i) IN
  /\ at[m].pc = "deliver"
  /\ nft' = IF ~sent /\ nft[i] = "custody" THEN [nft EXCEPT ![i] = "user"]
                                           ELSE nft
  /\ IF sent \/ nft[i] = "custody"
     THEN IF at[m].adopt THEN Goes(m, "complete") ELSE ItemEnds(m, TRUE)
     ELSE Goes(m, "catch")
  /\ UNCHANGED <<package, item, cycle, mails, history, mishaps, runs>>

\* The catch of mintAndDeliverItem reads the item again ...
Catch(m) ==
  /\ at[m].pc = "catch"
  /\ IF item[at[m].item].status = "minting" THEN Goes(m, "reset")
                                            ELSE ItemEnds(m, FALSE)
  /\ UNCHANGED <<rows, mails, history, mishaps, runs>>

\* Bug: only an item approved before goes back.
BackToApproved(m) ==
  IF at[m].prior = "approved" THEN [status |-> "approved", cycle |-> 0]
                              ELSE item[at[m].item]

\* Bug: the item keeps the cycle it was linked to.
StillLinked(m) == [status |-> at[m].prior, cycle |-> item[at[m].item].cycle]

Before(m) == [status |-> at[m].prior, cycle |-> 0]

\* ... and puts it back into the queue.
ResetItem(m) ==
  LET i == at[m].item IN
  /\ at[m].pc = "reset"
  /\ item' = [item EXCEPT ![i] = Before(m)]
  /\ clobbered' = IF Done(item[i].status) THEN clobbered \cup {i}
                                                 ELSE clobbered
  /\ ItemEnds(m, FALSE)
  /\ UNCHANGED <<package, cycle, nft, mails, stranded, cut, mishaps, runs>>
-----------------------------------------------------------------------------
(* Around the queue                                                        *)

\* adminSetItemStatus of an item waiting in the queue.
Judge(i, verdict) ==
  LET its == [item EXCEPT ![i].status = verdict] IN
  /\ MoreRuns
  /\ item[i].status \in {"reviewing", "approved"} /\ item[i].status # verdict
  /\ item' = its
  /\ package' = IF AllDone(its) THEN "completed" ELSE package
  /\ UNCHANGED <<cycle, nft, mails, at, history, mishaps>>

\* The depositor sells the token.
SellNft(i) ==
  /\ nft[i] = "user"
  /\ nft' = [nft EXCEPT ![i] = "sold"]
  /\ UNCHANGED <<package, item, cycle, mails, at, history, mishaps, runs>>

\* Between the reservation and the end of the mint.
MintInFlight(i) ==
  \E m \in Minters : at[m].item = i /\ at[m].pc \in {"attach", "link", "mint"}

\* recoverPass finishes the mint of an open cycle, or cancels it.
Recover(i) ==
  /\ cycle[i].st = "open" /\ ~MintInFlight(i)
  /\ cycle' = [cycle EXCEPT ![i].st = IF nft[i] = "none" THEN "none" ELSE "minted"]
  /\ UNCHANGED <<package, item, nft, mails, at, history, mishaps, runs>>

\* Minters that have completed an item and not delivered its token yet.
Delivering(m) == ~at[m].adopt /\ at[m].pc \in {"close", "closing", "deliver"}

Trying == {"find", "reserve", "attach", "link", "record", "complete",
           "completed", "close", "closing", "deliver"}

\* Minters whose item may be left in "minting" if they stop.
Responsible(m) == at[m].item # NoItem /\ at[m].pc \notin {"start", "find", "reserve"}

\* A transfer whose call throws may have been sent nevertheless.
SentAfterAll(m) ==
  IF at[m].pc = "deliver" /\ nft[at[m].item] = "custody"
  THEN {nft, [nft EXCEPT ![at[m].item] = "user"]} ELSE {nft}

\* A call throws: the item's catch takes over, or the run ends.
CallFails(m) ==
  LET i == at[m].item IN
  /\ at[m].pc \notin {"idle", "next", "mint"} /\ mishaps < MaxMishaps
  /\ mishaps' = mishaps + 1
  /\ nft' \in SentAfterAll(m)
  /\ stranded' = IF Delivering(m) /\ nft'[i] = "custody" THEN stranded \cup {i}
                                                       ELSE stranded
  /\ IF at[m].pc \in Trying
     THEN Goes(m, "catch") /\ UNCHANGED cut
     ELSE IF i # NoItem
     THEN /\ ItemEnds(m, FALSE)
          /\ cut' = IF Responsible(m) THEN cut \cup {i} ELSE cut
     ELSE Put(m, Idle) /\ UNCHANGED cut
  /\ UNCHANGED <<package, item, cycle, mails, clobbered, runs>>

QueueRestart ==
  /\ mishaps < MaxMishaps
  /\ mishaps' = mishaps + 1
  /\ stranded' = stranded \cup {at[m].item : m \in {x \in Minters : Delivering(x)}}
  /\ cut' = cut \cup {at[m].item : m \in {x \in Minters : Responsible(x)}}
  /\ at' = [m \in Minters |-> Idle]
  /\ UNCHANGED <<rows, mails, clobbered, runs>>

MintsItem(m) ==
  \/ StartItem(m) \/ FindToken(m) \/ ReserveCycle(m)
  \/ FindItem(m) \/ LinkItem(m)
  \/ MintNft(m) \/ MintFails(m) \/ RecordMint(m)
  \/ FindLinked(m) \/ SaveCompleted(m) \/ ReadItems(m) \/ ClosePackage(m)
  \/ Deliver(m) \/ Catch(m) \/ ResetItem(m)

RunsReview(m) ==
  MatchItems(m) \/ NextItem(m) \/ ReadReview(m) \/ SaveOutcome(m)

QueueNext ==
  \/ \E v \in Mails : \E S \in (SUBSET Items) \ {{}} : SendMail(v, S)
  \/ \E v \in Mails : PollMail(v) \/ Dismiss(v)
  \/ \E a \in Admins, v \in Mails : AdminMintReview(a, v)
  \/ \E a \in Admins, i \in Items : AdminMintItem(a, i)
  \/ \E m \in Minters : RunsReview(m) \/ MintsItem(m) \/ CallFails(m)
  \/ Label
  \/ \E i \in Items : Judge(i, "approved") \/ Judge(i, "rejected")
  \/ \E i \in Items : SellNft(i) \/ Recover(i)
  \/ QueueRestart

QueueSpec == QueueInit /\ [][QueueNext]_queueVars
-----------------------------------------------------------------------------
(* Properties                                                              *)

ItemStatuses == {"reviewing", "approved", "rejected", "minting", "completed"}

MinterStates ==
  [pc : {"idle", "match", "next", "start", "outcome", "save", "label", "mint",
         "catch", "reset"} \cup Trying,
   item : Items \cup {NoItem}, todo : SUBSET Items, mail : Mails \cup {NoItem},
   prior : {"reviewing", "approved"}, n : 0..MaxCycles, linked : BOOLEAN,
   adopt : BOOLEAN, ok : SUBSET Items, bad : SUBSET Items,
   had : [ok : SUBSET Items, bad : SUBSET Items]]

QueueTypeOK ==
  /\ package \in {"psa_reviewing", "completed"}
  /\ item \in [Items -> [status : ItemStatuses, cycle : 0..MaxCycles]]
  /\ \A i \in Items :
       item[i].cycle # 0 <=> item[i].status \in {"minting", "completed"}
  /\ cycle \in [Items -> [n : 0..MaxCycles, st : {"none", "open", "minted"}]]
  /\ nft \in [Items -> {"none", "custody", "user", "sold"}]
  /\ named \in [Mails -> SUBSET Items] /\ labelled \in SUBSET Mails
  /\ review \in [Mails -> [status : {"none", "pending", "minted", "failed",
                                     "dismissed"},
                           ok : SUBSET Items, bad : SUBSET Items]]
  /\ at \in [Minters -> MinterStates]
  /\ stranded \in SUBSET Items /\ cut \in SUBSET Items
  /\ clobbered \in SUBSET Items
  /\ runs \in Nat /\ mishaps \in Nat

Delivered(i) == nft[i] \in {"user", "sold"}

\* "Item -> completed (Live in portfolio)": a completed item's token has
\* reached the depositor, or its minter is about to send it, or was cut off
\* between the two.  A package is closed after its last card, except for a card
\* on which the saves of two minters crossed: the queue shows open packages only.
CompletedItemsDelivered ==
  \A i \in Items :
    /\ item[i].status = "completed" =>
         \/ Delivered(i) \/ i \in stranded
         \/ \E m \in Minters : at[m].item = i /\ Delivering(m)
    /\ package = "completed" => Done(item[i].status) \/ i \in clobbered

\* No error leaves an item in "minting", where nothing takes it up again: a
\* minter is at work on it, or was stopped before its catch was through.
MintingItemsHaveMinter ==
  \A i \in Items :
    item[i].status = "minting" =>
      i \in cut \/ \E m \in Minters : at[m].item = i /\ Responsible(m)

\* A review that says "minted" without an error accounts for every cert of
\* its mail, and every success it lists is a token with the depositor.
MintedReviewsDelivered ==
  \A v \in Mails :
    /\ \A i \in review[v].ok : Delivered(i)
    /\ review[v].status = "minted" /\ review[v].bad = {} =>
         named[v] \subseteq review[v].ok
=============================================================================
