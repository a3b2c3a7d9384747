---------------------------- MODULE VaultIntake ----------------------------
(***************************************************************************)
(* A seller's packages on their way to PSA (VaultSubmissionService): the   *)
(* package is composed, shipped, and marked arrived by an admin or by the  *)
(* mail "Items Received" (PsaReceivedMailService), while partners mint     *)
(* cards that never ship (RwaMintService.mintForUser, deliveryMode         *)
(* direct).  From the arrival on it is MintQueue.                          *)
(*                                                                         *)
(* Only the composition is a transaction.  Every other handler reads a     *)
(* package with its items, checks it, and saves that whole row, then the   *)
(* items one by one.  TypeORM refuses to save a package whose items were   *)
(* replaced since they were read: it would detach the new ones.            *)
(***************************************************************************)
EXTENDS Naturals, FiniteSets

CONSTANTS
  Certs,          \* PSA certs, one slab each
  Callers,        \* calls in flight
  MaxPackages,    \* bound on the packages of the seller,
  MaxCalls,       \* on calls,
  MaxPaths,       \* on the direct mints of a card,
  MaxIntakeFaults \* and on failing calls and restarts

ASSUME IntakeAssumption ==
  /\ MaxPackages \in Nat /\ MaxCalls \in Nat
  /\ MaxPaths \in Nat /\ MaxIntakeFaults \in Nat

Packages == 1..MaxPackages

VARIABLES
  parcel,     \* vault_submissions: status, and paper: none, slip or tracking
  slab,       \* vault_submission_items: of a package, how often they were
              \* replaced, and each cert's status and vault_cycle_id (0: null)
  path,       \* vault_cycles of a cert: number of the last one, is it open
  letter,     \* the mail: its certs, label, and vault_psa_arrival_reviews row
  caller,     \* what a call in flight holds in memory
  ever,       \* history, see NothingYet,
  calls,      \*   calls,
  slips       \*   and faults so far

records == <<parcel, slab, path, letter>>
intakeVars == <<records, caller, ever, calls, slips>>

NothingYet ==
  [shipped    |-> {},     \* packages ever saved with tracking
   overlapped |-> {},     \* packages not as read when a save wrote over them
   early      |-> {},     \* packages moved to PSA by one card, before others
   torn       |-> {},     \* packages whose arrival was cut off
   raced      |-> {},     \* certs shipped and minted by overlapping calls
   moved      |-> {},     \* packages the confirmation of the mail moved to PSA
   quarrel    |-> FALSE]  \* was the mail decided twice by overlapping calls

Unlisted == [st |-> "none", cyc |-> 0]
OnItsWay == [st |-> "in_transit", cyc |-> 0]
NoParcel == [st |-> "none", paper |-> "none"]

\* op: what a save of the package is for; then: where the call goes on.
AtRest == [pc |-> "idle", op |-> "none", then |-> "idle", p |-> 0,
           row |-> NoParcel, gen |-> 0, certs |-> {}, todo |-> {},
           item |-> Unlisted, was |-> Unlisted, found |-> {}, rows |-> {},
           marked |-> {}, had |-> {}, by |-> "none"]

\* The row a save writes: the one read, changed.
Rewritten(op, row) ==
  CASE op = "slip"     -> [row EXCEPT !.paper = "slip"]
    [] op = "cancel"   -> [row EXCEPT !.st = "cancelled"]
    [] op = "track"    -> [st |-> "in_transit", paper |-> "tracking"]
    [] op \in {"arrive", "move"} -> [row EXCEPT !.st = "psa_reviewing"]
    [] op = "complete" -> [row EXCEPT !.st = "completed"]

\* Nothing yet, or a package with every card on its way (after one call, for the
\* bound).
IntakeInit ==
  /\ \/ /\ parcel = [p \in Packages |-> NoParcel]
        /\ slab = [p \in Packages |->
                     [gen |-> 0, item |-> [c \in Certs |-> Unlisted]]]
        /\ ever = NothingYet /\ calls = 0
     \/ /\ parcel = [p \in Packages |->
                       IF p = 1 THEN Rewritten("track", NoParcel) ELSE NoParcel]
        /\ slab = [p \in Packages |->
                     [gen |-> 0,
                      item |-> [c \in Certs |->
                                  IF p = 1 THEN OnItsWay ELSE Unlisted]]]
        /\ ever = [NothingYet EXCEPT !.shipped = {1} \cap Packages] /\ calls = 1
  /\ path = [c \in Certs |-> [n |-> 0, open |-> FALSE]]
  /\ letter = [certs |-> {}, st |-> "none", marked |-> {}, done |-> FALSE]
  /\ caller = [k \in Callers |-> AtRest]
  /\ slips = 0
-----------------------------------------------------------------------------
(* Reading and saving                                                      *)
St(p, c)  == slab[p].item[c].st
Inside(p) == {c \in Certs : St(p, c) # "none"}
On(p, S)  == {c \in Certs : St(p, c) \in S}
Exists(p) == parcel[p].st # "none"

Underway == {"awaiting_shipment", "in_transit"}
Waiting == {"confirmed", "in_transit"}
Ended   == {"completed", "rejected"}

Sets(k, r) == caller' = [caller EXCEPT ![k] = r]
Goto(k, pc) == Sets(k, [caller[k] EXCEPT !.pc = pc])

NextCall(k) ==
  /\ caller[k].pc = "idle"
  /\ k = CHOOSE j \in Callers : caller[j].pc = "idle"
  /\ calls < MaxCalls
  /\ calls' = calls + 1

Begins(k) == NextCall(k) /\ UNCHANGED <<records, slips>>

\* findOwned, findAny: the package with its items, for the save of op.
With(r, op, p, todo, then) ==
  [r EXCEPT !.op = op, !.p = p, !.row = parcel[p], !.gen = slab[p].gen,
            !.certs = Inside(p), !.todo = todo, !.then = then]

\* The confirmation of a mail goes on with its next package.
Continues(r, marked) ==
  [AtRest EXCEPT !.pc = "next", !.by = r.by, !.found = r.found, !.had = r.had,
                 !.marked = marked]

\* The direct mint goes on.
Resumes(r, pc) ==
  [AtRest EXCEPT !.pc = pc, !.certs = r.certs, !.item = r.item]

\* The call ends, or goes on with its next package, or with the mint.
CallEnds(r) ==
  CASE r.then = "idle" -> AtRest
    [] r.then = "next" -> Continues(r, r.marked \cup {r.p})
    [] r.then \in {"mint", "clear"} -> Resumes(r, r.then)

\* An error ends a call; the confirmation of a mail skips the package.
Throws(r) ==
  IF r.then = "next" THEN Continues(r, r.marked) ELSE AtRest

SavePackage(k) ==
  LET r == caller[k]  p == r.p IN
  /\ r.pc = "save"
  /\ IF slab[p].gen # r.gen
     THEN Sets(k, Throws(r)) /\ UNCHANGED <<parcel, ever>>
     ELSE /\ parcel' = [parcel EXCEPT ![p] = Rewritten(r.op, r.row)]
          /\ Sets(k, IF r.todo = {} THEN CallEnds(r) ELSE [r EXCEPT !.pc = "items"])
          /\ ever' = [ever EXCEPT
               !.overlapped = @ \cup {q \in {p} : parcel[p] # r.row},
               !.shipped    = @ \cup {q \in {p} : r.op = "track"},
               !.early      = @ \cup {q \in {p} : /\ r.op = "move"
                                                  /\ On(p, Waiting) # {}},
               !.moved      = @ \cup {q \in {p} : r.then = "next"}]
  /\ UNCHANGED <<slab, path, letter, calls, slips>>

\* An item replaced since is inserted again, unless its cert is listed.
SaveItem(k, c) ==
  LET r    == caller[k]
      p    == r.p
      st   == IF r.op = "track" THEN "in_transit" ELSE "reviewing"
      left == r.todo \ {c}
      seen == IF r.op = "track" THEN {"confirmed"} ELSE Waiting IN
  /\ r.pc = "items" /\ c \in r.todo
  /\ IF slab[p].gen # r.gen /\ c \in Inside(p)
     THEN Sets(k, Throws(r)) /\ UNCHANGED <<slab, ever>>
     ELSE /\ slab' = [slab EXCEPT ![p].item[c] = [st |-> st, cyc |-> 0]]
          /\ ever' = [ever EXCEPT
               !.overlapped = @ \cup {q \in {p} : St(p, c) \notin seen}]
          /\ Sets(k, IF left = {} THEN CallEnds(r) ELSE [r EXCEPT !.todo = left])
  /\ UNCHANGED <<parcel, path, letter, calls, slips>>

\* The save of one item by a call at pc, which goes on to the call at next.
SavesItem(k, pc, next) ==
  LET r == caller[k]  p == r.p IN
  /\ r.pc = pc
  /\ \E c \in r.certs :
       IF slab[p].gen # r.gen /\ c \in Inside(p)
       THEN Sets(k, AtRest) /\ UNCHANGED <<slab, ever>>
       ELSE /\ slab' = [slab EXCEPT ![p].item[c] = r.item]
            /\ ever' = [ever EXCEPT
                 !.overlapped = @ \cup {q \in {p} : slab[p].item[c] # r.was}]
            /\ Goto(k, next)
  /\ UNCHANGED <<parcel, path, letter, calls, slips>>
-----------------------------------------------------------------------------
(* The seller                                                              *)

Composed(p, S) ==
  slab' = [slab EXCEPT ![p] =
    [gen |-> @.gen + 1,
     item |-> [c \in Certs |-> IF c \in S THEN [st |-> "confirmed", cyc |-> 0]
                                          ELSE Unlisted]]]

\* upsertDraft: the open package is found under a row lock, and its items are
\* replaced; with none found, one is created.
UpsertDraft(k, S) ==
  LET drafts == {p \in Packages : parcel[p].st = "awaiting_shipment"} IN
  /\ S # {}
  /\ NextCall(k)
  /\ IF drafts = {}
     THEN Sets(k, [AtRest EXCEPT !.pc = "create", !.certs = S]) /\ UNCHANGED slab
     ELSE \E p \in drafts : Composed(p, S) /\ UNCHANGED caller
  /\ UNCHANGED <<parcel, path, letter, ever, slips>>

CreatePackage(k, p) ==
  /\ caller[k].pc = "create"
  /\ ~Exists(p) /\ \A q \in Packages : ~Exists(q) => p <= q
  /\ parcel' = [parcel EXCEPT ![p].st = "awaiting_shipment"]
  /\ Composed(p, caller[k].certs)
  /\ Sets(k, AtRest)
  /\ UNCHANGED <<path, letter, ever, calls, slips>>

\* markPackingSlipDownloaded
DownloadSlip(k, p) ==
  /\ Exists(p) /\ parcel[p].paper = "none"
  /\ Begins(k)
  /\ Sets(k, With([AtRest EXCEPT !.pc = "save"], "slip", p, {}, "idle"))
  /\ UNCHANGED ever

\* Bug: a package on its way may be cancelled until PSA has it.
NotArrived(p) == parcel[p].st \in Underway

PreShip(p) == parcel[p].st = "awaiting_shipment" /\ parcel[p].paper # "tracking"

\* cancelPreShipPackage
CancelPreShip(k, p) ==
  /\ PreShip(p)
  /\ Begins(k)
  /\ Sets(k, With([AtRest EXCEPT !.pc = "save"], "cancel", p, {}, "idle"))
  /\ UNCHANGED ever

\* registerTracking, also to correct the tracking number
RegisterTracking(k, p) ==
  /\ parcel[p].st \in Underway
  /\ Inside(p) # {} /\ Inside(p) = On(p, Waiting)
  /\ Begins(k)
  /\ Sets(k, With([AtRest EXCEPT !.pc = "cycles"], "track", p,
                  On(p, {"confirmed"}), "idle"))
  /\ UNCHANGED ever

\* checkAvailableForNewCycle
NoOpenCycle(c) == ~path[c].open

Reserving == {j \in Callers : caller[j].pc = "reserve"}
Shipping  == {j \in Callers : caller[j].pc = "save" /\ caller[j].op = "track"}

CheckCycles(k) ==
  LET S == caller[k].certs IN
  /\ caller[k].pc = "cycles"
  /\ IF \A c \in S : NoOpenCycle(c)
     THEN /\ Goto(k, "save")
          /\ ever' = [ever EXCEPT
               !.raced = @ \cup UNION {S \cap caller[j].certs : j \in Reserving}]
     ELSE Sets(k, AtRest) /\ UNCHANGED ever
  /\ UNCHANGED <<records, calls, slips>>
-----------------------------------------------------------------------------
(* Arrival                                                                 *)
Arrivable(p) == parcel[p].st \in Underway

\* Bug: cards of a package without tracking stay "confirmed".
OnTheWay(p) == On(p, {"in_transit"})

ToReview(p) == On(p, Waiting)

\* adminMarkArrived
MarkArrived(k, p) ==
  /\ Arrivable(p)
  /\ Begins(k)
  /\ Sets(k, With([AtRest EXCEPT !.pc = "save"], "arrive", p, ToReview(p), "idle"))
  /\ UNCHANGED ever

\* adminSetItemStatus of a card that has no end yet: the item is read ...
SetItemStatus(k, p, c, st) ==
  /\ c \in Inside(p) /\ St(p, c) \notin Ended \cup {st}
  /\ Begins(k)
  /\ Sets(k, [With([AtRest EXCEPT !.pc = "judge"], "none", p, {}, "idle")
                EXCEPT !.certs = {c}, !.was = slab[p].item[c],
                       !.item = [slab[p].item[c] EXCEPT !.st = st]])
  /\ UNCHANGED ever

\* ... saved ...
SaveVerdict(k) == SavesItem(k, "judge", "sync")

\* ... and the package follows its cards.
Follows(p) ==
  IF Inside(p) = On(p, Ended) THEN {"complete"}
  ELSE IF On(p, {"reviewing", "approved", "rejected"}) # {} /\ Arrivable(p)
       THEN {"move"} ELSE {}

SyncPackage(k) ==
  LET p == caller[k].p IN
  /\ caller[k].pc = "sync"
  /\ IF Follows(p) = {} THEN Sets(k, AtRest)
     ELSE \E op \in Follows(p) :
            Sets(k, With([AtRest EXCEPT !.pc = "save"], op, p, {}, "idle"))
  /\ UNCHANGED <<records, ever, calls, slips>>
-----------------------------------------------------------------------------
(* The mail "Items Received"                                               *)

\* PSA names cards of packages shipped to it; read first when polled.
Letters ==
  IF letter.certs # {} THEN {letter.certs}
  ELSE (SUBSET UNION {Inside(p) : p \in ever.shipped}) \ {{}}

\* findOpenPackagesByCerts
Holding(S) == {p \in Packages : Arrivable(p) /\ Inside(p) \cap S # {}}
Matching == Holding(letter.certs)

\* pollOnceLocked, one at a time: enqueuePsaArrivalReview.
PollReceived(k, S) ==
  /\ S \in Letters /\ ~letter.done
  /\ \A j \in Callers : caller[j].by # "auto"
  /\ NextCall(k)
  /\ letter' = IF letter.st = "none"
               THEN [letter EXCEPT !.certs = S, !.st = "pending",
                                   !.marked = Holding(S)]
               ELSE letter
  /\ Sets(k, [AtRest EXCEPT !.by = "auto",
                !.pc = IF letter'.st = "pending" THEN "auto" ELSE "label"])
  /\ UNCHANGED <<parcel, slab, path, ever, slips>>

\* maybeAutoConfirmPsaArrivalReview
MaybeAutoConfirm(k) ==
  /\ caller[k].pc = "auto"
  /\ Goto(k, IF letter.st = "pending" /\ Matching # {} THEN "apply" ELSE "label")
  /\ UNCHANGED <<records, ever, calls, slips>>

\* confirmPsaArrivalReview
AdminConfirmMail(k) ==
  /\ letter.st # "none"
  /\ Begins(k)
  /\ Sets(k, [AtRest EXCEPT !.pc = "apply", !.by = "admin"])
  /\ UNCHANGED ever

\* Bug: the status is left to the caller to check.
AnyReview == letter.st # "none"

Pending == letter.st = "pending"

Finished(k) == IF caller[k].by = "auto" THEN Goto(k, "label") ELSE Sets(k, AtRest)

Dismissing == \E j \in Callers : caller[j].pc = "dismiss"
Confirming == \E j \in Callers : caller[j].by # "none" /\
                caller[j].pc \in {"next", "save", "items", "confirm"} /\
                (caller[j].pc \in {"save", "items"} => caller[j].then = "next")

\* applyPsaArrivalConfirm
ApplyConfirm(k) ==
  /\ caller[k].pc = "apply"
  /\ IF Pending
     THEN /\ Sets(k, [caller[k] EXCEPT !.pc = "next", !.found = Matching,
                                   !.had = letter.marked])
          /\ ever' = [ever EXCEPT !.quarrel = @ \/ Dismissing \/ Confirming]
     ELSE Finished(k) /\ UNCHANGED ever
  /\ UNCHANGED <<records, calls, slips>>

NextPackage(k) ==
  LET r == caller[k] IN
  /\ r.pc = "next"
  /\ IF r.found = {}
     THEN IF r.by = "auto" /\ r.marked = {} THEN Goto(k, "label")
                                            ELSE Goto(k, "confirm")
     ELSE \E p \in r.found :
       LET s == [r EXCEPT !.found = @ \ {p}] IN
       Sets(k, IF Arrivable(p)
               THEN With([s EXCEPT !.pc = "save"], "arrive", p, ToReview(p), "next")
               ELSE s)
  /\ UNCHANGED <<records, ever, calls, slips>>

SaveConfirmed(k) ==
  /\ caller[k].pc = "confirm"
  /\ letter' = [letter EXCEPT !.st = "confirmed",
                              !.marked = caller[k].had \cup caller[k].marked]
  /\ Finished(k)
  /\ UNCHANGED <<parcel, slab, path, ever, calls, slips>>

LabelMail(k) ==
  /\ caller[k].pc = "label"
  /\ letter' = [letter EXCEPT !.done = TRUE]
  /\ Sets(k, AtRest)
  /\ UNCHANGED <<parcel, slab, path, ever, calls, slips>>

\* dismissPsaArrivalReview
DismissArrival(k) ==
  /\ Pending
  /\ Begins(k)
  /\ Sets(k, [AtRest EXCEPT !.pc = "dismiss", !.had = letter.marked])
  /\ ever' = [ever EXCEPT !.quarrel = @ \/ Confirming]

SaveDismissed(k) ==
  /\ caller[k].pc = "dismiss"
  /\ letter' = [letter EXCEPT !.st = "dismissed", !.marked = caller[k].had]
  /\ Sets(k, AtRest)
  /\ UNCHANGED <<parcel, slab, path, ever, calls, slips>>
-----------------------------------------------------------------------------
(* A direct mint                                                           *)

\* Bug: only the status of the item is asked.
BlockedByItem(p, c) ==
  parcel[p].st # "cancelled" /\ St(p, c) \in {"in_transit", "reviewing",
                                             "approved", "minting"}

\* isBlockedForSelfVault
Blocked(p, c) ==
  /\ parcel[p].st \notin {"none", "cancelled"} /\ c \in Inside(p)
  /\ St(p, c) \notin Ended
  /\ \/ St(p, c) \in {"in_transit", "reviewing", "approved", "minting"}
     \/ parcel[p].st \in {"in_transit", "psa_reviewing"}

\* assertCertAvailableForSelfVault
StartDirectMint(k, c) ==
  /\ path[c].n < MaxPaths
  /\ \A p \in Packages : ~Blocked(p, c)
  /\ Begins(k)
  /\ Sets(k, [AtRest EXCEPT !.pc = "reserve", !.certs = {c}])
  /\ ever' = [ever EXCEPT
       !.raced = @ \cup UNION {{c} \cap caller[j].certs : j \in Shipping}]

\* reserveCycleForDeposit
ReservePath(k, c) ==
  /\ caller[k].pc = "reserve" /\ c \in caller[k].certs
  /\ IF path[c].open \/ path[c].n = MaxPaths
     THEN Sets(k, AtRest) /\ UNCHANGED path
     ELSE /\ path' = [path EXCEPT ![c] = [n |-> @.n + 1, open |-> TRUE]]
          /\ Goto(k, "attach")
  /\ UNCHANGED <<parcel, slab, letter, ever, calls, slips>>

\* attachCycleForCert: an item of a package on its way or at PSA is found ...
FindShipped(k) ==
  LET r == caller[k] IN
  /\ r.pc = "attach"
  /\ \E c \in r.certs :
       LET here == {p \in Packages :
                      /\ parcel[p].st \in {"in_transit", "psa_reviewing"}
                      /\ c \in Inside(p) /\ St(p, c) \notin Ended} IN
       IF here = {} THEN Sets(k, Resumes(r, "mint"))
       ELSE \E p \in here :
              Sets(k, [r EXCEPT !.pc = "link", !.p = p, !.gen = slab[p].gen,
                         !.was = slab[p].item[c],
                         !.item = [st |-> "minting", cyc |-> path[c].n]])
  /\ UNCHANGED <<records, ever, calls, slips>>

\* ... linked ...
LinkShipped(k) == SavesItem(k, "link", "linked")

\* ... and its package counts as arrived.
MovePackage(k) ==
  LET r == caller[k] IN
  /\ r.pc = "linked"
  /\ Sets(k, IF parcel[r.p].st = "in_transit"
             THEN [With([r EXCEPT !.pc = "save"], "move", r.p, {}, "mint")
                     EXCEPT !.certs = r.certs, !.was = Unlisted]
             ELSE Resumes(r, "mint"))
  /\ UNCHANGED <<records, ever, calls, slips>>

\* The mint: done and recorded, or failed and its cycle cancelled.
MintDirect(k) ==
  LET r == caller[k] IN
  /\ r.pc = "mint"
  /\ Sets(k, Resumes(r, IF r.item.cyc = 0 THEN "clear" ELSE "find"))
  /\ UNCHANGED <<records, ever, calls, slips>>

GiveUpMint(k) ==
  /\ caller[k].pc = "mint"
  /\ slips < MaxIntakeFaults
  /\ slips' = slips + 1
  /\ path' = [c \in Certs |-> IF c \in caller[k].certs
                              THEN [path[c] EXCEPT !.open = FALSE] ELSE path[c]]
  /\ Sets(k, AtRest)
  /\ UNCHANGED <<parcel, slab, letter, ever, calls>>

\* markItemCompletedForCycle: the linked item, if it still is one ...
FindMinted(k) ==
  LET r == caller[k] IN
  /\ r.pc = "find"
  /\ \E c \in r.certs :
       LET here == {p \in Packages : slab[p].item[c].cyc = r.item.cyc} IN
       IF here = {} THEN Sets(k, Resumes(r, "clear"))
       ELSE \E p \in here :
              Sets(k, [r EXCEPT !.pc = "complete", !.p = p, !.gen = slab[p].gen,
                         !.was = slab[p].item[c], !.item.st = "completed"])
  /\ UNCHANGED <<records, ever, calls, slips>>

\* ... is completed ...
CompleteItem(k) == SavesItem(k, "complete", "completed")

\* ... and its package, when it was the last.
CompletePackage(k) ==
  LET r == caller[k] IN
  /\ r.pc = "completed"
  /\ Sets(k, IF Inside(r.p) = On(r.p, Ended)
             THEN [With([r EXCEPT !.pc = "save"], "complete", r.p, {}, "clear")
                     EXCEPT !.certs = r.certs, !.was = Unlisted]
             ELSE Resumes(r, "clear"))
  /\ UNCHANGED <<records, ever, calls, slips>>

\* cancelPreShipPackagesForCert: packages that list the cert are found, without
\* their items, ...
FindPreShip(k) ==
  LET r == caller[k] IN
  /\ r.pc = "clear"
  /\ Sets(k, [AtRest EXCEPT !.pc = "cancel",
              !.rows = {[p |-> p, row |-> parcel[p]] : p \in {q \in Packages :
                          /\ parcel[q].st = "awaiting_shipment"
                          /\ Inside(q) \cap r.certs # {}}}])
  /\ UNCHANGED <<records, ever, calls, slips>>

\* ... and saved as cancelled, all in one transaction.
ClearPreShip(k) ==
  LET found == {f.p : f \in caller[k].rows}
      read  == [p \in found |-> (CHOOSE f \in caller[k].rows : f.p = p).row] IN
  /\ caller[k].pc = "cancel"
  /\ parcel' = [p \in Packages |->
                  IF p \in found THEN Rewritten("cancel", read[p]) ELSE parcel[p]]
  /\ ever' = [ever EXCEPT
       !.overlapped = @ \cup {p \in found : parcel[p] # read[p]}]
  /\ Sets(k, AtRest)
  /\ UNCHANGED <<slab, path, letter, calls, slips>>

\* The card is redeemed, or the recovery cancels a reservation left behind.
EndCycle(c) ==
  /\ path[c].open
  /\ \A k \in Callers :
       caller[k].pc \in {"attach", "link", "linked", "mint", "find", "complete",
                         "completed"} => c \notin caller[k].certs
  /\ path' = [path EXCEPT ![c].open = FALSE]
  /\ UNCHANGED <<parcel, slab, letter, caller, ever, calls, slips>>
-----------------------------------------------------------------------------
(* Faults                                                                  *)

\* Packages a call leaves half arrived, or arrived and not noted.
HalfDone(r) ==
  (IF r.pc = "items" THEN {r.p} ELSE {}) \cup
  (IF r.then = "next" \/ r.pc \in {"next", "confirm"} THEN r.marked ELSE {})

\* A database call fails.  An error of the automatic confirmation is caught.
IntakeFails(k) ==
  LET r == caller[k] IN
  /\ r.pc \notin {"idle", "mint"}
  /\ slips < MaxIntakeFaults
  /\ slips' = slips + 1
  /\ Sets(k, IF r.by = "auto" /\ r.pc \in {"apply", "next", "confirm"}
             THEN [AtRest EXCEPT !.pc = "label", !.by = "auto"] ELSE Throws(r))
  /\ ever' = [ever EXCEPT !.torn = @ \cup HalfDone(r)]
  /\ UNCHANGED <<records, calls>>

IntakeRestart ==
  /\ slips < MaxIntakeFaults
  /\ slips' = slips + 1
  /\ ever' = [ever EXCEPT
       !.torn = @ \cup UNION {HalfDone(caller[k]) : k \in Callers}]
  /\ caller' = [k \in Callers |-> AtRest]
  /\ UNCHANGED <<records, calls>>

Sells(k) ==
  \/ \E S \in SUBSET Certs : UpsertDraft(k, S)
  \/ \E p \in Packages :
       CreatePackage(k, p) \/ DownloadSlip(k, p) \/ CancelPreShip(k, p)
         \/ RegisterTracking(k, p) \/ MarkArrived(k, p)
  \/ CheckCycles(k) \/ SavePackage(k) \/ \E c \in Certs : SaveItem(k, c)
  \/ \E p \in Packages, c \in Certs, st \in {"reviewing", "rejected"} :
       SetItemStatus(k, p, c, st)
  \/ SaveVerdict(k) \/ SyncPackage(k)

ReadsMail(k) ==
  \/ \E S \in SUBSET Certs : PollReceived(k, S)
  \/ MaybeAutoConfirm(k) \/ AdminConfirmMail(k)
  \/ ApplyConfirm(k) \/ NextPackage(k) \/ SaveConfirmed(k) \/ LabelMail(k)
  \/ DismissArrival(k) \/ SaveDismissed(k)

Mints(k) ==
  \/ \E c \in Certs : StartDirectMint(k, c) \/ ReservePath(k, c)
  \/ FindShipped(k) \/ LinkShipped(k) \/ MovePackage(k) \/ MintDirect(k)
  \/ GiveUpMint(k) \/ FindMinted(k) \/ CompleteItem(k) \/ CompletePackage(k)
  \/ FindPreShip(k) \/ ClearPreShip(k)

IntakeNext ==
  \/ \E k \in Callers : Sells(k) \/ ReadsMail(k) \/ Mints(k) \/ IntakeFails(k)
  \/ \E c \in Certs : EndCycle(c)
  \/ IntakeRestart

IntakeSpec == IntakeInit /\ [][IntakeNext]_intakeVars
-----------------------------------------------------------------------------
(* Properties                                                              *)

IntakeTypeOK ==
  LET Row  == [st : {"none", "awaiting_shipment", "in_transit", "psa_reviewing",
                     "completed", "cancelled"},
               paper : {"none", "slip", "tracking"}]
      Item == [st : {"none", "confirmed", "in_transit", "reviewing", "rejected",
                     "minting", "completed"}, cyc : 0..MaxPaths] IN
  /\ parcel \in [Packages -> Row]
  /\ slab \in [Packages -> [gen : Nat, item : [Certs -> Item]]]
  /\ path \in [Certs -> [n : 0..MaxPaths, open : BOOLEAN]]
  /\ letter \in [certs : SUBSET Certs, marked : SUBSET Packages, done : BOOLEAN,
                  st : {"none", "pending", "confirmed", "dismissed"}]
  /\ \A k \in Callers :
       LET r == caller[k] IN
       /\ r.p \in Packages \cup {0} /\ r.row \in Row /\ r.gen \in Nat
       /\ r.certs \in SUBSET Certs /\ r.todo \in SUBSET Certs
       /\ r.item \in Item /\ r.was \in Item
       /\ r.found \in SUBSET Packages /\ r.marked \in SUBSET Packages
       /\ r.had \in SUBSET Packages
       /\ r.rows \in SUBSET [p : Packages, row : Row]
       /\ r.by \in {"none", "auto", "admin"}
       /\ r.then \in {"idle", "next", "mint", "clear"}
       /\ (r.pc \in {"save", "items"} => r.op # "none")
  /\ ever \in [shipped : SUBSET Packages, overlapped : SUBSET Packages,
                early : SUBSET Packages, torn : SUBSET Packages,
                raced : SUBSET Certs, moved : SUBSET Packages, quarrel : BOOLEAN]
  /\ calls \in Nat /\ slips \in Nat

\* "Once tracking is registered the physical path has started": a package that
\* was shipped keeps its tracking, is not cancelled and not composed anew,
\* unless a handler saved over it what it had read before.
ShippedPackagesKept ==
  \A p \in ever.shipped \ ever.overlapped :
    parcel[p].paper = "tracking"
      /\ parcel[p].st \in {"in_transit", "psa_reviewing", "completed"}

\* The cards of a package at PSA are in reach of the mint queue, once all its
\* arrival is written: none is still "confirmed" or "in_transit".  Not so
\* after a cut-off arrival, a save over it, or when one card was judged or
\* minted before the package arrived.
QueueSeesArrived ==
  \A p \in Packages \ (ever.overlapped \cup ever.early \cup ever.torn) :
    /\ parcel[p].st = "psa_reviewing"
    /\ \A k \in Callers : ~(caller[k].pc = "items" /\ caller[k].p = p)
    => On(p, Waiting) = {}

\* "Self vault lock after ship": a card in a shipped package has no cycle of a
\* direct mint, unless the two calls were between check and save together.
OneVaultPath ==
  \A c \in Certs \ ever.raced, p \in Packages \ ever.overlapped :
    /\ parcel[p].paper = "tracking"
    /\ parcel[p].st \in {"in_transit", "psa_reviewing"}
    /\ c \in Inside(p) /\ St(p, c) \notin Ended
    => ~path[c].open

\* What the review of a mail says, it did: dismissed, it moved no package;
\* confirmed, it names those it moved.  Not so when an admin and the poll were
\* at it together, the confirmation was cut off, or the package changed under it.
ReviewsTellMoves ==
  ~ever.quarrel =>
    /\ letter.st = "dismissed" => ever.moved \subseteq ever.torn \cup ever.overlapped
    /\ letter.st = "confirmed" =>
         ever.moved \ (ever.torn \cup ever.overlapped) \subseteq letter.marked
=============================================================================
